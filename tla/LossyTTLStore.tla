--------------------------- MODULE LossyTTLStore ---------------------------
(***************************************************************************)
(* What a prompt-cache backend promises to the request handlers, whatever  *)
(* it does inside: it may forget anything at any time, but it never        *)
(* invents an answer, never answers one key with the entry of another,     *)
(* never answers with an expired entry, and never holds an entry that      *)
(* could be served for longer than the longest lifetime it was given.      *)
(***************************************************************************)
EXTENDS Integers

CONSTANTS
  Keys,       \* cache keys
  Callers,    \* request handlers
  MaxTTL,     \* the longest lifetime any entry is stored with
  NoEntry,    \* the nil entry: a miss
  NoKey       \* the key of a caller that has not looked anything up

VARIABLES
  held,       \* the entries the store could still answer with
  now,        \* wall-clock time
  answer      \* per caller, the key it last looked up and the entry returned

storeVars == <<held, now, answer>>

Init ==
  /\ held = {}
  /\ now = 0
  /\ answer = [c \in Callers |-> [key |-> NoKey, entry |-> NoEntry]]

(* A call to Set takes effect: the entry replaces the one of its key;      *)
(* others may be lost in the same step.                                    *)
Accept ==
  /\ \E e \in held' : /\ held' \subseteq {h \in held : h.key # e.key} \cup {e}
                      /\ e.key \in Keys
                      /\ e.expires <= now + MaxTTL
  /\ UNCHANGED <<now, answer>>

(* Entries vanish: replaced, deleted or flushed.                           *)
Forget ==
  /\ held' \subseteq held
  /\ UNCHANGED <<now, answer>>

(* A call to Get returns nil, or a held entry of that key still alive.     *)
Answer(c, k) ==
  /\ \/ answer' = [answer EXCEPT ![c] = [key |-> k, entry |-> NoEntry]]
     \/ \E e \in held :
          /\ e.key = k
          /\ now <= e.expires
          /\ answer' = [answer EXCEPT ![c] = [key |-> k, entry |-> e]]
  /\ held' \subseteq held
  /\ UNCHANGED now

Pass ==
  /\ now' = now + 1
  /\ UNCHANGED <<held, answer>>

Next ==
  \/ Accept
  \/ Forget
  \/ Pass
  \/ \E c \in Callers, k \in Keys : Answer(c, k)

Spec == Init /\ [][Next]_storeVars

=============================================================================
