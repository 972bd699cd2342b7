--------------------------- MODULE SharedAnswers ---------------------------
(***************************************************************************)
(* What a transparent caching gateway promises its agents: each question   *)
(* is answered at most once, and the answer is                             *)
(*   - what the provider made of that very question, or                    *)
(*   - a successful and complete answer that the provider gave to a        *)
(*     question with the same cache key, or                                *)
(*   - a refusal of the gateway's own (an error, a dropped connection).    *)
(* It may forget answers it could share at any time.                       *)
(***************************************************************************)

CONSTANTS
  Callers,        \* agents' connections
  Questions,      \* what agents ask
  Answers,        \* what providers answer
  Refusals,       \* what the gateway answers by itself
  NoQuestion,     \* a connection with nothing asked
  NoAnswer,       \* a question not yet answered
  AnswersTo,      \* the answers a provider may give to each question
  MayShare        \* the pairs of an answer and a question it may be shared with

VARIABLES
  asked,    \* per connection, its question
  answer,   \* per connection, the answer to it
  known     \* answers the gateway could still share

vars == <<asked, answer, known>>

Init ==
  /\ asked = [c \in Callers |-> NoQuestion]
  /\ answer = [c \in Callers |-> NoAnswer]
  /\ known = {}

(* A connection carries a new question only after the answer to the last.  *)
Ask(c) ==
  /\ asked[c] = NoQuestion \/ answer[c] # NoAnswer
  /\ \E q \in Questions : asked' = [asked EXCEPT ![c] = q]
  /\ answer' = [answer EXCEPT ![c] = NoAnswer]
  /\ known' \subseteq known

(* A question is answered once. *)
Reply(c, r) ==
  /\ asked[c] # NoQuestion
  /\ answer[c] = NoAnswer
  /\ answer' = [answer EXCEPT ![c] = r]
  /\ UNCHANGED asked

Relay(c) ==
  /\ asked[c] # NoQuestion
  /\ \E r \in AnswersTo[asked[c]] : Reply(c, r) /\ known' \subseteq known \cup {r}

Share(c) == \E r \in known :
              <<r, asked[c]>> \in MayShare /\ Reply(c, r) /\ known' \subseteq known

Refuse(c) == \E r \in Refusals : Reply(c, r) /\ known' \subseteq known

Forget == known' \subseteq known /\ UNCHANGED <<asked, answer>>

Next ==
  \/ \E c \in Callers : Ask(c) \/ Relay(c) \/ Share(c) \/ Refuse(c)
  \/ Forget

Spec == Init /\ [][Next]_vars

=============================================================================
