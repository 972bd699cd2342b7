------------------------- MODULE PromptCacheProofs -------------------------
(***************************************************************************)
(* Proofs about the prompt cache, for every set of keys, responses and     *)
(* handlers, every lifetime and every bound.                               *)
(***************************************************************************)
EXTENDS PromptCache, TLAPS

(* The variables have their types in every reachable state.                *)
LEMMA CacheInitType == CacheInit => CacheTypeOK
BY DEF CacheInit, CacheTypeOK

LEMMA EffectiveTTLType ==
  ASSUME NEW ttl \in CallTTLs
  PROVE  EffectiveTTL(ttl) \in Int /\ EffectiveTTL(ttl) <= MaxTTL
BY CacheTTLAssumption DEF EffectiveTTL, DefaultTTL

LEMMA GetType ==
  ASSUME CacheTypeOK, NEW c \in Callers, NEW k \in Keys, Get(c, k)
  PROVE  CacheTypeOK'
<1>1. got' \in [Callers -> [key : Keys \cup {NoKey}, entry : Entry \cup {NoEntry}]]
  <2>1. \E e \in Entry \cup {NoEntry} : Return(c, k, e)
    BY DEF CacheTypeOK, Get, GetAbsent, GetExpired, GetLive, GetNothing
  <2> QED
    BY <2>1 DEF CacheTypeOK, Return
<1>2. entries' \in [Keys -> Entry \cup {NoEntry}]
  BY DEF CacheTypeOK, Get, GetAbsent, GetExpired, GetLive, GetNothing
<1>3. hits' \in Nat /\ misses' \in Nat
  BY DEF CacheTypeOK, Get, GetAbsent, GetExpired, GetLive, GetNothing, ExpiredMisses
<1>4. UNCHANGED <<config, clock, pending, accepted>>
  BY DEF Get
<1> QED
  BY <1>1, <1>2, <1>3, <1>4 DEF CacheTypeOK

(* The steps of CacheNext without its bound: what a component that uses the *)
(* cache does to it.                                                       *)
AnyCall ==
  \/ \E c \in Callers, k \in Keys : Get(c, k)
  \/ \E c \in Callers, k \in Keys, r \in Responses, ttl \in CallTTLs :
       Stamp(c, k, r, ttl)
  \/ \E c \in Callers : Store(c)
  \/ \E k \in Keys : Delete(k)
  \/ Flush
  \/ Tick

LEMMA AnyCallType == CacheTypeOK /\ [AnyCall]_cacheVars => CacheTypeOK'
<1> SUFFICES ASSUME CacheTypeOK, [AnyCall]_cacheVars
             PROVE  CacheTypeOK'
  OBVIOUS
<1>1. ASSUME NEW c \in Callers, NEW k \in Keys, Get(c, k)
      PROVE  CacheTypeOK'
  BY <1>1, GetType
<1>2. ASSUME NEW c \in Callers, NEW k \in Keys, NEW r \in Responses,
             NEW ttl \in CallTTLs, Stamp(c, k, r, ttl)
      PROVE  CacheTypeOK'
  <2>1. [key |-> k, response |-> r, expires |-> clock + EffectiveTTL(ttl)] \in Entry
    BY EffectiveTTLType DEF CacheTypeOK, Entry
  <2> QED
    BY <1>2, <2>1 DEF CacheTypeOK, Stamp
<1>3. ASSUME NEW c \in Callers, Store(c)
      PROVE  CacheTypeOK'
  <2>1. pending[c] \in Entry /\ pending[c].key \in Keys
    BY <1>3 DEF CacheTypeOK, Store, Entry
  <2> QED
    BY <1>3, <2>1 DEF CacheTypeOK, Store, Filed
<1>4. ASSUME NEW k \in Keys, Delete(k)
      PROVE  CacheTypeOK'
  BY <1>4 DEF CacheTypeOK, Delete
<1>5. CASE Flush
  BY <1>5 DEF CacheTypeOK, Flush
<1>6. CASE Tick
  BY <1>6 DEF CacheTypeOK, Tick
<1>7. CASE UNCHANGED cacheVars
  BY <1>7 DEF CacheTypeOK, cacheVars
<1> QED
  BY <1>1, <1>2, <1>3, <1>4, <1>5, <1>6, <1>7 DEF AnyCall

LEMMA CacheNextType == CacheTypeOK /\ [CacheNext]_cacheVars => CacheTypeOK'
BY AnyCallType DEF CacheNext, AnyCall

(* Type correctness of the prompt cache.                                   *)
THEOREM CacheTypeCorrect == CacheSpec => []CacheTypeOK
<1> QED
  BY CacheInitType, CacheNextType, PTL DEF CacheSpec

-----------------------------------------------------------------------------
(* The inductive invariant behind the refinement.                          *)
CacheInv == CacheTypeOK /\ EntriesSound

LEMMA EntryFields ==
  ASSUME NEW e \in Entry
  PROVE  e.key \in Keys /\ e.expires \in Int
BY DEF Entry

LEMMA GetSound ==
  ASSUME CacheInv, NEW c \in Callers, NEW k \in Keys, Get(c, k)
  PROVE  EntriesSound'
<1>1. \A x \in Keys : entries'[x] = NoEntry \/ entries'[x] = entries[x]
  BY DEF CacheInv, CacheTypeOK, Get, GetAbsent, GetExpired, GetLive, GetNothing
<1>2. UNCHANGED <<clock, pending>>
  BY DEF Get
<1> QED
  BY <1>1, <1>2 DEF CacheInv, EntriesSound

LEMMA StampSound ==
  ASSUME CacheInv, NEW c \in Callers, NEW k \in Keys, NEW r \in Responses,
         NEW ttl \in CallTTLs, Stamp(c, k, r, ttl)
  PROVE  EntriesSound'
<1>1. clock + EffectiveTTL(ttl) <= clock + MaxTTL
  BY EffectiveTTLType, CacheTTLAssumption DEF CacheInv, CacheTypeOK
<1>2. \A h \in Callers : pending'[h] # NoEntry =>
        pending'[h].expires <= clock + MaxTTL
  BY <1>1 DEF CacheInv, CacheTypeOK, EntriesSound, Stamp
<1> QED
  BY <1>2 DEF CacheInv, EntriesSound, Stamp

LEMMA StoreSound ==
  ASSUME CacheInv, NEW c \in Callers, Store(c)
  PROVE  EntriesSound'
<1>1. /\ pending[c] \in Entry
      /\ pending[c].key \in Keys
      /\ pending[c].expires <= clock + MaxTTL
  BY EntryFields DEF CacheInv, CacheTypeOK, EntriesSound, Store
<1>2. \A k \in Keys : entries'[k] # NoEntry =>
        entries'[k].key = k /\ entries'[k].expires <= clock + MaxTTL
  BY <1>1 DEF CacheInv, CacheTypeOK, EntriesSound, Store, Filed
<1>3. \A h \in Callers : pending'[h] # NoEntry =>
        pending'[h].expires <= clock + MaxTTL
  BY DEF CacheInv, CacheTypeOK, EntriesSound, Store
<1> QED
  BY <1>2, <1>3 DEF EntriesSound, Store

LEMMA TickSound ==
  ASSUME CacheInv, Tick
  PROVE  EntriesSound'
<1>1. \A e \in Entry : e.expires <= clock + MaxTTL => e.expires <= clock' + MaxTTL
  BY EntryFields, CacheTTLAssumption DEF CacheInv, CacheTypeOK, Tick
<1> QED
  BY <1>1 DEF CacheInv, CacheTypeOK, EntriesSound, Tick

LEMMA CacheNextSound == CacheInv /\ [CacheNext]_cacheVars => EntriesSound'
<1> SUFFICES ASSUME CacheInv, [CacheNext]_cacheVars
             PROVE  EntriesSound'
  OBVIOUS
<1>1. ASSUME NEW c \in Callers, NEW k \in Keys, Get(c, k)
      PROVE  EntriesSound'
  BY <1>1, GetSound
<1>2. ASSUME NEW c \in Callers, NEW k \in Keys, NEW r \in Responses,
             NEW ttl \in CallTTLs, Stamp(c, k, r, ttl)
      PROVE  EntriesSound'
  BY <1>2, StampSound
<1>3. ASSUME NEW c \in Callers, Store(c)
      PROVE  EntriesSound'
  BY <1>3, StoreSound
<1>4. ASSUME NEW k \in Keys, Delete(k)
      PROVE  EntriesSound'
  BY <1>4 DEF CacheInv, CacheTypeOK, EntriesSound, Delete
<1>5. CASE Flush
  BY <1>5 DEF CacheInv, EntriesSound, Flush
<1>6. CASE Tick
  BY <1>6, TickSound
<1>7. CASE UNCHANGED cacheVars
  BY <1>7 DEF CacheInv, EntriesSound, cacheVars
<1> QED
  BY <1>1, <1>2, <1>3, <1>4, <1>5, <1>6, <1>7 DEF CacheNext

(* Entries are filed under their own key and never outlive the longest     *)
(* lifetime, however long a handler waits between Set's two halves.        *)
THEOREM CacheInvariant == CacheSpec => []CacheInv
<1>1. CacheInit => CacheInv
  BY CacheInitType DEF CacheInit, CacheInv, EntriesSound
<1>2. CacheInv /\ [CacheNext]_cacheVars => CacheInv'
  BY CacheNextType, CacheNextSound DEF CacheInv
<1> QED
  BY <1>1, <1>2, PTL DEF CacheSpec

(* In every reachable state the entries are sound.                         *)
THEOREM EntriesAlwaysSound == CacheSpec => []EntriesSound
<1>1. CacheInv => EntriesSound
  BY DEF CacheInv
<1> QED
  BY <1>1, CacheInvariant, PTL

-----------------------------------------------------------------------------
(* Every step of the cache is a step of the lossy store, or a stutter.     *)

LEMMA GetAnswers ==
  ASSUME CacheInv, NEW c \in Callers, NEW k \in Keys, Get(c, k)
  PROVE  Contract!Answer(c, k)
<1>1. Held' \subseteq Held
  <2>1. \A x \in Keys : entries'[x] = NoEntry \/ entries'[x] = entries[x]
    BY DEF CacheInv, CacheTypeOK, Get, GetAbsent, GetExpired, GetLive, GetNothing
  <2> QED
    BY <2>1 DEF Held
<1>2. \/ Return(c, k, NoEntry)
      \/ entries[k] # NoEntry /\ Live(entries[k]) /\ Return(c, k, entries[k])
  BY DEF Get, GetAbsent, GetExpired, GetLive, GetNothing
<1>3. CASE Return(c, k, NoEntry)
  BY <1>1, <1>3 DEF Contract!Answer, Return, Get
<1>4. CASE entries[k] # NoEntry /\ Live(entries[k]) /\ Return(c, k, entries[k])
  <2>1. entries[k] \in Held /\ entries[k].key = k /\ clock <= entries[k].expires
    BY <1>4 DEF CacheInv, EntriesSound, Held, Live
  <2> QED
    BY <1>1, <1>4, <2>1 DEF Contract!Answer, Return, Get
<1> QED
  BY <1>2, <1>3, <1>4

LEMMA StoreAccepts ==
  ASSUME CacheInv, NEW c \in Callers, Store(c)
  PROVE  Contract!Accept \/ UNCHANGED Contract!storeVars
<1> DEFINE e == pending[c]
<1>1. /\ e \in Entry
      /\ e # NoEntry
      /\ e.key \in Keys
      /\ e.expires <= clock + MaxTTL
  BY EntryFields DEF CacheInv, CacheTypeOK, EntriesSound, Store
<1>2. CASE InMemory
  <2>1. entries' = [entries EXCEPT ![e.key] = e]
    BY <1>2 DEF Store, Filed
  <2>2. e \in Held'
    BY <1>1, <2>1 DEF CacheInv, CacheTypeOK, Held
  <2>3. Held' \subseteq {h \in Held : h.key # e.key} \cup {e}
    BY <1>1, <2>1 DEF CacheInv, CacheTypeOK, EntriesSound, Held
  <2> QED
    BY <1>1, <2>2, <2>3 DEF Contract!Accept, Store
<1>3. CASE ~InMemory
  BY <1>3 DEF Contract!storeVars, Held, Store
<1> QED
  BY <1>2, <1>3

LEMMA DeleteForgets ==
  ASSUME CacheInv, NEW k \in Keys, Delete(k)
  PROVE  Contract!Forget
<1>1. \A x \in Keys : entries'[x] = NoEntry \/ entries'[x] = entries[x]
  BY DEF CacheInv, CacheTypeOK, Delete
<1> QED
  BY <1>1 DEF Contract!Forget, Held, Delete

LEMMA FlushForgets ==
  ASSUME Flush
  PROVE  Contract!Forget
<1>1. \A x \in Keys : entries'[x] = NoEntry \/ entries'[x] = entries[x]
  BY DEF Flush
<1> QED
  BY <1>1 DEF Contract!Forget, Held, Flush

LEMMA CacheStepRefines ==
  CacheInv /\ [CacheNext]_cacheVars => [Contract!Next]_(Contract!storeVars)
<1> SUFFICES ASSUME CacheInv, [CacheNext]_cacheVars
             PROVE  Contract!Next \/ UNCHANGED Contract!storeVars
  BY DEF Contract!storeVars
<1>1. ASSUME NEW c \in Callers, NEW k \in Keys, Get(c, k)
      PROVE  Contract!Next
  BY <1>1, GetAnswers DEF Contract!Next
<1>2. ASSUME NEW c \in Callers, NEW k \in Keys, NEW r \in Responses,
             NEW ttl \in CallTTLs, Stamp(c, k, r, ttl)
      PROVE  UNCHANGED Contract!storeVars
  BY <1>2 DEF Stamp, Contract!storeVars, Held
<1>3. ASSUME NEW c \in Callers, Store(c)
      PROVE  Contract!Next \/ UNCHANGED Contract!storeVars
  BY <1>3, StoreAccepts DEF Contract!Next
<1>4. ASSUME NEW k \in Keys, Delete(k)
      PROVE  Contract!Next
  BY <1>4, DeleteForgets DEF Contract!Next
<1>5. CASE Flush
  BY <1>5, FlushForgets DEF Contract!Next
<1>6. CASE Tick
  BY <1>6 DEF Tick, Contract!Next, Contract!Pass, Held
<1>7. CASE UNCHANGED cacheVars
  BY <1>7 DEF cacheVars, Contract!storeVars, Held
<1> QED
  BY <1>1, <1>2, <1>3, <1>4, <1>5, <1>6, <1>7 DEF CacheNext

(* The cache implements the lossy store: a lookup answers nothing, or the  *)
(* live entry last filed under exactly that key.                           *)
THEOREM CacheImplementsContract == CacheSpec => ImplementsContract
<1>1. CacheInit => Contract!Init
  BY DEF CacheInit, Contract!Init, Held
<1>2. CacheInv /\ [CacheNext]_cacheVars => [Contract!Next]_(Contract!storeVars)
  BY CacheStepRefines
<1> QED
  BY <1>1, <1>2, CacheInvariant, PTL DEF CacheSpec, ImplementsContract, Contract!Spec

-----------------------------------------------------------------------------
(* What the memory backend still holds of what it accepted.                *)

(* The filed entry of a key is the accepted one, unless a lookup has       *)
(* removed it after its expiry.                                            *)
Filing ==
  \A k \in Keys :
    entries[k] # accepted[k] => /\ entries[k] = NoEntry
                                /\ accepted[k] # NoEntry
                                /\ accepted[k].expires < clock

(* A disabled cache is never given anything.                               *)
Idle ==
  /\ \A c \in Callers : pending[c] = NoEntry
  /\ \A k \in Keys : accepted[k] = NoEntry

Remembering == (InMemory => Filing) /\ (~config.enabled => Idle)

LEMMA RememberingGet ==
  ASSUME CacheTypeOK, Remembering, NEW c \in Callers, NEW k \in Keys, Get(c, k)
  PROVE  Remembering'
<1>1. UNCHANGED <<config, clock, pending, accepted>>
  BY DEF Get
<1>2. CASE entries' = entries
  BY <1>1, <1>2 DEF Remembering, Filing, Idle, InMemory
<1>3. CASE InMemory /\ GetExpired(c, k)
  <2>1. entries[k].expires < clock
    BY <1>3 DEF CacheTypeOK, Entry, GetExpired, Live
  <2>2. Filing'
    BY <1>1, <1>3, <2>1 DEF CacheTypeOK, Remembering, Filing, GetExpired
  <2> QED
    BY <1>1, <2>2 DEF Remembering, Idle, InMemory
<1> QED
  BY <1>2, <1>3 DEF Get, GetAbsent, GetLive, GetNothing

LEMMA RememberingStore ==
  ASSUME CacheTypeOK, Remembering, NEW c \in Callers, Store(c)
  PROVE  Remembering'
<1>1. UNCHANGED <<config, clock>> /\ config.enabled
  BY DEF Remembering, Idle, Store
<1>2. ASSUME InMemory
      PROVE  Filing'
  <2>1. pending[c] \in Entry /\ pending[c].key \in Keys
    BY DEF CacheTypeOK, Store, Entry
  <2> QED
    BY <1>2, <2>1 DEF CacheTypeOK, Remembering, Filing, Store, Filed
<1> QED
  BY <1>1, <1>2 DEF Remembering, InMemory

LEMMA RememberingStep ==
  CacheTypeOK /\ Remembering /\ [CacheNext]_cacheVars => Remembering'
<1> SUFFICES ASSUME CacheTypeOK, Remembering, [CacheNext]_cacheVars
             PROVE  Remembering'
  OBVIOUS
<1>1. ASSUME NEW c \in Callers, NEW k \in Keys, Get(c, k)
      PROVE  Remembering'
  BY <1>1, RememberingGet
<1>2. ASSUME NEW c \in Callers, NEW k \in Keys, NEW r \in Responses,
             NEW ttl \in CallTTLs, Stamp(c, k, r, ttl)
      PROVE  Remembering'
  BY <1>2 DEF Remembering, Filing, Idle, InMemory, Stamp
<1>3. ASSUME NEW c \in Callers, Store(c)
      PROVE  Remembering'
  BY <1>3, RememberingStore
<1>4. ASSUME NEW k \in Keys, Delete(k)
      PROVE  Remembering'
  BY <1>4 DEF CacheTypeOK, Remembering, Filing, Idle, InMemory, Delete
<1>5. CASE Flush
  BY <1>5 DEF CacheTypeOK, Remembering, Filing, Idle, InMemory, Flush
<1>6. CASE Tick
  <2>1. \A k \in Keys : accepted[k] # NoEntry => accepted[k].expires \in Int
    BY DEF CacheTypeOK, Entry
  <2>2. clock \in Int /\ clock' \in Int /\ clock < clock'
    BY <1>6 DEF CacheTypeOK, Tick
  <2>3. ASSUME Filing
        PROVE  Filing'
    <3> SUFFICES ASSUME NEW k \in Keys, entries[k] # accepted[k]
                 PROVE  accepted[k].expires < clock'
      BY <1>6, <2>3 DEF Filing, Tick
    <3> QED
      BY <2>1, <2>2, <2>3 DEF Filing
  <2> QED
    BY <1>6, <2>3 DEF Remembering, Idle, InMemory, Tick
<1>7. CASE UNCHANGED cacheVars
  BY <1>7 DEF Remembering, Filing, Idle, InMemory, cacheVars
<1> QED
  BY <1>1, <1>2, <1>3, <1>4, <1>5, <1>6, <1>7 DEF CacheNext

(* What a lookup of k ought to answer.                                     *)
Remembered(k) ==
  IF accepted[k] # NoEntry /\ clock <= accepted[k].expires THEN accepted[k] ELSE NoEntry

LEMMA AnswerIsRemembered ==
  ASSUME CacheTypeOK, Remembering, InMemory, NEW c \in Callers, NEW k \in Keys,
         Get(c, k)
  PROVE  got'[c].entry = Remembered(k)
<1>0. /\ \A e : Return(c, k, e) => got'[c].entry = e
      /\ accepted[k] # NoEntry => accepted[k].expires \in Int
      /\ clock \in Int
  BY DEF CacheTypeOK, Return, Entry
<1>1. CASE ~config.enabled
  <2>1. GetNothing(c, k) /\ accepted[k] = NoEntry
    BY <1>1 DEF Get, Remembering, Idle
  <2> QED
    BY <1>0, <2>1 DEF GetNothing, Remembered
<1>2. CASE config.enabled
  <2>1. GetAbsent(c, k) \/ GetExpired(c, k) \/ GetLive(c, k)
    BY <1>2 DEF Get
  <2>2. \/ entries[k] = accepted[k]
        \/ entries[k] = NoEntry /\ accepted[k] # NoEntry /\ accepted[k].expires < clock
    BY DEF Remembering, Filing
  <2>3. CASE GetAbsent(c, k)
    BY <1>0, <2>2, <2>3 DEF GetAbsent, Remembered
  <2>4. CASE GetExpired(c, k)
    BY <1>0, <2>2, <2>4 DEF GetExpired, Live, Remembered
  <2>5. CASE GetLive(c, k)
    BY <1>0, <2>2, <2>5 DEF GetLive, Live, Remembered
  <2> QED
    BY <2>1, <2>3, <2>4, <2>5
<1> QED
  BY <1>1, <1>2

(* The memory backend answers with the entry last filed under the key as   *)
(* long as that lives, and with nothing else.                              *)
THEOREM CacheRemembersAccepted == CacheSpec => RemembersAccepted
<1>1. CacheInit => Remembering
  BY DEF CacheInit, Remembering, Filing, Idle
<1>2. CacheSpec => [](CacheTypeOK /\ Remembering)
  BY <1>1, CacheInitType, CacheNextType, RememberingStep, PTL DEF CacheSpec
<1>3. CacheTypeOK /\ Remembering =>
        [\A c \in Callers, k \in Keys :
           InMemory /\ Get(c, k) =>
             got'[c].entry = IF accepted[k] # NoEntry /\ clock <= accepted[k].expires
                               THEN accepted[k] ELSE NoEntry]_cacheVars
  BY AnswerIsRemembered DEF Remembered
<1> QED
  BY <1>2, <1>3, PTL DEF RemembersAccepted

=============================================================================
