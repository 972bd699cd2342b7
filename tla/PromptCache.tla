---------------------------- MODULE PromptCache ----------------------------
(***************************************************************************)
(* The prompt cache: internal/cache/cache.go.                              *)
(*                                                                         *)
(* One Cache wraps one backend.  The memory backend is a map guarded by a  *)
(* mutex, so each of its methods is one action.  Set is two: the wrapper   *)
(* stamps the entry with the time before it asks for the mutex, and other  *)
(* goroutines run in between.  The redis backend is the stub the source    *)
(* has: it stores nothing and always answers nil.                          *)
(*                                                                         *)
(* Keys stand for SHA-256 digests (HashKey), taken to be collision-free.   *)
(***************************************************************************)
EXTENDS Integers, FiniteSets

CONSTANTS
  Keys,         \* digests HashKey can return
  Responses,    \* response bodies
  Callers,      \* goroutines that use the cache
  Configs,      \* the cache sections [enabled, backend] a process may start with
  ParsedTTL,    \* cfg.DefaultTTL as time.ParseDuration reads it, 0 on error
  FallbackTTL,  \* what New uses instead of 0: five minutes
  CallTTLs,     \* ttl arguments Set is called with
  MaxTTL,       \* an upper bound on every effective ttl
  NoEntry,      \* the nil *CacheEntry
  NoKey,        \* "no call yet" in the got variable
  MaxClock,     \* bound: the clock stops here
  MaxGets       \* bound: Gets counted between two flushes

Entry == [key : Keys, response : Responses, expires : Int]

(* New refuses any other backend. *)
ASSUME CacheConfigAssumption ==
  Configs \subseteq [enabled : BOOLEAN, backend : {"memory", "", "redis"}]

(* New: a default of zero, or one that does not parse, becomes five minutes. *)
DefaultTTL == IF ParsedTTL = 0 THEN FallbackTTL ELSE ParsedTTL

(* Set: a ttl of zero asks for the default. *)
EffectiveTTL(ttl) == IF ttl = 0 THEN DefaultTTL ELSE ttl

ASSUME CacheTTLAssumption ==
  /\ ParsedTTL \in Int /\ FallbackTTL \in Int /\ MaxTTL \in Int
  /\ CallTTLs \subseteq Int
  /\ \A ttl \in CallTTLs : EffectiveTTL(ttl) <= MaxTTL

ASSUME CacheSentinelAssumption ==
  /\ NoEntry \notin Entry
  /\ NoKey \notin Keys

VARIABLES
  config,    \* what New was called with
  entries,   \* memoryBackend.entries
  hits,      \* memoryBackend.hits
  misses,    \* memoryBackend.misses
  clock,     \* time.Now()
  pending,   \* per caller, the entry Set has stamped but not yet stored
  got,       \* per caller, the key and result of its last Get
  accepted   \* history: per key, the last entry a completed Set was given
             \* since that key was deleted or the cache flushed

cacheVars == <<config, entries, hits, misses, clock, pending, got, accepted>>

CacheTypeOK ==
  /\ config \in Configs
  /\ entries \in [Keys -> Entry \cup {NoEntry}]
  /\ hits \in Nat
  /\ misses \in Nat
  /\ clock \in Nat
  /\ pending \in [Callers -> Entry \cup {NoEntry}]
  /\ got \in [Callers -> [key : Keys \cup {NoKey}, entry : Entry \cup {NoEntry}]]
  /\ accepted \in [Keys -> Entry \cup {NoEntry}]

CacheInit ==
  /\ config \in Configs
  /\ entries = [k \in Keys |-> NoEntry]
  /\ hits = 0
  /\ misses = 0
  /\ clock = 0
  /\ pending = [c \in Callers |-> NoEntry]
  /\ got = [c \in Callers |-> [key |-> NoKey, entry |-> NoEntry]]
  /\ accepted = [k \in Keys |-> NoEntry]

InMemory == config.backend \in {"memory", ""}

-----------------------------------------------------------------------------
(* Mutants of the definitions that follow, one plausible bug each. *)

MutLiveAlways(e) == TRUE
MutExpiredMisses == misses
MutFiled(e) == [k \in {e.key} |-> e]
MutFiledAnywhere(e) == [entries EXCEPT ![CHOOSE k \in Keys : TRUE] = e]
MutFileAbsent(e) ==
  [entries EXCEPT ![e.key] = IF entries[e.key] = NoEntry THEN e ELSE @]

-----------------------------------------------------------------------------
(* Not time.Now().After(entry.ExpiresAt): the last instant still counts. *)
Live(e) == clock <= e.expires

Return(c, k, e) == got' = [got EXCEPT ![c] = [key |-> k, entry |-> e]]

ExpiredMisses == misses + 1

GetAbsent(c, k) ==
  /\ entries[k] = NoEntry
  /\ misses' = misses + 1
  /\ Return(c, k, NoEntry)
  /\ UNCHANGED <<entries, hits>>

(* The lookup is also the only place that removes an expired entry. *)
GetExpired(c, k) ==
  /\ entries[k] # NoEntry
  /\ ~Live(entries[k])
  /\ misses' = ExpiredMisses
  /\ entries' = [entries EXCEPT ![k] = NoEntry]
  /\ Return(c, k, NoEntry)
  /\ UNCHANGED hits

GetLive(c, k) ==
  /\ entries[k] # NoEntry
  /\ Live(entries[k])
  /\ hits' = hits + 1
  /\ Return(c, k, entries[k])
  /\ UNCHANGED <<entries, misses>>

(* A disabled cache and the redis stub answer nil and count nothing. *)
GetNothing(c, k) ==
  /\ Return(c, k, NoEntry)
  /\ UNCHANGED <<entries, hits, misses>>

Get(c, k) ==
  /\ IF config.enabled /\ InMemory
       THEN GetAbsent(c, k) \/ GetExpired(c, k) \/ GetLive(c, k)
       ELSE GetNothing(c, k)
  /\ UNCHANGED <<config, clock, pending, accepted>>

(* Set up to the call of backend.Set: the entry gets its expiry here. *)
Stamp(c, k, r, ttl) ==
  /\ config.enabled
  /\ pending[c] = NoEntry
  /\ pending' = [pending EXCEPT ![c] =
                   [key |-> k, response |-> r,
                    expires |-> clock + EffectiveTTL(ttl)]]
  /\ UNCHANGED <<config, entries, hits, misses, clock, got, accepted>>

Filed(e) == [entries EXCEPT ![e.key] = e]

(* backend.Set: under the mutex the entry replaces whatever is there. *)
Store(c) ==
  /\ pending[c] # NoEntry
  /\ entries' = IF InMemory THEN Filed(pending[c]) ELSE entries
  /\ pending' = [pending EXCEPT ![c] = NoEntry]
  /\ accepted' = [accepted EXCEPT ![pending[c].key] = pending[c]]
  /\ UNCHANGED <<config, hits, misses, clock, got>>

Delete(k) ==
  /\ entries' = IF InMemory THEN [entries EXCEPT ![k] = NoEntry] ELSE entries
  /\ accepted' = [accepted EXCEPT ![k] = NoEntry]
  /\ UNCHANGED <<config, hits, misses, clock, pending, got>>

(* Flush reaches the backend even when the cache is disabled. *)
Flush ==
  /\ IF InMemory
       THEN /\ entries' = [k \in Keys |-> NoEntry]
            /\ hits' = 0
            /\ misses' = 0
       ELSE UNCHANGED <<entries, hits, misses>>
  /\ accepted' = [k \in Keys |-> NoEntry]
  /\ UNCHANGED <<config, clock, pending, got>>

(* Stats reads under the read lock; the hit rate is derived from it. *)
Stats ==
  IF InMemory
    THEN [hits |-> hits, misses |-> misses,
          entries |-> Cardinality({k \in Keys : entries[k] # NoEntry})]
    ELSE [hits |-> 0, misses |-> 0, entries |-> 0]

Tick ==
  /\ clock < MaxClock
  /\ clock' = clock + 1
  /\ UNCHANGED <<config, entries, hits, misses, pending, got, accepted>>

CacheNext ==
  \/ \E c \in Callers, k \in Keys : hits + misses < MaxGets /\ Get(c, k)
  \/ \E c \in Callers, k \in Keys, r \in Responses, ttl \in CallTTLs :
       Stamp(c, k, r, ttl)
  \/ \E c \in Callers : Store(c)
  \/ \E k \in Keys : Delete(k)
  \/ Flush
  \/ Tick

CacheSpec == CacheInit /\ [][CacheNext]_cacheVars

-----------------------------------------------------------------------------
(* Properties *)

Held == {entries[k] : k \in Keys} \ {NoEntry}

(* Every entry is filed under its own key, and neither a filed entry nor   *)
(* one on its way to be filed outlives the longest lifetime from now, even *)
(* if its handler was delayed between the two: what the implementation of  *)
(* the lossy store rests on.                                               *)
EntriesSound ==
  /\ \A k \in Keys : entries[k] # NoEntry =>
       entries[k].key = k /\ entries[k].expires <= clock + MaxTTL
  /\ \A c \in Callers : pending[c] # NoEntry =>
       pending[c].expires <= clock + MaxTTL

Contract == INSTANCE LossyTTLStore WITH
  held <- Held,
  now <- clock,
  answer <- got

(* The cache implements the lossy store with lifetimes: whatever handlers  *)
(* interleave between the stamping of an entry and its filing, a lookup    *)
(* returns nothing, or the entry last filed under exactly that key, still  *)
(* inside the lifetime it was stamped with.  (cache.go Get, Set, Flush.)   *)
ImplementsContract == Contract!Spec

(* What the memory backend answers, exactly: the last entry that a Set of  *)
(* that key has filed since the key was deleted or the cache flushed, for  *)
(* as long as that entry lives, and nil otherwise.  No overwrite, removal  *)
(* of an expired entry or Set of another key ever loses it or brings back  *)
(* another.  "Last" is the order in which the Sets got the mutex, and not  *)
(* that of their stamps: of two Sets that overlap the older may win, and   *)
(* expire first, and one that was stamped before a flush outlives it.      *)
RemembersAccepted ==
  [][\A c \in Callers, k \in Keys :
       InMemory /\ Get(c, k) =>
         got'[c].entry = IF accepted[k] # NoEntry /\ clock <= accepted[k].expires
                           THEN accepted[k] ELSE NoEntry]_cacheVars

=============================================================================
