-------------------------- MODULE MetricsCollector --------------------------
(***************************************************************************)
(* The metrics collector: internal/metrics/metrics.go.                     *)
(*                                                                         *)
(* Every fact is kept twice: in Prometheus counters, which are lock-free   *)
(* and which /gateway/metrics exports, and in per-agent aggregates under a *)
(* mutex, which /gateway/stats reports.  RecordRequest and RecordCacheHit  *)
(* update first the one and then the other, and other goroutines run in    *)
(* between.  A Prometheus counter panics when it is asked to decrease.     *)
(*                                                                         *)
(* The provider, model and strategy labels are summed away: an agent has   *)
(* one counter of each kind.  The cost counter follows the saved tokens by *)
(* a positive factor and is left out.                                      *)
(***************************************************************************)
EXTENDS Integers, FiniteSets

CONSTANTS
  Callers,      \* goroutines that record
  Agents,       \* agent names
  Providers,    \* provider names
  TokenPairs,   \* records [original, optimized]: arguments of RecordRequest
  NoCall,       \* a goroutine with no Record call under way
  NoStats,      \* an agent with no entry in agentStats
  MaxRecorded   \* bound: RecordRequest calls plus cache hits, per agent

ASSUME MetricsCallersAssumption == IsFiniteSet(Callers)

ASSUME MetricsTokensAssumption ==
  TokenPairs \subseteq [original : Nat, optimized : Nat]

VARIABLES
  prom,         \* the Prometheus counters of an agent
  latency,      \* observations in the providerLatency histogram
  agentStats,   \* Collector.agentStats
  call,         \* per goroutine, what its Record call still has to do
  panicked      \* history: per agent, RecordRequest calls that panicked

metricsVars == <<prom, latency, agentStats, call, panicked>>

Counters == {"requests", "original", "optimized", "saved",
             "hits", "misses", "durations"}

AgentStats == [requests : Nat, original : Nat, optimized : Nat,
               saved : Nat, hits : Nat]

Tokens == [original : Nat, optimized : Nat]

Call == [step : {"saved", "aggregate", "hit"}, agent : Agents, tokens : Tokens]

ASSUME MetricsSentinelAssumption ==
  /\ NoCall \notin Call
  /\ NoStats \notin AgentStats

MetricsTypeOK ==
  /\ prom \in [Agents -> [Counters -> Nat]]
  /\ latency \in [Providers -> Nat]
  /\ agentStats \in [Agents -> AgentStats \cup {NoStats}]
  /\ call \in [Callers -> Call \cup {NoCall}]
  /\ panicked \in [Agents -> Nat]

MetricsInit ==
  /\ prom = [a \in Agents |-> [x \in Counters |-> 0]]
  /\ latency = [p \in Providers |-> 0]
  /\ agentStats = [a \in Agents |-> NoStats]
  /\ call = [c \in Callers |-> NoCall]
  /\ panicked = [a \in Agents |-> 0]

FreshStats == [requests |-> 0, original |-> 0, optimized |-> 0,
               saved |-> 0, hits |-> 0]

StatsOf(a) == IF agentStats[a] = NoStats THEN FreshStats ELSE agentStats[a]

NoTokens == [original |-> 0, optimized |-> 0]

-----------------------------------------------------------------------------
(* Mutants of the definitions that follow, one plausible bug each. *)

MutAccepts(v) == TRUE
MutAdded(s, t) == [FreshStats EXCEPT !.requests = 1, !.original = t.original,
                                     !.optimized = t.optimized,
                                     !.saved = t.original - t.optimized]
MutAddedTwice(s, t) == [s EXCEPT !.requests = @ + 2,
                                 !.original = @ + t.original,
                                 !.optimized = @ + t.optimized,
                                 !.saved = @ + t.original - t.optimized]
MutAddedHit(s) == [s EXCEPT !.hits = @ + 2]

-----------------------------------------------------------------------------
(* prometheus.Counter.Add: a negative amount panics. *)
Accepts(v) == v >= 0

Bump(a, x, v) == prom' = [prom EXCEPT ![a][x] = @ + v]

Counted(row, t) == [row EXCEPT !.requests = @ + 1,
                               !.original = @ + t.original,
                               !.optimized = @ + t.optimized]

(* RecordRequest: the counters that always go up. *)
CountRequest(c, a, t) ==
  /\ call[c] = NoCall
  /\ prom' = [prom EXCEPT ![a] = Counted(@, t)]
  /\ call' = [call EXCEPT ![c] = [step |-> "saved", agent |-> a, tokens |-> t]]
  /\ UNCHANGED <<latency, agentStats, panicked>>

SavedBy(t) == t.original - t.optimized

(* RecordRequest: tokensSaved.Add(saved) *)
CountSaved(c) ==
  /\ call[c] # NoCall
  /\ call[c].step = "saved"
  /\ Accepts(SavedBy(call[c].tokens))
  /\ Bump(call[c].agent, "saved", SavedBy(call[c].tokens))
  /\ call' = [call EXCEPT ![c].step = "aggregate"]
  /\ UNCHANGED <<latency, agentStats, panicked>>

(* ... which unwinds the goroutine when the text grew. *)
SavedPanics(c) ==
  /\ call[c] # NoCall
  /\ call[c].step = "saved"
  /\ ~Accepts(SavedBy(call[c].tokens))
  /\ panicked' = [panicked EXCEPT ![call[c].agent] = @ + 1]
  /\ call' = [call EXCEPT ![c] = NoCall]
  /\ UNCHANGED <<prom, latency, agentStats>>

Added(s, t) == [requests  |-> s.requests + 1,
                original  |-> s.original + t.original,
                optimized |-> s.optimized + t.optimized,
                saved     |-> s.saved + SavedBy(t),
                hits      |-> s.hits]

(* RecordRequest: the part under the mutex. *)
AggregateRequest(c) ==
  /\ call[c] # NoCall
  /\ call[c].step = "aggregate"
  /\ LET a == call[c].agent IN
       agentStats' = [agentStats EXCEPT ![a] = Added(StatsOf(a), call[c].tokens)]
  /\ call' = [call EXCEPT ![c] = NoCall]
  /\ UNCHANGED <<prom, latency, panicked>>

(* RecordCacheHit: the counter, *)
CountHit(c, a) ==
  /\ call[c] = NoCall
  /\ Bump(a, "hits", 1)
  /\ call' = [call EXCEPT ![c] = [step |-> "hit", agent |-> a, tokens |-> NoTokens]]
  /\ UNCHANGED <<latency, agentStats, panicked>>

AddedHit(s) == [s EXCEPT !.hits = @ + 1]

(* then the aggregate, but only of an agent that already has one. *)
AggregateHit(c) ==
  /\ call[c] # NoCall
  /\ call[c].step = "hit"
  /\ LET a == call[c].agent IN
       agentStats' = IF agentStats[a] = NoStats THEN agentStats
                     ELSE [agentStats EXCEPT ![a] = AddedHit(@)]
  /\ call' = [call EXCEPT ![c] = NoCall]
  /\ UNCHANGED <<prom, latency, panicked>>

CountMiss(c, a) ==
  /\ call[c] = NoCall
  /\ Bump(a, "misses", 1)
  /\ UNCHANGED <<latency, agentStats, call, panicked>>

RecordOptimizeDuration(c, a) ==
  /\ call[c] = NoCall
  /\ Bump(a, "durations", 1)
  /\ UNCHANGED <<latency, agentStats, call, panicked>>

RecordProviderLatency(c, p) ==
  /\ call[c] = NoCall
  /\ latency' = [latency EXCEPT ![p] = @ + 1]
  /\ UNCHANGED <<prom, agentStats, call, panicked>>

-----------------------------------------------------------------------------
RoomFor(a) ==
  prom[a].requests + prom[a].hits + prom[a].misses + prom[a].durations < MaxRecorded

Observed(p) == latency[p] < 1

MetricsNext ==
  \/ \E c \in Callers, a \in Agents :
       /\ RoomFor(a)
       /\ \/ \E t \in TokenPairs : CountRequest(c, a, t)
          \/ CountHit(c, a)
          \/ CountMiss(c, a)
          \/ RecordOptimizeDuration(c, a)
  \/ \E c \in Callers : CountSaved(c) \/ SavedPanics(c)
                        \/ AggregateRequest(c) \/ AggregateHit(c)
  \/ \E c \in Callers, p \in Providers : Observed(p) /\ RecordProviderLatency(c, p)

MetricsSpec == MetricsInit /\ [][MetricsNext]_metricsVars

-----------------------------------------------------------------------------
(* Properties *)

Recording(a) == {c \in Callers : /\ call[c] # NoCall
                                 /\ call[c].agent = a
                                 /\ call[c].step \in {"saved", "aggregate"}}

CountingHit(a) == {c \in Callers : /\ call[c] # NoCall
                                   /\ call[c].agent = a
                                   /\ call[c].step = "hit"}

(* A request whose text grew never reaches the aggregates: the panic of    *)
(* the exported counter stands between them, so that tokens_saved in       *)
(* /gateway/stats only counts gains.                                       *)
AggregatesOnlyGains ==
  \A c \in Callers :
    call[c] # NoCall /\ call[c].step = "aggregate" =>
      call[c].tokens.optimized <= call[c].tokens.original

(* The two books agree on how many requests an agent made: the exported    *)
(* counter is ahead of the aggregates by exactly the RecordRequest calls   *)
(* that are between the two, and by those that panicked there.             *)
RequestsConserved ==
  \A a \in Agents :
    prom[a].requests = StatsOf(a).requests + Cardinality(Recording(a)) + panicked[a]

(* Once every call has returned, and if none panicked, an agent's exported *)
(* token counters and its aggregates are equal: no interleaving of         *)
(* RecordRequest and RecordCacheHit loses an update or applies it twice.   *)
BooksAgreeWhenQuiet ==
  \A a \in Agents :
    Recording(a) = {} /\ panicked[a] = 0 =>
      \A x \in {"requests", "original", "optimized", "saved"} :
        prom[a][x] = StatsOf(a)[x]

(* /gateway/stats never reports more cache hits for an agent than the      *)
(* counter exports; it may report fewer, for AggregateHit skips agents     *)
(* that have made no request of their own.                                 *)
HitsNotOvercounted ==
  \A a \in Agents :
    StatsOf(a).hits + Cardinality(CountingHit(a)) <= prom[a].hits

(* Whatever the optimizer does to a request, no exported counter ever      *)
(* decreases and no agent disappears from the aggregates: Prometheus rates *)
(* and the stats endpoint rely on both.                                    *)
CountersNeverFall ==
  [][\A a \in Agents :
       /\ \A x \in Counters : prom'[a][x] >= prom[a][x]
       /\ agentStats[a] # NoStats =>
            /\ agentStats'[a] # NoStats
            /\ \A x \in DOMAIN FreshStats :
                 agentStats'[a][x] >= agentStats[a][x]]_metricsVars

=============================================================================
