----------------------- MODULE MetricsCollectorProofs -----------------------
(***************************************************************************)
(* Proofs about the metrics collector, for every finite set of goroutines  *)
(* and every set of agents, providers and token counts.                    *)
(***************************************************************************)
EXTENDS MetricsCollector, FoldLemmas

LEMMA CardinalityGrows ==
  ASSUME NEW S, IsFiniteSet(S), NEW x, x \notin S
  PROVE  Cardinality(S \cup {x}) = Cardinality(S) + 1
BY FS_AddElement

LEMMA CardinalityShrinks ==
  ASSUME NEW S, IsFiniteSet(S), NEW x \in S
  PROVE  Cardinality(S \ {x}) + 1 = Cardinality(S)
<1>1. Cardinality(S \ {x}) = Cardinality(S) - 1 /\ Cardinality(S) \in Nat
  BY FS_RemoveElement, FS_CardinalityType
<1> QED
  BY <1>1

(* The sets of goroutines between two halves of a call are finite.         *)
LEMMA SetsAreFinite ==
  ASSUME NEW a
  PROVE  /\ IsFiniteSet(Recording(a)) /\ Cardinality(Recording(a)) \in Nat
         /\ IsFiniteSet(CountingHit(a)) /\ Cardinality(CountingHit(a)) \in Nat
BY MetricsCallersAssumption, FS_Subset, FS_CardinalityType DEF Recording, CountingHit

-----------------------------------------------------------------------------
LEMMA CallFields ==
  ASSUME MetricsTypeOK, NEW c \in Callers, call[c] # NoCall
  PROVE  /\ call[c] \in Call
         /\ call[c].agent \in Agents
         /\ call[c].tokens.original \in Nat
         /\ call[c].tokens.optimized \in Nat
BY DEF MetricsTypeOK, Call, Tokens

LEMMA StatsType ==
  ASSUME MetricsTypeOK, NEW a \in Agents
  PROVE  StatsOf(a) \in AgentStats
BY DEF MetricsTypeOK, StatsOf, FreshStats, AgentStats

LEMMA PromBumped ==
  ASSUME MetricsTypeOK, NEW a \in Agents, NEW x \in Counters, NEW v \in Nat,
         Bump(a, x, v)
  PROVE  prom' \in [Agents -> [Counters -> Nat]]
BY DEF MetricsTypeOK, Bump

LEMMA CountedType ==
  ASSUME NEW row \in [Counters -> Nat], NEW t,
         t.original \in Nat, t.optimized \in Nat
  PROVE  /\ Counted(row, t) \in [Counters -> Nat]
         /\ \A x \in Counters : Counted(row, t)[x] >= row[x]
         /\ Counted(row, t).requests = row.requests + 1
         /\ \A x \in {"saved", "hits", "misses", "durations"} :
              Counted(row, t)[x] = row[x]
<1> DEFINE one == [row EXCEPT !.requests = @ + 1]
           two == [one EXCEPT !.original = @ + t.original]
<1>1. /\ one \in [Counters -> Nat]
      /\ \A x \in Counters : one[x] >= row[x]
      /\ one["requests"] = row["requests"] + 1
      /\ \A x \in {"saved", "hits", "misses", "durations"} : one[x] = row[x]
  BY DEF Counters
<1> HIDE DEF one
<1>2. /\ two \in [Counters -> Nat]
      /\ \A x \in Counters : two[x] >= one[x]
      /\ two["requests"] = one["requests"]
      /\ \A x \in {"saved", "hits", "misses", "durations"} : two[x] = one[x]
  BY <1>1 DEF Counters
<1>3. Counted(row, t) = [two EXCEPT !.optimized = @ + t.optimized]
  BY DEF Counted, one, two
<1> HIDE DEF two
<1>4. /\ Counted(row, t) \in [Counters -> Nat]
      /\ \A x \in Counters : Counted(row, t)[x] >= two[x]
      /\ Counted(row, t)["requests"] = two["requests"]
      /\ \A x \in {"saved", "hits", "misses", "durations"} :
           Counted(row, t)[x] = two[x]
  BY <1>2, <1>3 DEF Counters
<1> QED
  BY <1>1, <1>2, <1>4 DEF Counters

(* Types alone are not inductive: what a goroutine is about to aggregate   *)
(* must not have grown.                                                    *)
TypeInv == MetricsTypeOK /\ AggregatesOnlyGains

LEMMA CountRequestType ==
  ASSUME TypeInv, NEW c \in Callers, NEW a \in Agents, NEW t \in TokenPairs,
         CountRequest(c, a, t)
  PROVE  TypeInv'
<1>1. t \in Tokens /\ t.original \in Nat /\ t.optimized \in Nat
  BY MetricsTokensAssumption DEF Tokens
<1>2. prom' \in [Agents -> [Counters -> Nat]]
  <2>1. prom[a] \in [Counters -> Nat]
    BY DEF TypeInv, MetricsTypeOK
  <2>2. Counted(prom[a], t) \in [Counters -> Nat]
    BY <1>1, <2>1, CountedType
  <2> QED
    BY <2>2 DEF TypeInv, MetricsTypeOK, CountRequest
<1>3. call' \in [Callers -> Call \cup {NoCall}]
  BY <1>1 DEF TypeInv, MetricsTypeOK, CountRequest, Call
<1>4. AggregatesOnlyGains'
  BY DEF TypeInv, MetricsTypeOK, AggregatesOnlyGains, CountRequest
<1> QED
  BY <1>2, <1>3, <1>4 DEF TypeInv, MetricsTypeOK, CountRequest

LEMMA CountSavedType ==
  ASSUME TypeInv, NEW c \in Callers, CountSaved(c)
  PROVE  TypeInv'
<1> USE DEF TypeInv
<1>1. /\ SavedBy(call[c].tokens) \in Nat
      /\ call[c].tokens.optimized <= call[c].tokens.original
  BY CallFields DEF CountSaved, SavedBy, Accepts
<1>2. prom' \in [Agents -> [Counters -> Nat]]
  BY <1>1, CallFields, PromBumped DEF CountSaved, Counters
<1>3. call' \in [Callers -> Call \cup {NoCall}]
  BY CallFields DEF MetricsTypeOK, CountSaved, Call
<1>4. AggregatesOnlyGains'
  BY <1>1, CallFields DEF MetricsTypeOK, AggregatesOnlyGains, CountSaved, Call
<1> QED
  BY <1>2, <1>3, <1>4 DEF MetricsTypeOK, CountSaved

LEMMA CallEnds ==
  ASSUME TypeInv, NEW c \in Callers, call' = [call EXCEPT ![c] = NoCall]
  PROVE  call' \in [Callers -> Call \cup {NoCall}] /\ AggregatesOnlyGains'
BY DEF TypeInv, MetricsTypeOK, AggregatesOnlyGains

LEMMA SavedPanicsType ==
  ASSUME TypeInv, NEW c \in Callers, SavedPanics(c)
  PROVE  TypeInv'
<1>1. call' \in [Callers -> Call \cup {NoCall}] /\ AggregatesOnlyGains'
  BY CallEnds DEF SavedPanics
<1>2. panicked' \in [Agents -> Nat]
  BY CallFields DEF TypeInv, MetricsTypeOK, SavedPanics
<1> QED
  BY <1>1, <1>2 DEF TypeInv, MetricsTypeOK, SavedPanics

LEMMA AddedType ==
  ASSUME NEW s \in AgentStats, NEW t \in Tokens, t.optimized <= t.original
  PROVE  Added(s, t) \in AgentStats
<1>1. SavedBy(t) \in Nat /\ t.original \in Nat /\ t.optimized \in Nat
  BY DEF Tokens, SavedBy
<1> QED
  BY <1>1 DEF AgentStats, Added

LEMMA AggregateRequestType ==
  ASSUME TypeInv, NEW c \in Callers, AggregateRequest(c)
  PROVE  TypeInv'
<1> DEFINE a == call[c].agent
<1>1. call' \in [Callers -> Call \cup {NoCall}] /\ AggregatesOnlyGains'
  BY CallEnds DEF AggregateRequest
<1>2. /\ call[c].tokens \in Tokens
      /\ call[c].tokens.optimized <= call[c].tokens.original
  BY DEF TypeInv, MetricsTypeOK, AggregatesOnlyGains, AggregateRequest, Call
<1>3. a \in Agents
  BY CallFields DEF TypeInv, AggregateRequest
<1>4. Added(StatsOf(a), call[c].tokens) \in AgentStats
  BY <1>2, <1>3, StatsType, AddedType DEF TypeInv
<1>5. agentStats' \in [Agents -> AgentStats \cup {NoStats}]
  BY <1>4 DEF TypeInv, MetricsTypeOK, AggregateRequest
<1> QED
  BY <1>1, <1>5 DEF TypeInv, MetricsTypeOK, AggregateRequest

LEMMA CountHitType ==
  ASSUME TypeInv, NEW c \in Callers, NEW a \in Agents, CountHit(c, a)
  PROVE  TypeInv'
<1>1. prom' \in [Agents -> [Counters -> Nat]]
  BY PromBumped DEF TypeInv, CountHit, Counters
<1>2. call' \in [Callers -> Call \cup {NoCall}] /\ AggregatesOnlyGains'
  BY DEF TypeInv, MetricsTypeOK, AggregatesOnlyGains, CountHit, Call, Tokens, NoTokens
<1> QED
  BY <1>1, <1>2 DEF TypeInv, MetricsTypeOK, CountHit

LEMMA AggregateHitType ==
  ASSUME TypeInv, NEW c \in Callers, AggregateHit(c)
  PROVE  TypeInv'
<1>1. call' \in [Callers -> Call \cup {NoCall}] /\ AggregatesOnlyGains'
  BY CallEnds DEF AggregateHit
<1>2. \A s \in AgentStats : AddedHit(s) \in AgentStats
  BY DEF AgentStats, AddedHit
<1>3. agentStats' \in [Agents -> AgentStats \cup {NoStats}]
  BY <1>2, CallFields DEF TypeInv, MetricsTypeOK, AggregateHit
<1> QED
  BY <1>1, <1>3 DEF TypeInv, MetricsTypeOK, AggregateHit

LEMMA OneCounterType ==
  ASSUME TypeInv, NEW c \in Callers, NEW a \in Agents,
         CountMiss(c, a) \/ RecordOptimizeDuration(c, a)
  PROVE  TypeInv'
<1>1. prom' \in [Agents -> [Counters -> Nat]]
  BY PromBumped DEF TypeInv, CountMiss, RecordOptimizeDuration, Counters
<1> QED
  BY <1>1 DEF TypeInv, MetricsTypeOK, AggregatesOnlyGains, CountMiss,
              RecordOptimizeDuration

LEMMA LatencyType ==
  ASSUME TypeInv, NEW c \in Callers, NEW p \in Providers, RecordProviderLatency(c, p)
  PROVE  TypeInv'
BY DEF TypeInv, MetricsTypeOK, AggregatesOnlyGains, RecordProviderLatency

(* The steps of MetricsNext without their bounds: what a component that     *)
(* calls the collector does to it.                                         *)
AnyRecord ==
  \/ \E c \in Callers, a \in Agents :
       \/ \E t \in TokenPairs : CountRequest(c, a, t)
       \/ CountHit(c, a) \/ CountMiss(c, a) \/ RecordOptimizeDuration(c, a)
  \/ \E c \in Callers : CountSaved(c) \/ SavedPanics(c)
                        \/ AggregateRequest(c) \/ AggregateHit(c)
  \/ \E c \in Callers, p \in Providers : RecordProviderLatency(c, p)

LEMMA NextRecords == [MetricsNext]_metricsVars => [AnyRecord]_metricsVars
BY DEF MetricsNext, AnyRecord

LEMMA TypeStep == TypeInv /\ [AnyRecord]_metricsVars => TypeInv'
<1> SUFFICES ASSUME TypeInv, [AnyRecord]_metricsVars
             PROVE  TypeInv'
  OBVIOUS
<1>1. ASSUME NEW c \in Callers, NEW a \in Agents, NEW t \in TokenPairs,
             CountRequest(c, a, t)
      PROVE  TypeInv'
  BY <1>1, CountRequestType
<1>2. ASSUME NEW c \in Callers, NEW a \in Agents, CountHit(c, a)
      PROVE  TypeInv'
  BY <1>2, CountHitType
<1>3. ASSUME NEW c \in Callers, NEW a \in Agents,
             CountMiss(c, a) \/ RecordOptimizeDuration(c, a)
      PROVE  TypeInv'
  BY <1>3, OneCounterType
<1>4. ASSUME NEW c \in Callers, CountSaved(c)
      PROVE  TypeInv'
  BY <1>4, CountSavedType
<1>5. ASSUME NEW c \in Callers, SavedPanics(c)
      PROVE  TypeInv'
  BY <1>5, SavedPanicsType
<1>6. ASSUME NEW c \in Callers, AggregateRequest(c)
      PROVE  TypeInv'
  BY <1>6, AggregateRequestType
<1>7. ASSUME NEW c \in Callers, AggregateHit(c)
      PROVE  TypeInv'
  BY <1>7, AggregateHitType
<1>8. ASSUME NEW c \in Callers, NEW p \in Providers, RecordProviderLatency(c, p)
      PROVE  TypeInv'
  BY <1>8, LatencyType
<1>9. CASE UNCHANGED metricsVars
  BY <1>9 DEF TypeInv, MetricsTypeOK, AggregatesOnlyGains, metricsVars
<1> QED
  BY <1>1, <1>2, <1>3, <1>4, <1>5, <1>6, <1>7, <1>8, <1>9 DEF AnyRecord

LEMMA TypeInit == MetricsInit => TypeInv
BY DEF MetricsInit, TypeInv, MetricsTypeOK, AggregatesOnlyGains, Counters

(* Type correctness of the collector, and that aggregates only see gains.  *)
THEOREM MetricsTypeCorrect == MetricsSpec => [](MetricsTypeOK /\ AggregatesOnlyGains)
<1>1. MetricsSpec => []TypeInv
  BY TypeInit, NextRecords, TypeStep, PTL DEF MetricsSpec
<1>2. TypeInv => MetricsTypeOK /\ AggregatesOnlyGains
  BY DEF TypeInv
<1> QED
  BY <1>1, <1>2, PTL

-----------------------------------------------------------------------------
(* The two books.                                                          *)

BooksInv == RequestsConserved /\ HitsNotOvercounted

Balanced(a) ==
  /\ prom[a].requests = StatsOf(a).requests + Cardinality(Recording(a)) + panicked[a]
  /\ StatsOf(a).hits + Cardinality(CountingHit(a)) <= prom[a].hits

LEMMA BooksAreBalances == BooksInv <=> \A a \in Agents : Balanced(a)
BY DEF BooksInv, RequestsConserved, HitsNotOvercounted, Balanced

LEMMA RequestSides ==
  ASSUME TypeInv, NEW a \in Agents
  PROVE  /\ prom[a].requests \in Nat /\ prom[a].hits \in Nat
         /\ StatsOf(a).requests \in Nat /\ StatsOf(a).hits \in Nat
         /\ panicked[a] \in Nat
         /\ Cardinality(Recording(a)) \in Nat
         /\ Cardinality(CountingHit(a)) \in Nat
<1>1. StatsOf(a) \in AgentStats
  BY StatsType DEF TypeInv
<1> QED
  BY <1>1, SetsAreFinite DEF TypeInv, MetricsTypeOK, AgentStats, Counters

LEMMA CountRequestBooks ==
  ASSUME TypeInv, BooksInv, NEW c \in Callers, NEW b \in Agents,
         NEW t \in TokenPairs, CountRequest(c, b, t)
  PROVE  BooksInv'
<1> SUFFICES ASSUME NEW a \in Agents, Balanced(a)
             PROVE  Balanced(a)'
  BY BooksAreBalances DEF BooksInv, RequestsConserved, HitsNotOvercounted, Balanced
<1>1. StatsOf(a)' = StatsOf(a) /\ panicked'[a] = panicked[a]
  BY DEF CountRequest, StatsOf
<1>2. CountingHit(a)' = CountingHit(a)
  BY DEF TypeInv, MetricsTypeOK, CountRequest, CountingHit
<1>3. Counted(prom[b], t).requests = prom[b].requests + 1
      /\ Counted(prom[b], t).hits = prom[b].hits
  <2>1. t.original \in Nat /\ t.optimized \in Nat
    BY MetricsTokensAssumption
  <2> QED
    BY <2>1, CountedType DEF TypeInv, MetricsTypeOK
<1>4. CASE a = b
  <2>1. c \notin Recording(a) /\ Recording(a)' = Recording(a) \cup {c}
    <3>1. [step |-> "saved", agent |-> b, tokens |-> t] \in Call
      BY MetricsTokensAssumption DEF Call, Tokens
    <3> QED
      BY <1>4, <3>1, MetricsSentinelAssumption
      DEF TypeInv, MetricsTypeOK, CountRequest, Recording
  <2>2. Cardinality(Recording(a)') = Cardinality(Recording(a)) + 1
    BY <2>1, SetsAreFinite, CardinalityGrows
  <2>3. prom'[a] = Counted(prom[b], t)
    BY <1>4 DEF TypeInv, MetricsTypeOK, CountRequest
  <2> QED
    BY <1>1, <1>2, <1>3, <1>4, <2>2, <2>3, RequestSides DEF Balanced
<1>5. CASE a # b
  <2>1. Recording(a)' = Recording(a)
    BY <1>5 DEF TypeInv, MetricsTypeOK, CountRequest, Recording
  <2>2. prom'[a] = prom[a]
    BY <1>5 DEF TypeInv, MetricsTypeOK, CountRequest
  <2> QED
    BY <1>1, <1>2, <2>1, <2>2 DEF Balanced
<1> QED
  BY <1>4, <1>5

(* A goroutine that goes from one counter to the next stays in its set.    *)
LEMMA CountSavedBooks ==
  ASSUME TypeInv, BooksInv, NEW c \in Callers, CountSaved(c)
  PROVE  BooksInv'
<1> SUFFICES ASSUME NEW a \in Agents, Balanced(a)
             PROVE  Balanced(a)'
  BY BooksAreBalances DEF BooksInv, RequestsConserved, HitsNotOvercounted, Balanced
<1>1. Recording(a)' = Recording(a) /\ CountingHit(a)' = CountingHit(a)
  <2>1. call[c] \in Call /\ [call[c] EXCEPT !.step = "aggregate"] \in Call
    BY CallFields DEF TypeInv, CountSaved, Call
  <2>2. call'[c] = [call[c] EXCEPT !.step = "aggregate"]
    BY DEF TypeInv, MetricsTypeOK, CountSaved
  <2>3. /\ call'[c] # NoCall
        /\ call'[c].agent = call[c].agent
        /\ call'[c].step = "aggregate"
    BY <2>1, <2>2, MetricsSentinelAssumption DEF Call
  <2>4. \A h \in Callers : h # c => call'[h] = call[h]
    BY DEF TypeInv, MetricsTypeOK, CountSaved
  <2> QED
    BY <2>3, <2>4 DEF CountSaved, Recording, CountingHit
<1>2. prom'[a].requests = prom[a].requests /\ prom'[a].hits = prom[a].hits
  BY DEF TypeInv, MetricsTypeOK, CountSaved, Bump, Counters
<1>3. StatsOf(a)' = StatsOf(a) /\ panicked'[a] = panicked[a]
  BY DEF CountSaved, StatsOf
<1> QED
  BY <1>1, <1>2, <1>3 DEF Balanced

(* A goroutine whose call ends leaves its set, and no other.               *)
LEMMA RecordingEnds ==
  ASSUME TypeInv, NEW c \in Callers, NEW a \in Agents, call[c] # NoCall,
         call[c].step \in {"saved", "aggregate"},
         call' = [call EXCEPT ![c] = NoCall]
  PROVE  /\ CountingHit(a)' = CountingHit(a)
         /\ call[c].agent = a =>
              Cardinality(Recording(a)') + 1 = Cardinality(Recording(a))
         /\ call[c].agent # a => Recording(a)' = Recording(a)
<1>1. call'[c] = NoCall /\ \A h \in Callers : h # c => call'[h] = call[h]
  BY DEF TypeInv, MetricsTypeOK
<1>2. CASE call[c].agent = a
  <2>1. c \in Recording(a) /\ Recording(a)' = Recording(a) \ {c}
    BY <1>1, <1>2 DEF Recording
  <2> QED
    BY <1>1, <1>2, <2>1, SetsAreFinite, CardinalityShrinks DEF CountingHit
<1>3. CASE call[c].agent # a
  BY <1>1, <1>3 DEF Recording, CountingHit
<1> QED
  BY <1>2, <1>3

LEMMA SavedPanicsBooks ==
  ASSUME TypeInv, BooksInv, NEW c \in Callers, SavedPanics(c)
  PROVE  BooksInv'
<1> SUFFICES ASSUME NEW a \in Agents, Balanced(a)
             PROVE  Balanced(a)'
  BY BooksAreBalances DEF BooksInv, RequestsConserved, HitsNotOvercounted, Balanced
<1>1. StatsOf(a)' = StatsOf(a) /\ prom'[a] = prom[a]
  BY DEF SavedPanics, StatsOf
<1>2. panicked'[a] = IF call[c].agent = a THEN panicked[a] + 1 ELSE panicked[a]
  BY CallFields DEF TypeInv, MetricsTypeOK, SavedPanics
<1>3. /\ CountingHit(a)' = CountingHit(a)
      /\ call[c].agent = a =>
           Cardinality(Recording(a)') + 1 = Cardinality(Recording(a))
      /\ call[c].agent # a => Recording(a)' = Recording(a)
  BY RecordingEnds DEF SavedPanics
<1>4. Cardinality(Recording(a)') \in Nat
  BY SetsAreFinite, FS_Subset, FS_CardinalityType, MetricsCallersAssumption
  DEF Recording
<1> QED
  BY <1>1, <1>2, <1>3, <1>4, RequestSides DEF Balanced

LEMMA AggregateRequestBooks ==
  ASSUME TypeInv, BooksInv, NEW c \in Callers, AggregateRequest(c)
  PROVE  BooksInv'
<1> SUFFICES ASSUME NEW a \in Agents, Balanced(a)
             PROVE  Balanced(a)'
  BY BooksAreBalances DEF BooksInv, RequestsConserved, HitsNotOvercounted, Balanced
<1>1. prom'[a] = prom[a] /\ panicked'[a] = panicked[a]
  BY DEF AggregateRequest
<1>2. /\ call[c].agent = a => StatsOf(a)' = Added(StatsOf(a), call[c].tokens)
      /\ call[c].agent # a => StatsOf(a)' = StatsOf(a)
  <2>1. TypeInv'
    BY AggregateRequestType
  <2>2. call[c].agent = a => agentStats'[a] = Added(StatsOf(a), call[c].tokens)
    BY DEF TypeInv, MetricsTypeOK, AggregateRequest
  <2>3. Added(StatsOf(a), call[c].tokens) # NoStats \/ call[c].agent # a
    <3>1. CASE call[c].agent = a
      <4>1. /\ call[c].tokens \in Tokens
            /\ call[c].tokens.optimized <= call[c].tokens.original
        BY DEF TypeInv, MetricsTypeOK, AggregatesOnlyGains, AggregateRequest, Call
      <4> QED
        BY <4>1, StatsType, AddedType, MetricsSentinelAssumption DEF TypeInv
    <3> QED
      BY <3>1
  <2>4. call[c].agent # a => agentStats'[a] = agentStats[a]
    BY DEF TypeInv, MetricsTypeOK, AggregateRequest
  <2> QED
    BY <2>2, <2>3, <2>4 DEF StatsOf
<1>3. /\ CountingHit(a)' = CountingHit(a)
      /\ call[c].agent = a =>
           Cardinality(Recording(a)') + 1 = Cardinality(Recording(a))
      /\ call[c].agent # a => Recording(a)' = Recording(a)
  BY RecordingEnds DEF AggregateRequest
<1>4. Cardinality(Recording(a)') \in Nat
  BY FS_Subset, FS_CardinalityType, MetricsCallersAssumption DEF Recording
<1>5. /\ Added(StatsOf(a), call[c].tokens).requests = StatsOf(a).requests + 1
      /\ Added(StatsOf(a), call[c].tokens).hits = StatsOf(a).hits
  BY DEF Added
<1>6. CASE call[c].agent = a
  <2>1. /\ (StatsOf(a)').requests = StatsOf(a).requests + 1
        /\ (StatsOf(a)').hits = StatsOf(a).hits
    BY <1>2, <1>5, <1>6
  <2> QED
    BY <1>1, <1>3, <1>4, <1>6, <2>1, RequestSides DEF Balanced
<1>7. CASE call[c].agent # a
  <2>1. StatsOf(a)' = StatsOf(a) /\ Recording(a)' = Recording(a)
    BY <1>2, <1>3, <1>7
  <2> QED
    BY <1>1, <1>3, <2>1 DEF Balanced
<1> QED
  BY <1>6, <1>7

LEMMA CountHitBooks ==
  ASSUME TypeInv, BooksInv, NEW c \in Callers, NEW b \in Agents, CountHit(c, b)
  PROVE  BooksInv'
<1> SUFFICES ASSUME NEW a \in Agents, Balanced(a)
             PROVE  Balanced(a)'
  BY BooksAreBalances DEF BooksInv, RequestsConserved, HitsNotOvercounted, Balanced
<1>1. StatsOf(a)' = StatsOf(a) /\ panicked'[a] = panicked[a]
  BY DEF CountHit, StatsOf
<1>2. Recording(a)' = Recording(a)
  BY DEF TypeInv, MetricsTypeOK, CountHit, Recording
<1>3. prom'[a].requests = prom[a].requests
  BY DEF TypeInv, MetricsTypeOK, CountHit, Bump, Counters
<1>4. CASE a = b
  <2>1. c \notin CountingHit(a) /\ CountingHit(a)' = CountingHit(a) \cup {c}
    <3>1. [step |-> "hit", agent |-> b, tokens |-> NoTokens] \in Call
      BY DEF Call, Tokens, NoTokens
    <3> QED
      BY <1>4, <3>1, MetricsSentinelAssumption
      DEF TypeInv, MetricsTypeOK, CountHit, CountingHit
  <2>2. Cardinality(CountingHit(a)') = Cardinality(CountingHit(a)) + 1
    BY <2>1, SetsAreFinite, CardinalityGrows
  <2>3. prom'[a].hits = prom[a].hits + 1
    BY <1>4 DEF TypeInv, MetricsTypeOK, CountHit, Bump, Counters
  <2> QED
    BY <1>1, <1>2, <1>3, <2>2, <2>3, RequestSides DEF Balanced
<1>5. CASE a # b
  <2>1. CountingHit(a)' = CountingHit(a)
    BY <1>5 DEF TypeInv, MetricsTypeOK, CountHit, CountingHit
  <2>2. prom'[a] = prom[a]
    BY <1>5 DEF TypeInv, MetricsTypeOK, CountHit, Bump
  <2> QED
    BY <1>1, <1>2, <2>1, <2>2 DEF Balanced
<1> QED
  BY <1>4, <1>5

LEMMA AggregateHitBooks ==
  ASSUME TypeInv, BooksInv, NEW c \in Callers, AggregateHit(c)
  PROVE  BooksInv'
<1> SUFFICES ASSUME NEW a \in Agents, Balanced(a)
             PROVE  Balanced(a)'
  BY BooksAreBalances DEF BooksInv, RequestsConserved, HitsNotOvercounted, Balanced
<1>1. prom'[a] = prom[a] /\ panicked'[a] = panicked[a]
  BY DEF AggregateHit
<1>2. call'[c] = NoCall /\ \A h \in Callers : h # c => call'[h] = call[h]
  BY DEF TypeInv, MetricsTypeOK, AggregateHit
<1>3. Recording(a)' = Recording(a)
  BY <1>2 DEF AggregateHit, Recording
<1>4. CASE call[c].agent = a
  <2>1. c \in CountingHit(a) /\ CountingHit(a)' = CountingHit(a) \ {c}
    BY <1>2, <1>4 DEF AggregateHit, CountingHit
  <2>2. Cardinality(CountingHit(a)') + 1 = Cardinality(CountingHit(a))
    BY <2>1, SetsAreFinite, CardinalityShrinks
  <2>3. /\ StatsOf(a)' .requests = StatsOf(a).requests
        /\ StatsOf(a)' .hits <= StatsOf(a).hits + 1
    <3>1. CASE agentStats[a] = NoStats
      BY <1>4, <3>1, RequestSides DEF AggregateHit, StatsOf
    <3>2. CASE agentStats[a] # NoStats
      <4>1. agentStats[a] \in AgentStats
        BY <3>2 DEF TypeInv, MetricsTypeOK
      <4>2. agentStats'[a] = AddedHit(agentStats[a])
        BY <1>4, <3>2 DEF TypeInv, MetricsTypeOK, AggregateHit
      <4>3. /\ AddedHit(agentStats[a]) \in AgentStats
            /\ AddedHit(agentStats[a]).requests = agentStats[a].requests
            /\ AddedHit(agentStats[a]).hits = agentStats[a].hits + 1
        BY <4>1 DEF AgentStats, AddedHit
      <4> QED
        BY <3>2, <4>1, <4>2, <4>3, MetricsSentinelAssumption, RequestSides
        DEF StatsOf
    <3> QED
      BY <3>1, <3>2
  <2>4. Cardinality(CountingHit(a)') \in Nat /\ StatsOf(a)' .hits \in Nat
    <3>1. MetricsTypeOK'
      BY AggregateHitType DEF TypeInv
    <3>2. StatsOf(a)' \in AgentStats
      BY <3>1 DEF MetricsTypeOK, StatsOf, FreshStats, AgentStats
    <3> QED
      BY <3>2, FS_Subset, FS_CardinalityType, MetricsCallersAssumption
      DEF CountingHit, AgentStats
  <2> QED
    BY <1>1, <1>3, <2>2, <2>3, <2>4, RequestSides DEF Balanced
<1>5. CASE call[c].agent # a
  <2>1. CountingHit(a)' = CountingHit(a)
    BY <1>2, <1>5 DEF AggregateHit, CountingHit
  <2>2. StatsOf(a)' = StatsOf(a)
    BY <1>5 DEF TypeInv, MetricsTypeOK, AggregateHit, StatsOf
  <2> QED
    BY <1>1, <1>3, <2>1, <2>2 DEF Balanced
<1> QED
  BY <1>4, <1>5

(* Steps that touch neither the two counters nor any call.                 *)
LEMMA OtherBooks ==
  ASSUME TypeInv, BooksInv, UNCHANGED <<agentStats, call, panicked>>,
         \A a \in Agents : /\ prom'[a].requests = prom[a].requests
                           /\ prom'[a].hits = prom[a].hits
  PROVE  BooksInv'
BY DEF BooksInv, RequestsConserved, HitsNotOvercounted, StatsOf, Recording, CountingHit

LEMMA BooksStep == TypeInv /\ BooksInv /\ [AnyRecord]_metricsVars => BooksInv'
<1> SUFFICES ASSUME TypeInv, BooksInv, [AnyRecord]_metricsVars
             PROVE  BooksInv'
  OBVIOUS
<1>1. ASSUME NEW c \in Callers, NEW a \in Agents, NEW t \in TokenPairs,
             CountRequest(c, a, t)
      PROVE  BooksInv'
  BY <1>1, CountRequestBooks
<1>2. ASSUME NEW c \in Callers, NEW a \in Agents, CountHit(c, a)
      PROVE  BooksInv'
  BY <1>2, CountHitBooks
<1>3. ASSUME NEW c \in Callers, NEW a \in Agents,
             CountMiss(c, a) \/ RecordOptimizeDuration(c, a)
      PROVE  BooksInv'
  <2>1. prom \in [Agents -> [Counters -> Nat]]
    BY DEF TypeInv, MetricsTypeOK
  <2>2. Bump(a, "misses", 1) \/ Bump(a, "durations", 1)
    BY <1>3 DEF CountMiss, RecordOptimizeDuration
  <2>3. ASSUME NEW b \in Agents
        PROVE  /\ prom'[b].requests = prom[b].requests
               /\ prom'[b].hits = prom[b].hits
    <3>1. prom[b] \in [Counters -> Nat]
      BY <2>1
    <3>2. CASE b = a
      BY <2>1, <2>2, <3>1, <3>2 DEF Bump, Counters
    <3>3. CASE b # a
      BY <2>1, <2>2, <3>3 DEF Bump
    <3> QED
      BY <3>2, <3>3
  <2> QED
    BY <1>3, <2>3, OtherBooks DEF CountMiss, RecordOptimizeDuration
<1>4. ASSUME NEW c \in Callers, CountSaved(c)
      PROVE  BooksInv'
  BY <1>4, CountSavedBooks
<1>5. ASSUME NEW c \in Callers, SavedPanics(c)
      PROVE  BooksInv'
  BY <1>5, SavedPanicsBooks
<1>6. ASSUME NEW c \in Callers, AggregateRequest(c)
      PROVE  BooksInv'
  BY <1>6, AggregateRequestBooks
<1>7. ASSUME NEW c \in Callers, AggregateHit(c)
      PROVE  BooksInv'
  BY <1>7, AggregateHitBooks
<1>8. ASSUME NEW c \in Callers, NEW p \in Providers, RecordProviderLatency(c, p)
      PROVE  BooksInv'
  BY <1>8, OtherBooks DEF RecordProviderLatency
<1>9. CASE UNCHANGED metricsVars
  BY <1>9, OtherBooks DEF metricsVars
<1> QED
  BY <1>1, <1>2, <1>3, <1>4, <1>5, <1>6, <1>7, <1>8, <1>9 DEF AnyRecord

LEMMA BooksInit == MetricsInit => BooksInv
<1> SUFFICES ASSUME MetricsInit, NEW a \in Agents
             PROVE  Balanced(a)
  BY BooksAreBalances
<1>1. Recording(a) = {} /\ CountingHit(a) = {}
  BY DEF MetricsInit, Recording, CountingHit
<1> QED
  BY <1>1, FS_EmptySet DEF MetricsInit, Balanced, StatsOf, FreshStats, Counters

LEMMA BooksInvariant == MetricsSpec => [](TypeInv /\ BooksInv)
BY TypeInit, BooksInit, NextRecords, TypeStep, BooksStep, PTL DEF MetricsSpec

(* The exported request counter of an agent is ahead of its aggregates by  *)
(* exactly the calls between the two books and those that panicked there.  *)
THEOREM RequestsAreConserved == MetricsSpec => []RequestsConserved
<1>1. BooksInv => RequestsConserved
  BY DEF BooksInv
<1> QED
  BY <1>1, BooksInvariant, PTL

(* The stats endpoint never reports more hits than the counter exports.    *)
THEOREM HitsAreNotOvercounted == MetricsSpec => []HitsNotOvercounted
<1>1. BooksInv => HitsNotOvercounted
  BY DEF BooksInv
<1> QED
  BY <1>1, BooksInvariant, PTL

-----------------------------------------------------------------------------
(* Nothing that is exported or reported ever decreases.                    *)

PromRises == \A a \in Agents : \A x \in Counters : prom'[a][x] >= prom[a][x]

StatsGrow(s, u) == \A x \in DOMAIN FreshStats : u[x] >= s[x]

StatsRise ==
  \A a \in Agents :
    agentStats[a] # NoStats =>
      agentStats'[a] # NoStats /\ StatsGrow(agentStats[a], agentStats'[a])

LEMMA BumpRises ==
  ASSUME MetricsTypeOK, NEW a \in Agents, NEW x \in Counters, NEW v \in Nat,
         Bump(a, x, v)
  PROVE  PromRises
BY DEF MetricsTypeOK, Bump, PromRises

LEMMA SamePromRises == ASSUME MetricsTypeOK, prom' = prom
                       PROVE  PromRises
BY DEF MetricsTypeOK, PromRises

LEMMA StatsGrowFieldwise ==
  ASSUME NEW s \in AgentStats, NEW u \in AgentStats,
         u.requests >= s.requests, u.original >= s.original,
         u.optimized >= s.optimized, u.saved >= s.saved, u.hits >= s.hits
  PROVE  StatsGrow(s, u)
BY DEF AgentStats, FreshStats, StatsGrow

LEMMA SameStatsRise == ASSUME MetricsTypeOK, agentStats' = agentStats
                       PROVE  StatsRise
<1> SUFFICES ASSUME NEW a \in Agents, agentStats[a] # NoStats
             PROVE  StatsGrow(agentStats[a], agentStats[a])
  BY DEF StatsRise
<1>1. agentStats[a] \in AgentStats
  BY DEF MetricsTypeOK
<1> QED
  BY <1>1, StatsGrowFieldwise DEF AgentStats

LEMMA CountRequestRises ==
  ASSUME TypeInv, NEW c \in Callers, NEW a \in Agents, NEW t \in TokenPairs,
         CountRequest(c, a, t)
  PROVE  PromRises
<1>1. t.original \in Nat /\ t.optimized \in Nat
  BY MetricsTokensAssumption
<1>2. \A x \in Counters : Counted(prom[a], t)[x] >= prom[a][x]
  BY <1>1, CountedType DEF TypeInv, MetricsTypeOK
<1> QED
  BY <1>2 DEF TypeInv, MetricsTypeOK, PromRises, CountRequest

LEMMA AggregateRequestRises ==
  ASSUME TypeInv, NEW c \in Callers, AggregateRequest(c)
  PROVE  StatsRise
<1> DEFINE a == call[c].agent
           t == call[c].tokens
<1>1. a \in Agents /\ t \in Tokens /\ t.optimized <= t.original
  BY CallFields DEF TypeInv, MetricsTypeOK, AggregatesOnlyGains, AggregateRequest, Call
<1>2. ASSUME NEW s \in AgentStats
      PROVE  Added(s, t) \in AgentStats /\ StatsGrow(s, Added(s, t))
  <2>1. Added(s, t) \in AgentStats
    BY <1>1, AddedType
  <2>2. /\ Added(s, t).requests >= s.requests
        /\ Added(s, t).original >= s.original
        /\ Added(s, t).optimized >= s.optimized
        /\ Added(s, t).saved >= s.saved
        /\ Added(s, t).hits >= s.hits
    BY <1>1 DEF AgentStats, Tokens, Added, SavedBy
  <2> QED
    BY <2>1, <2>2, StatsGrowFieldwise
<1>3. ASSUME NEW b \in Agents, agentStats[b] # NoStats
      PROVE  agentStats'[b] # NoStats /\ StatsGrow(agentStats[b], agentStats'[b])
  <2>1. agentStats[b] \in AgentStats
    BY <1>3 DEF TypeInv, MetricsTypeOK
  <2>2. CASE b = a
    <3>1. agentStats'[b] = Added(agentStats[b], t)
      BY <1>3, <2>2 DEF TypeInv, MetricsTypeOK, AggregateRequest, StatsOf
    <3> QED
      BY <1>2, <2>1, <3>1, MetricsSentinelAssumption
  <2>3. CASE b # a
    <3>1. agentStats'[b] = agentStats[b]
      BY <2>3 DEF TypeInv, MetricsTypeOK, AggregateRequest
    <3> QED
      BY <1>3, <2>1, <3>1, StatsGrowFieldwise DEF AgentStats
  <2> QED
    BY <2>2, <2>3
<1> QED
  BY <1>3 DEF StatsRise

LEMMA AggregateHitRises ==
  ASSUME TypeInv, NEW c \in Callers, AggregateHit(c)
  PROVE  StatsRise
<1> SUFFICES ASSUME NEW b \in Agents, agentStats[b] # NoStats
             PROVE  agentStats'[b] # NoStats /\ StatsGrow(agentStats[b], agentStats'[b])
  BY DEF StatsRise
<1>1. agentStats[b] \in AgentStats
  BY DEF TypeInv, MetricsTypeOK
<1>2. agentStats'[b] = agentStats[b] \/ agentStats'[b] = AddedHit(agentStats[b])
  BY DEF TypeInv, MetricsTypeOK, AggregateHit
<1>3. CASE agentStats'[b] = agentStats[b]
  BY <1>1, <1>3, StatsGrowFieldwise DEF AgentStats
<1>4. CASE agentStats'[b] = AddedHit(agentStats[b])
  <2>1. AddedHit(agentStats[b]) \in AgentStats
    BY <1>1 DEF AgentStats, AddedHit
  <2>2. StatsGrow(agentStats[b], AddedHit(agentStats[b]))
    BY <1>1, <2>1, StatsGrowFieldwise DEF AgentStats, AddedHit
  <2> QED
    BY <1>4, <2>1, <2>2, MetricsSentinelAssumption
<1> QED
  BY <1>2, <1>3, <1>4

LEMMA NothingFalls == TypeInv /\ [AnyRecord]_metricsVars => PromRises /\ StatsRise
<1> SUFFICES ASSUME TypeInv, [AnyRecord]_metricsVars
             PROVE  PromRises /\ StatsRise
  OBVIOUS
<1> USE DEF TypeInv
<1>1. ASSUME NEW c \in Callers, NEW a \in Agents, NEW t \in TokenPairs,
             CountRequest(c, a, t)
      PROVE  PromRises /\ StatsRise
  BY <1>1, CountRequestRises, SameStatsRise DEF CountRequest
<1>2. ASSUME NEW c \in Callers, NEW a \in Agents,
             CountHit(c, a) \/ CountMiss(c, a) \/ RecordOptimizeDuration(c, a)
      PROVE  PromRises /\ StatsRise
  BY <1>2, BumpRises, SameStatsRise
  DEF CountHit, CountMiss, RecordOptimizeDuration, Counters
<1>3. ASSUME NEW c \in Callers, CountSaved(c)
      PROVE  PromRises /\ StatsRise
  <2>1. call[c].agent \in Agents /\ SavedBy(call[c].tokens) \in Nat
    BY <1>3, CallFields DEF CountSaved, Accepts, SavedBy
  <2> QED
    BY <1>3, <2>1, BumpRises, SameStatsRise DEF CountSaved, Counters
<1>4. ASSUME NEW c \in Callers, SavedPanics(c)
      PROVE  PromRises /\ StatsRise
  BY <1>4, SamePromRises, SameStatsRise DEF SavedPanics
<1>5. ASSUME NEW c \in Callers, AggregateRequest(c)
      PROVE  PromRises /\ StatsRise
  BY <1>5, SamePromRises, AggregateRequestRises DEF AggregateRequest
<1>6. ASSUME NEW c \in Callers, AggregateHit(c)
      PROVE  PromRises /\ StatsRise
  BY <1>6, SamePromRises, AggregateHitRises DEF AggregateHit
<1>7. ASSUME NEW c \in Callers, NEW p \in Providers, RecordProviderLatency(c, p)
      PROVE  PromRises /\ StatsRise
  BY <1>7, SamePromRises, SameStatsRise DEF RecordProviderLatency
<1>8. CASE UNCHANGED metricsVars
  BY <1>8, SamePromRises, SameStatsRise DEF metricsVars
<1> QED
  BY <1>1, <1>2, <1>3, <1>4, <1>5, <1>6, <1>7, <1>8 DEF AnyRecord

(* No exported counter and no aggregate ever decreases, and no agent       *)
(* disappears from the aggregates.                                         *)
THEOREM MetricsCountersNeverFall == MetricsSpec => CountersNeverFall
<1>1. TypeInv /\ [MetricsNext]_metricsVars =>
        [\A a \in Agents :
           /\ \A x \in Counters : prom'[a][x] >= prom[a][x]
           /\ agentStats[a] # NoStats =>
                /\ agentStats'[a] # NoStats
                /\ \A x \in DOMAIN FreshStats :
                     agentStats'[a][x] >= agentStats[a][x]]_metricsVars
  BY NextRecords, NothingFalls DEF PromRises, StatsRise, StatsGrow
<1>2. MetricsSpec => []TypeInv
  BY TypeInit, NextRecords, TypeStep, PTL DEF MetricsSpec
<1> QED
  BY <1>1, <1>2, PTL DEF MetricsSpec, CountersNeverFall

-----------------------------------------------------------------------------
(* The token counters.  While calls are under way the exported ones are    *)
(* ahead of the aggregates by what those calls have still to add, summed   *)
(* over the goroutines that make them; once they have returned, by nothing. *)
TokenCounters == {"original", "optimized", "saved"}

(* What the call k of a goroutine has added to counter x of agent a and    *)
(* not yet to its aggregate.                                               *)
Due(k, a, x) ==
  IF k = NoCall \/ k.agent # a \/ k.step = "hit" \/ (k.step = "saved" /\ x = "saved")
  THEN 0
  ELSE IF x = "saved" THEN SavedBy(k.tokens) ELSE k.tokens[x]

Owed(calls, a, x) == [c \in Callers |-> Due(calls[c], a, x)]

TokensAgree(row, stats, calls, a) ==
  \A x \in TokenCounters : row[x] = stats[x] + Total(Owed(calls, a, x), Callers)

(* BooksAgreeWhenQuiet while it is not quiet.                              *)
TokensConserved ==
  \A a \in Agents : panicked[a] = 0 => TokensAgree(prom[a], StatsOf(a), call, a)

LEMMA DueOfCall ==
  ASSUME NEW k \in Call, NEW a, NEW x \in TokenCounters
  PROVE  /\ Due(k, a, x) \in Int
         /\ k.agent # a \/ k.step = "hit" => Due(k, a, x) = 0
         /\ k.agent = a /\ k.step # "hit" /\ x # "saved" => Due(k, a, x) = k.tokens[x]
         /\ k.agent = a /\ k.step = "saved" => Due(k, a, "saved") = 0
         /\ k.agent = a /\ k.step = "aggregate" => Due(k, a, "saved") = SavedBy(k.tokens)
<1>1. k # NoCall
  BY MetricsSentinelAssumption
<1>2. /\ k.tokens.original \in Nat /\ k.tokens.optimized \in Nat
      /\ k.step \in {"saved", "aggregate", "hit"}
  BY DEF Call, Tokens
<1>3. SavedBy(k.tokens) \in Int
  BY <1>2 DEF SavedBy
<1> QED
  BY <1>1, <1>2, <1>3 DEF Due, TokenCounters

LEMMA DueOfNoCall ==
  ASSUME NEW a, NEW x
  PROVE  Due(NoCall, a, x) = 0
BY DEF Due

LEMMA OwedType ==
  ASSUME NEW calls \in [Callers -> Call \cup {NoCall}], NEW a, NEW x \in TokenCounters
  PROVE  /\ Owed(calls, a, x) \in [Callers -> Int]
         /\ Total(Owed(calls, a, x), Callers) \in Int
<1>1. \A c \in Callers : Due(calls[c], a, x) \in Int
  BY DueOfCall, DueOfNoCall
<1>2. Owed(calls, a, x) \in [Callers -> Int]
  BY <1>1 DEF Owed
<1> QED
  BY <1>2, MetricsCallersAssumption, TotalType

(* A step of one goroutine changes one summand.                            *)
LEMMA OwedMoves ==
  ASSUME NEW before \in [Callers -> Call \cup {NoCall}],
         NEW after \in [Callers -> Call \cup {NoCall}],
         NEW c \in Callers, NEW a, NEW x \in TokenCounters,
         \A h \in Callers \ {c} : after[h] = before[h]
  PROVE  Total(Owed(after, a, x), Callers) =
           Total(Owed(before, a, x), Callers)
             + (Due(after[c], a, x) - Due(before[c], a, x))
<1> DEFINE f == Owed(before, a, x)
           g == Owed(after, a, x)
<1>1. \A h \in Callers : f[h] = Due(before[h], a, x) /\ g[h] = Due(after[h], a, x)
  BY DEF Owed
<1>2. f \in [Callers -> Int] /\ g \in [Callers -> Int]
  BY OwedType
<1> HIDE DEF f, g
<1>3. \A h \in Callers \ {c} : g[h] = f[h]
  BY <1>1
<1>4. Total(g, Callers) = Total(f, Callers) + (g[c] - f[c])
  BY <1>2, <1>3, MetricsCallersAssumption, TotalMoves
<1> QED
  BY <1>1, <1>4 DEF f, g

LEMMA TokenSides ==
  ASSUME TypeInv, NEW a \in Agents, NEW x \in TokenCounters
  PROVE  prom[a][x] \in Nat /\ StatsOf(a)[x] \in Nat
<1>1. StatsOf(a) \in AgentStats
  BY StatsType DEF TypeInv
<1> QED
  BY <1>1 DEF TypeInv, MetricsTypeOK, AgentStats, Counters, TokenCounters

LEMMA CountedTokens ==
  ASSUME NEW row \in [Counters -> Nat], NEW t \in Tokens
  PROVE  /\ Counted(row, t)["original"] = row["original"] + t["original"]
         /\ Counted(row, t)["optimized"] = row["optimized"] + t["optimized"]
         /\ Counted(row, t)["saved"] = row["saved"]
BY DEF Counted, Counters, Tokens

LEMMA CountRequestTokens ==
  ASSUME TypeInv, TokensConserved, NEW c \in Callers, NEW b \in Agents,
         NEW t \in TokenPairs, CountRequest(c, b, t)
  PROVE  TokensConserved'
<1> SUFFICES ASSUME NEW a \in Agents, panicked'[a] = 0, NEW x \in TokenCounters
             PROVE  prom'[a][x] = StatsOf(a)'[x] + Total(Owed(call', a, x), Callers)
  BY DEF TokensConserved, TokensAgree
<1> DEFINE k == [step |-> "saved", agent |-> b, tokens |-> t]
<1>1. prom[a][x] = StatsOf(a)[x] + Total(Owed(call, a, x), Callers)
  BY DEF TokensConserved, TokensAgree, CountRequest
<1>2. StatsOf(a)' = StatsOf(a)
  BY DEF CountRequest, StatsOf
<1>3. t \in Tokens /\ k \in Call
  BY MetricsTokensAssumption DEF Tokens, Call
<1>4. call' = [call EXCEPT ![c] = k] /\ call[c] = NoCall
  BY DEF CountRequest
<1>5. k.agent = b /\ k.step = "saved" /\ k.tokens = t
  OBVIOUS
<1> HIDE DEF k
<1>6. /\ Total(Owed(call, a, x), Callers) \in Int
      /\ Total(Owed(call', a, x), Callers) =
           Total(Owed(call, a, x), Callers) + (Due(k, a, x) - Due(call[c], a, x))
  <2>1. call \in [Callers -> Call \cup {NoCall}]
    BY DEF TypeInv, MetricsTypeOK
  <2>2. /\ call' \in [Callers -> Call \cup {NoCall}] /\ call'[c] = k
        /\ \A h \in Callers \ {c} : call'[h] = call[h]
    BY <2>1, <1>3, <1>4
  <2> QED
    BY <2>1, <2>2, OwedType, OwedMoves
<1>7. prom'[a][x] = prom[a][x] + Due(k, a, x)
  <2>1. CASE a = b
    <3>1. prom'[a] = Counted(prom[a], t) /\ prom[a] \in [Counters -> Nat]
      BY <2>1 DEF TypeInv, MetricsTypeOK, CountRequest
    <3>2. x = "saved" => Due(k, a, x) = 0
      BY <2>1, <1>3, <1>5, DueOfCall
    <3>3. x # "saved" => Due(k, a, x) = t[x]
      BY <2>1, <1>3, <1>5, DueOfCall
    <3> QED
      BY <1>3, <3>1, <3>2, <3>3, CountedTokens, TokenSides DEF TokenCounters
  <2>2. CASE a # b
    <3>1. prom'[a] = prom[a] /\ Due(k, a, x) = 0
      BY <2>2, <1>3, <1>5, DueOfCall DEF TypeInv, MetricsTypeOK, CountRequest
    <3> QED
      BY <3>1, TokenSides
  <2> QED
    BY <2>1, <2>2
<1>8. /\ Due(k, a, x) \in Int /\ Due(call[c], a, x) = 0
      /\ prom[a][x] \in Nat /\ StatsOf(a)[x] \in Nat
  BY <1>3, <1>4, DueOfCall, DueOfNoCall, TokenSides
<1> QED
  BY <1>1, <1>2, <1>6, <1>7, <1>8

LEMMA CountSavedTokens ==
  ASSUME TypeInv, TokensConserved, NEW c \in Callers, CountSaved(c)
  PROVE  TokensConserved'
<1> SUFFICES ASSUME NEW a \in Agents, panicked'[a] = 0, NEW x \in TokenCounters
             PROVE  prom'[a][x] = StatsOf(a)'[x] + Total(Owed(call', a, x), Callers)
  BY DEF TokensConserved, TokensAgree
<1> DEFINE k == [call[c] EXCEPT !.step = "aggregate"]
           b == call[c].agent
<1>1. prom[a][x] = StatsOf(a)[x] + Total(Owed(call, a, x), Callers)
  BY DEF TokensConserved, TokensAgree, CountSaved
<1>2. StatsOf(a)' = StatsOf(a)
  BY DEF CountSaved, StatsOf
<1>3. call[c] \in Call /\ k \in Call /\ call[c].step = "saved" /\ b \in Agents
      /\ k.agent = b /\ k.step = "aggregate" /\ k.tokens = call[c].tokens
  BY CallFields DEF TypeInv, CountSaved, Call
<1>4. call' = [call EXCEPT ![c] = k]
  BY DEF CountSaved
<1> HIDE DEF k
<1>6. /\ Total(Owed(call, a, x), Callers) \in Int
      /\ Total(Owed(call', a, x), Callers) =
           Total(Owed(call, a, x), Callers) + (Due(k, a, x) - Due(call[c], a, x))
  <2>1. call \in [Callers -> Call \cup {NoCall}]
    BY DEF TypeInv, MetricsTypeOK
  <2>2. /\ call' \in [Callers -> Call \cup {NoCall}] /\ call'[c] = k
        /\ \A h \in Callers \ {c} : call'[h] = call[h]
    BY <2>1, <1>3, <1>4
  <2> QED
    BY <2>1, <2>2, OwedType, OwedMoves
<1>7. prom'[a][x] = prom[a][x] + (Due(k, a, x) - Due(call[c], a, x))
  <2>1. CASE a = b /\ x = "saved"
    <3>1. prom'[a][x] = prom[a][x] + SavedBy(call[c].tokens)
      BY <2>1 DEF TypeInv, MetricsTypeOK, CountSaved, Bump, Counters
    <3>2. Due(k, a, x) = SavedBy(call[c].tokens) /\ Due(call[c], a, x) = 0
      BY <2>1, <1>3, DueOfCall
    <3>3. SavedBy(call[c].tokens) \in Int
      BY <3>2, <1>3, DueOfCall
    <3> QED
      BY <3>1, <3>2, <3>3, TokenSides
  <2>2. CASE a # b \/ x # "saved"
    <3>1. prom'[a][x] = prom[a][x]
      BY <1>3, <2>2 DEF TypeInv, MetricsTypeOK, CountSaved, Bump, Counters, TokenCounters
    <3>2. Due(k, a, x) = Due(call[c], a, x) /\ Due(k, a, x) \in Int
      BY <2>2, <1>3, DueOfCall
    <3> QED
      BY <3>1, <3>2, TokenSides
  <2> QED
    BY <2>1, <2>2
<1>8. Due(k, a, x) \in Int /\ Due(call[c], a, x) \in Int
      /\ prom[a][x] \in Nat /\ StatsOf(a)[x] \in Nat
  BY <1>3, DueOfCall, TokenSides
<1> QED
  BY <1>1, <1>2, <1>6, <1>7, <1>8

LEMMA SavedPanicsTokens ==
  ASSUME TypeInv, TokensConserved, NEW c \in Callers, SavedPanics(c)
  PROVE  TokensConserved'
<1> SUFFICES ASSUME NEW a \in Agents, panicked'[a] = 0, NEW x \in TokenCounters
             PROVE  prom'[a][x] = StatsOf(a)'[x] + Total(Owed(call', a, x), Callers)
  BY DEF TokensConserved, TokensAgree
<1>1. call[c] \in Call /\ call[c].agent \in Agents
  BY CallFields DEF TypeInv, SavedPanics
<1>2. panicked[a] \in Nat /\ panicked[call[c].agent] \in Nat
  BY <1>1 DEF TypeInv, MetricsTypeOK
<1>3. call[c].agent # a /\ panicked[a] = 0
  BY <1>1, <1>2 DEF TypeInv, MetricsTypeOK, SavedPanics
<1>4. prom[a][x] = StatsOf(a)[x] + Total(Owed(call, a, x), Callers)
  BY <1>3 DEF TokensConserved, TokensAgree
<1>5. call' = [call EXCEPT ![c] = NoCall]
  BY DEF SavedPanics
<1>6. /\ Total(Owed(call, a, x), Callers) \in Int
      /\ Total(Owed(call', a, x), Callers) =
           Total(Owed(call, a, x), Callers) + (Due(NoCall, a, x) - Due(call[c], a, x))
  <2>1. call \in [Callers -> Call \cup {NoCall}]
    BY DEF TypeInv, MetricsTypeOK
  <2>2. /\ call' \in [Callers -> Call \cup {NoCall}] /\ call'[c] = NoCall
        /\ \A h \in Callers \ {c} : call'[h] = call[h]
    BY <2>1, <1>5
  <2> QED
    BY <2>1, <2>2, OwedType, OwedMoves
<1>7. Due(NoCall, a, x) = 0 /\ Due(call[c], a, x) = 0
  BY <1>1, <1>3, DueOfCall, DueOfNoCall
<1>8. StatsOf(a)' = StatsOf(a) /\ prom'[a] = prom[a]
  BY DEF SavedPanics, StatsOf
<1> QED
  BY <1>4, <1>6, <1>7, <1>8

LEMMA AggregateRequestTokens ==
  ASSUME TypeInv, TokensConserved, NEW c \in Callers, AggregateRequest(c)
  PROVE  TokensConserved'
<1> SUFFICES ASSUME NEW a \in Agents, panicked'[a] = 0, NEW x \in TokenCounters
             PROVE  prom'[a][x] = StatsOf(a)'[x] + Total(Owed(call', a, x), Callers)
  BY DEF TokensConserved, TokensAgree
<1> DEFINE b == call[c].agent
           t == call[c].tokens
<1>1. /\ call[c] \in Call /\ b \in Agents /\ call[c].step = "aggregate"
      /\ t \in Tokens /\ t.optimized <= t.original
  BY CallFields DEF TypeInv, MetricsTypeOK, AggregatesOnlyGains, AggregateRequest, Call
<1>2. prom[a][x] = StatsOf(a)[x] + Total(Owed(call, a, x), Callers) /\ prom'[a] = prom[a]
  BY DEF TokensConserved, TokensAgree, AggregateRequest
<1>3. call' = [call EXCEPT ![c] = NoCall]
  BY DEF AggregateRequest
<1>4. /\ Total(Owed(call, a, x), Callers) \in Int
      /\ Total(Owed(call', a, x), Callers) =
           Total(Owed(call, a, x), Callers) + (Due(NoCall, a, x) - Due(call[c], a, x))
  <2>1. call \in [Callers -> Call \cup {NoCall}]
    BY DEF TypeInv, MetricsTypeOK
  <2>2. /\ call' \in [Callers -> Call \cup {NoCall}] /\ call'[c] = NoCall
        /\ \A h \in Callers \ {c} : call'[h] = call[h]
    BY <2>1, <1>3
  <2> QED
    BY <2>1, <2>2, OwedType, OwedMoves
<1>5. StatsOf(a)'[x] = StatsOf(a)[x] + Due(call[c], a, x)
  <2>1. CASE a = b
    <3>1. StatsOf(a)' = Added(StatsOf(a), t)
      <4>1. Added(StatsOf(a), t) \in AgentStats
        BY <1>1, StatsType, AddedType DEF TypeInv
      <4>2. agentStats'[a] = Added(StatsOf(a), t)
        BY <2>1 DEF TypeInv, MetricsTypeOK, AggregateRequest
      <4> QED
        BY <4>1, <4>2, MetricsSentinelAssumption DEF StatsOf
    <3>2. /\ Added(StatsOf(a), t)["original"] = StatsOf(a)["original"] + t["original"]
          /\ Added(StatsOf(a), t)["optimized"] = StatsOf(a)["optimized"] + t["optimized"]
          /\ Added(StatsOf(a), t)["saved"] = StatsOf(a)["saved"] + SavedBy(t)
      BY DEF Added
    <3>3. x = "saved" => Due(call[c], a, x) = SavedBy(t)
      BY <1>1, <2>1, DueOfCall
    <3>4. x # "saved" => Due(call[c], a, x) = t[x]
      BY <1>1, <2>1, DueOfCall
    <3> QED
      BY <3>1, <3>2, <3>3, <3>4 DEF TokenCounters
  <2>2. CASE a # b
    <3>1. agentStats'[a] = agentStats[a] /\ Due(call[c], a, x) = 0
      BY <1>1, <2>2, DueOfCall DEF TypeInv, MetricsTypeOK, AggregateRequest
    <3>2. StatsOf(a)' = StatsOf(a)
      BY <3>1 DEF StatsOf
    <3> QED
      BY <3>1, <3>2, TokenSides
  <2> QED
    BY <2>1, <2>2
<1>6. Due(NoCall, a, x) = 0 /\ Due(call[c], a, x) \in Int /\ StatsOf(a)[x] \in Nat
  BY <1>1, DueOfCall, DueOfNoCall, TokenSides
<1> QED
  BY <1>2, <1>4, <1>5, <1>6

LEMMA CountHitTokens ==
  ASSUME TypeInv, TokensConserved, NEW c \in Callers, NEW b \in Agents, CountHit(c, b)
  PROVE  TokensConserved'
<1> SUFFICES ASSUME NEW a \in Agents, panicked'[a] = 0, NEW x \in TokenCounters
             PROVE  prom'[a][x] = StatsOf(a)'[x] + Total(Owed(call', a, x), Callers)
  BY DEF TokensConserved, TokensAgree
<1> DEFINE k == [step |-> "hit", agent |-> b, tokens |-> NoTokens]
<1>1. k \in Call /\ k.step = "hit"
  BY DEF Call, Tokens, NoTokens
<1>2. prom[a][x] = StatsOf(a)[x] + Total(Owed(call, a, x), Callers)
  BY DEF TokensConserved, TokensAgree, CountHit
<1>3. StatsOf(a)' = StatsOf(a) /\ prom'[a][x] = prom[a][x]
  BY DEF TypeInv, MetricsTypeOK, CountHit, StatsOf, Bump, Counters, TokenCounters
<1>4. call' = [call EXCEPT ![c] = k] /\ call[c] = NoCall
  BY DEF CountHit
<1> HIDE DEF k
<1>5. /\ Total(Owed(call, a, x), Callers) \in Int
      /\ Total(Owed(call', a, x), Callers) =
           Total(Owed(call, a, x), Callers) + (Due(k, a, x) - Due(call[c], a, x))
  <2>1. call \in [Callers -> Call \cup {NoCall}]
    BY DEF TypeInv, MetricsTypeOK
  <2>2. /\ call' \in [Callers -> Call \cup {NoCall}] /\ call'[c] = k
        /\ \A h \in Callers \ {c} : call'[h] = call[h]
    BY <2>1, <1>1, <1>4
  <2> QED
    BY <2>1, <2>2, OwedType, OwedMoves
<1>6. Due(k, a, x) = 0 /\ Due(call[c], a, x) = 0
  BY <1>1, <1>4, DueOfCall, DueOfNoCall
<1> QED
  BY <1>2, <1>3, <1>5, <1>6

LEMMA AggregateHitTokens ==
  ASSUME TypeInv, TokensConserved, NEW c \in Callers, AggregateHit(c)
  PROVE  TokensConserved'
<1> SUFFICES ASSUME NEW a \in Agents, panicked'[a] = 0, NEW x \in TokenCounters
             PROVE  prom'[a][x] = StatsOf(a)'[x] + Total(Owed(call', a, x), Callers)
  BY DEF TokensConserved, TokensAgree
<1>1. call[c] \in Call /\ call[c].step = "hit"
  BY CallFields DEF TypeInv, AggregateHit
<1>2. prom[a][x] = StatsOf(a)[x] + Total(Owed(call, a, x), Callers) /\ prom'[a] = prom[a]
  BY DEF TokensConserved, TokensAgree, AggregateHit
<1>3. StatsOf(a)'[x] = StatsOf(a)[x]
  <2>1. CASE agentStats'[a] = agentStats[a]
    BY <2>1 DEF StatsOf
  <2>2. CASE agentStats'[a] # agentStats[a]
    <3>1. agentStats[a] # NoStats /\ agentStats'[a] = AddedHit(agentStats[a])
      BY <2>2 DEF TypeInv, MetricsTypeOK, AggregateHit
    <3>2. agentStats[a] \in AgentStats
      BY <3>1 DEF TypeInv, MetricsTypeOK
    <3>3. AddedHit(agentStats[a]) \in AgentStats /\ AddedHit(agentStats[a])[x] = agentStats[a][x]
      BY <3>2 DEF AddedHit, AgentStats, TokenCounters
    <3> QED
      BY <3>1, <3>3, MetricsSentinelAssumption DEF StatsOf
  <2> QED
    BY <2>1, <2>2
<1>4. call' = [call EXCEPT ![c] = NoCall]
  BY DEF AggregateHit
<1>5. /\ Total(Owed(call, a, x), Callers) \in Int
      /\ Total(Owed(call', a, x), Callers) =
           Total(Owed(call, a, x), Callers) + (Due(NoCall, a, x) - Due(call[c], a, x))
  <2>1. call \in [Callers -> Call \cup {NoCall}]
    BY DEF TypeInv, MetricsTypeOK
  <2>2. /\ call' \in [Callers -> Call \cup {NoCall}] /\ call'[c] = NoCall
        /\ \A h \in Callers \ {c} : call'[h] = call[h]
    BY <2>1, <1>4
  <2> QED
    BY <2>1, <2>2, OwedType, OwedMoves
<1>6. Due(NoCall, a, x) = 0 /\ Due(call[c], a, x) = 0
  BY <1>1, DueOfCall, DueOfNoCall
<1> QED
  BY <1>2, <1>3, <1>5, <1>6

LEMMA OtherTokens ==
  ASSUME TypeInv, TokensConserved, UNCHANGED <<agentStats, call, panicked>>,
         \A a \in Agents : \A x \in TokenCounters : prom'[a][x] = prom[a][x]
  PROVE  TokensConserved'
BY DEF TokensConserved, TokensAgree, StatsOf

LEMMA TokensStep == TypeInv /\ TokensConserved /\ [AnyRecord]_metricsVars => TokensConserved'
<1> SUFFICES ASSUME TypeInv, TokensConserved, [AnyRecord]_metricsVars
             PROVE  TokensConserved'
  OBVIOUS
<1>1. ASSUME NEW c \in Callers, NEW a \in Agents, NEW t \in TokenPairs,
             CountRequest(c, a, t)
      PROVE  TokensConserved'
  BY <1>1, CountRequestTokens
<1>2. ASSUME NEW c \in Callers, NEW a \in Agents, CountHit(c, a)
      PROVE  TokensConserved'
  BY <1>2, CountHitTokens
<1>3. ASSUME NEW c \in Callers, NEW a \in Agents,
             CountMiss(c, a) \/ RecordOptimizeDuration(c, a)
      PROVE  TokensConserved'
  <2>1. \A b \in Agents : \A x \in TokenCounters : prom'[b][x] = prom[b][x]
    BY <1>3 DEF TypeInv, MetricsTypeOK, CountMiss, RecordOptimizeDuration, Bump,
                Counters, TokenCounters
  <2> QED
    BY <1>3, <2>1, OtherTokens DEF CountMiss, RecordOptimizeDuration
<1>4. ASSUME NEW c \in Callers, CountSaved(c)
      PROVE  TokensConserved'
  BY <1>4, CountSavedTokens
<1>5. ASSUME NEW c \in Callers, SavedPanics(c)
      PROVE  TokensConserved'
  BY <1>5, SavedPanicsTokens
<1>6. ASSUME NEW c \in Callers, AggregateRequest(c)
      PROVE  TokensConserved'
  BY <1>6, AggregateRequestTokens
<1>7. ASSUME NEW c \in Callers, AggregateHit(c)
      PROVE  TokensConserved'
  BY <1>7, AggregateHitTokens
<1>8. ASSUME NEW c \in Callers, NEW p \in Providers, RecordProviderLatency(c, p)
      PROVE  TokensConserved'
  BY <1>8, OtherTokens DEF RecordProviderLatency
<1>9. CASE UNCHANGED metricsVars
  BY <1>9, OtherTokens DEF metricsVars
<1> QED
  BY <1>1, <1>2, <1>3, <1>4, <1>5, <1>6, <1>7, <1>8, <1>9 DEF AnyRecord

LEMMA TokensInit == MetricsInit => TokensConserved
<1> SUFFICES ASSUME MetricsInit, NEW a \in Agents, NEW x \in TokenCounters
             PROVE  prom[a][x] = StatsOf(a)[x] + Total(Owed(call, a, x), Callers)
  BY DEF TokensConserved, TokensAgree
<1>1. prom[a][x] = 0 /\ StatsOf(a)[x] = 0
  BY DEF MetricsInit, Counters, TokenCounters, StatsOf, FreshStats
<1>2. \A c \in Callers : Owed(call, a, x)[c] = 0
  BY DueOfNoCall DEF MetricsInit, Owed
<1>3. Total(Owed(call, a, x), Callers) = 0
  BY <1>2, MetricsCallersAssumption, TotalZero
<1> QED
  BY <1>1, <1>3

LEMMA ConservedAgree == TypeInv /\ BooksInv /\ TokensConserved => BooksAgreeWhenQuiet
<1> SUFFICES ASSUME TypeInv, BooksInv, TokensConserved, NEW a \in Agents,
                    Recording(a) = {}, panicked[a] = 0,
                    NEW x \in {"requests", "original", "optimized", "saved"}
             PROVE  prom[a][x] = StatsOf(a)[x]
  BY DEF BooksAgreeWhenQuiet
<1>1. CASE x = "requests"
  <2>1. Cardinality(Recording(a)) = 0
    BY FS_EmptySet
  <2>2. prom[a].requests = StatsOf(a).requests + 0 + 0
    BY <2>1 DEF BooksInv, RequestsConserved
  <2> QED
    BY <1>1, <2>2, RequestSides
<1>2. CASE x # "requests"
  <2>1. x \in TokenCounters
    BY <1>2 DEF TokenCounters
  <2>2. \A c \in Callers : Owed(call, a, x)[c] = 0
    <3> SUFFICES ASSUME NEW c \in Callers
                 PROVE  Due(call[c], a, x) = 0
      BY DEF Owed
    <3>1. call[c] # NoCall => call[c] \in Call /\ (call[c].agent # a \/ call[c].step = "hit")
      BY DEF Recording, TypeInv, MetricsTypeOK, Call
    <3> QED
      BY <2>1, <3>1, DueOfCall, DueOfNoCall
  <2>3. Total(Owed(call, a, x), Callers) = 0
    BY <2>2, MetricsCallersAssumption, TotalZero
  <2>4. prom[a][x] = StatsOf(a)[x] + Total(Owed(call, a, x), Callers)
    BY <2>1 DEF TokensConserved, TokensAgree
  <2> QED
    BY <2>1, <2>3, <2>4, TokenSides
<1> QED
  BY <1>1, <1>2

(* Once the calls for an agent have returned, and if none of them          *)
(* panicked, its exported counters and its aggregates are equal, whatever  *)
(* goroutines recorded at the same time.                                   *)
THEOREM BooksAgree == MetricsSpec => []BooksAgreeWhenQuiet
<1>1. MetricsInit => TypeInv /\ BooksInv /\ TokensConserved
  BY TypeInit, BooksInit, TokensInit
<1>2. TypeInv /\ BooksInv /\ TokensConserved /\ [MetricsNext]_metricsVars
        => (TypeInv /\ BooksInv /\ TokensConserved)'
  BY NextRecords, TypeStep, BooksStep, TokensStep
<1> QED
  BY <1>1, <1>2, ConservedAgree, PTL DEF MetricsSpec

=============================================================================
