------------------------------ MODULE Gateway ------------------------------
(***************************************************************************)
(* The request pipeline: internal/proxy/proxy.go, over the prompt cache    *)
(* and the metrics collector.                                              *)
(*                                                                         *)
(* net/http runs every request in a goroutine of its own; a handler here   *)
(* is one connection, which carries one request after another.  pc is the  *)
(* next thing its goroutine does to state it shares with the others: a     *)
(* call of the cache or of the collector, or the round trip to the         *)
(* provider.  A panic unwinds to net/http, which drops the connection and  *)
(* keeps the process: the handler is idle again and the agent has no reply.*)
(*                                                                         *)
(* A response is known by the request the provider made it for.  Shape     *)
(* tells what parseRequest and the optimizer find in a body; the optimizer *)
(* itself is a pure function and appears here only by its token counts.    *)
(***************************************************************************)
EXTENDS Integers, FiniteSets, FiniteSetsExt

CONSTANTS
  Handlers, Agents, Endpoints, Bodies,
  Shape,        \* body -> [parses, null, streaming, original, optimized]
  Configured,   \* endpoints with an entry in cfg.Providers
  Configs, ParsedTTL, FallbackTTL, MaxTTL,
  NoEntry, NoKey, NoCall, NoStats, NoRequest, NoReply, NoResponse,
  MaxRequests,  \* bound: requests that reach the pipeline
  MaxFlushes,   \* bound: flushes
  MaxReports,   \* bound: requests to /gateway/stats
  MaxClock      \* bound: the clock stops here

Request == [endpoint : Endpoints, body : Bodies, agent : Agents]

Response == [endpoint : Endpoints, body : Bodies, ok : BOOLEAN, complete : BOOLEAN]

Reply == [kind : {"hit", "relayed"}, response : Response]

Refusal == [kind : {"bad_request", "unreachable", "dropped"}, response : {NoResponse}]

Tokens == [original : Nat, optimized : Nat]

ASSUME GatewayShapeAssumption ==
  Shape \in [Bodies -> [parses : BOOLEAN, null : BOOLEAN, streaming : BOOLEAN,
                        original : Nat, optimized : Nat]]

ASSUME GatewayEndpointAssumption == Configured \subseteq Endpoints

ASSUME GatewaySentinelAssumption ==
  /\ NoRequest \notin Request
  /\ NoReply \notin Response \cup Reply \cup Refusal

(* identifyAgent answers with a configured agent, one of six built-in names *)
(* or "unknown".                                                           *)
ASSUME GatewayAgentsAssumption == IsFiniteSet(Agents)

VARIABLES
  pc,        \* per handler, where its goroutine is
  req,       \* per handler, the request it last read
  reply,     \* per handler, what its agent has been sent for it
  parsed,    \* history: per agent, requests that got past parseRequest
  flushes,   \* history: flushes of the cache
  reports,   \* history: requests to /gateway/stats
  report,    \* the answer under construction in the stats handler
  config, entries, hits, misses, clock, pending, got, accepted,
  prom, latency, agentStats, call, panicked

Cache == INSTANCE PromptCache WITH
  Keys <- Bodies, Responses <- Response, Callers <- Handlers,
  CallTTLs <- {0}, MaxGets <- MaxRequests

Metrics == INSTANCE MetricsCollector WITH
  Callers <- Handlers, Providers <- Endpoints,
  TokenPairs <- {[original |-> Shape[b].original, optimized |-> Shape[b].optimized]
                  : b \in Bodies},
  MaxRecorded <- MaxRequests

(* What the two components assume of their constants holds of what the     *)
(* pipeline gives them.                                                    *)
ASSUME GatewayPartsAssumption ==
  /\ Cache!CacheConfigAssumption
  /\ Cache!CacheTTLAssumption
  /\ Cache!CacheSentinelAssumption
  /\ Metrics!MetricsCallersAssumption
  /\ Metrics!MetricsSentinelAssumption

handlerVars == <<pc, req, reply>>
historyVars == <<parsed, flushes, reports>>
cacheVars == <<config, entries, hits, misses, clock, pending, got, accepted>>
metricsVars == <<prom, latency, agentStats, call, panicked>>
vars == <<handlerVars, historyVars, report, cacheVars, metricsVars>>

Steps == {"idle", "parse", "lookup", "hit", "serve", "miss", "optimize", "rebuild",
          "saved", "aggregate", "forward", "upstream", "latency", "stamp", "store"}

NoReport == [stage |-> "none", agents |-> [a \in Agents |-> NoStats],
             cache |-> [hits |-> 0, misses |-> 0, entries |-> 0]]

GatewayTypeOK ==
  /\ pc \in [Handlers -> Steps]
  /\ req \in [Handlers -> Request \cup {NoRequest}]
  /\ reply \in [Handlers -> Reply \cup Refusal \cup {NoReply}]
  /\ parsed \in [Agents -> Nat]
  /\ flushes \in Nat
  /\ reports \in Nat
  /\ report.stage \in {"none", "agents", "sent"}
  /\ Cache!CacheTypeOK
  /\ Metrics!MetricsTypeOK

Init ==
  /\ pc = [c \in Handlers |-> "idle"]
  /\ req = [c \in Handlers |-> NoRequest]
  /\ reply = [c \in Handlers |-> NoReply]
  /\ parsed = [a \in Agents |-> 0]
  /\ flushes = 0
  /\ reports = 0
  /\ report = NoReport
  /\ Cache!CacheInit
  /\ Metrics!MetricsInit

At(c, step) == pc[c] = step
GoTo(c, step) == pc' = [pc EXCEPT ![c] = step]
Send(c, kind, r) == reply' = [reply EXCEPT ![c] = [kind |-> kind, response |-> r]]
ShapeOf(c) == Shape[req[c].body]

(* net/http recovers the panic of a handler and closes its connection. *)
MutDropped(c) == GoTo(c, pc[c]) /\ Send(c, "dropped", NoResponse)
Dropped(c) == GoTo(c, "idle") /\ Send(c, "dropped", NoResponse)

-----------------------------------------------------------------------------
(* Mutants of the definitions that follow, one plausible bug each. *)

MutHashKey(q) == CHOOSE b \in Bodies : TRUE
MutCutEnds(c) ==
  /\ GoTo(c, "latency")
  /\ Send(c, "relayed", [endpoint |-> req[c].endpoint, body |-> req[c].body,
                         ok |-> TRUE, complete |-> FALSE])
MutCutRelayed(c) == GoTo(c, "latency") /\ Send(c, "relayed", NoResponse)
MutCacheable(c) ==
  ~ShapeOf(c).streaming /\ (reply[c] = NoReply \/ reply[c].kind = "relayed")
MutAfterParse(c) == IF ShapeOf(c).streaming THEN "forward" ELSE "lookup"
-----------------------------------------------------------------------------
(* cache.HashKey(model, body), the model being part of the body. *)
HashKey(q) == q.body

(* The server reads a request off a connection; the middleware names its   *)
(* agent.                                                                  *)
Receive(c) ==
  /\ At(c, "idle")
  /\ \E q \in Request : req' = [req EXCEPT ![c] = q]
  /\ reply' = [reply EXCEPT ![c] = NoReply]
  /\ GoTo(c, "parse")
  /\ UNCHANGED <<historyVars, report, cacheVars, metricsVars>>

(* io.ReadAll fails, or parseRequest does. *)
BadRequest(c) ==
  /\ At(c, "parse")
  /\ Send(c, "bad_request", NoResponse)
  /\ GoTo(c, "idle")
  /\ UNCHANGED <<req, historyVars, report, cacheVars, metricsVars>>

(* Streaming requests go past the cache. *)
AfterParse(c) == IF ShapeOf(c).streaming THEN "optimize" ELSE "lookup"

Parse(c) ==
  /\ At(c, "parse")
  /\ ShapeOf(c).parses
  /\ GoTo(c, AfterParse(c))
  /\ parsed' = [parsed EXCEPT ![req[c].agent] = @ + 1]
  /\ UNCHANGED <<req, reply, flushes, reports, report, cacheVars, metricsVars>>

(* Step 1: the prompt cache. *)
Lookup(c) ==
  /\ At(c, "lookup")
  /\ Cache!Get(c, HashKey(req[c]))
  /\ GoTo(c, IF got'[c].entry = NoEntry THEN "miss" ELSE "hit")
  /\ UNCHANGED <<req, reply, historyVars, report, metricsVars>>

CacheHit(c) ==
  /\ At(c, "hit")
  /\ Metrics!CountHit(c, req[c].agent)
  /\ GoTo(c, "serve")
  /\ UNCHANGED <<req, reply, historyVars, report, cacheVars>>

ServeHit(c) ==
  /\ At(c, "serve")
  /\ Metrics!AggregateHit(c)
  /\ Send(c, "hit", got[c].entry.response)
  /\ GoTo(c, "idle")
  /\ UNCHANGED <<req, historyVars, report, cacheVars>>

CacheMiss(c) ==
  /\ At(c, "miss")
  /\ Metrics!CountMiss(c, req[c].agent)
  /\ GoTo(c, "optimize")
  /\ UNCHANGED <<req, reply, historyVars, report, cacheVars>>

(* Step 2: OptimizeMessages, then RecordOptimizeDuration. *)
Optimize(c) ==
  /\ At(c, "optimize")
  /\ Metrics!RecordOptimizeDuration(c, req[c].agent)
  /\ GoTo(c, "rebuild")
  /\ UNCHANGED <<req, reply, historyVars, report, cacheVars>>

(* Step 3: rebuildRequest writes into the map a body "null" decodes to. *)
RebuildPanics(c) ==
  /\ At(c, "rebuild")
  /\ ShapeOf(c).null
  /\ Dropped(c)
  /\ UNCHANGED <<req, historyVars, report, cacheVars, metricsVars>>

(* Step 4: RecordRequest. *)
Record(c) ==
  /\ At(c, "rebuild")
  /\ ~ShapeOf(c).null
  /\ Metrics!CountRequest(c, req[c].agent,
       [original |-> ShapeOf(c).original, optimized |-> ShapeOf(c).optimized])
  /\ GoTo(c, "saved")
  /\ UNCHANGED <<req, reply, historyVars, report, cacheVars>>

RecordSaved(c) ==
  /\ At(c, "saved")
  /\ Metrics!CountSaved(c)
  /\ GoTo(c, "aggregate")
  /\ UNCHANGED <<req, reply, historyVars, report, cacheVars>>

RecordPanics(c) ==
  /\ At(c, "saved")
  /\ Metrics!SavedPanics(c)
  /\ Dropped(c)
  /\ UNCHANGED <<req, historyVars, report, cacheVars>>

Aggregate(c) ==
  /\ At(c, "aggregate")
  /\ Metrics!AggregateRequest(c)
  /\ GoTo(c, "forward")
  /\ UNCHANGED <<req, reply, historyVars, report, cacheVars>>

(* Step 5: g.providers[providerName].ServeHTTP *)
Forward(c) ==
  /\ At(c, "forward")
  /\ req[c].endpoint \in Configured
  /\ GoTo(c, "upstream")
  /\ UNCHANGED <<req, reply, historyVars, report, cacheVars, metricsVars>>

(* ... which is a nil ReverseProxy for a provider without configuration. *)
ForwardPanics(c) ==
  /\ At(c, "forward")
  /\ req[c].endpoint \notin Configured
  /\ Dropped(c)
  /\ UNCHANGED <<req, historyVars, report, cacheVars, metricsVars>>

(* What the provider may send: a 200, or any other status.                 *)
ProviderAnswers(q) ==
  {[endpoint |-> q.endpoint, body |-> q.body, ok |-> o, complete |-> TRUE]
     : o \in BOOLEAN}

Upstream(c) ==
  /\ At(c, "upstream")
  /\ \E r \in ProviderAnswers(req[c]) : Send(c, "relayed", r)
  /\ GoTo(c, "latency")
  /\ UNCHANGED <<req, historyVars, report, cacheVars, metricsVars>>

(* proxy.ErrorHandler: 502. *)
Unreachable(c) ==
  /\ At(c, "upstream")
  /\ Send(c, "unreachable", NoResponse)
  /\ GoTo(c, "latency")
  /\ UNCHANGED <<req, historyVars, report, cacheVars, metricsVars>>

(* The response breaks off, or the agent stops reading it: ReverseProxy    *)
(* panics with http.ErrAbortHandler.                                       *)
CutEnds(c) == Dropped(c)

CutShort(c) ==
  /\ At(c, "upstream")
  /\ CutEnds(c)
  /\ UNCHANGED <<req, historyVars, report, cacheVars, metricsVars>>

(* rec.status is 0, nothing having been written, or 200, which only a      *)
(* relayed answer can have.                                                *)
Cacheable(c) ==
  /\ ~ShapeOf(c).streaming
  /\ \/ reply[c] = NoReply
     \/ reply[c].kind = "relayed" /\ reply[c].response.ok

(* A disabled cache makes Set return at once; the mutant forgets that. *)
MutAfterLatency(c) == IF Cacheable(c) THEN "stamp" ELSE "idle"
AfterLatency(c) == IF Cacheable(c) /\ config.enabled THEN "stamp" ELSE "idle"

Latency(c) ==
  /\ At(c, "latency")
  /\ Metrics!RecordProviderLatency(c, req[c].endpoint)
  /\ GoTo(c, AfterLatency(c))
  /\ UNCHANGED <<req, reply, historyVars, report, cacheVars>>

(* The ttl argument is 0 whoever the agent is. *)
Stamp(c) ==
  /\ At(c, "stamp")
  /\ Cache!Stamp(c, HashKey(req[c]), reply[c].response, 0)
  /\ GoTo(c, "store")
  /\ UNCHANGED <<req, reply, historyVars, report, metricsVars>>

Store(c) ==
  /\ At(c, "store")
  /\ Cache!Store(c)
  /\ GoTo(c, "idle")
  /\ UNCHANGED <<req, reply, historyVars, report, metricsVars>>

-----------------------------------------------------------------------------
(* POST /gateway/cache/flush *)
Flush ==
  /\ flushes < MaxFlushes
  /\ Cache!Flush
  /\ flushes' = flushes + 1
  /\ UNCHANGED <<handlerVars, parsed, reports, report, metricsVars>>

(* GET /gateway/stats: the aggregates first, then the cache. *)
ReportAgents ==
  /\ report.stage # "agents"
  /\ reports < MaxReports
  /\ reports' = reports + 1
  /\ report' = [NoReport EXCEPT !.stage = "agents", !.agents = agentStats]
  /\ UNCHANGED <<handlerVars, parsed, flushes, cacheVars, metricsVars>>

ReportCache ==
  /\ report.stage = "agents"
  /\ report' = [report EXCEPT !.stage = "sent", !.cache = Cache!Stats]
  /\ UNCHANGED <<handlerVars, historyVars, cacheVars, metricsVars>>

Tick == Cache!Tick /\ UNCHANGED <<handlerVars, historyVars, report, metricsVars>>

SumOver(Op(_), S) == MapThenSumSet(Op, S)

Started == SumOver(LAMBDA a : parsed[a], Agents)
             + Cardinality({c \in Handlers : At(c, "parse")})

(* What the goroutine of a request does once it has been read. *)
Work(c) ==
  \/ BadRequest(c) \/ Parse(c)
  \/ Lookup(c) \/ CacheHit(c) \/ ServeHit(c) \/ CacheMiss(c)
  \/ Optimize(c) \/ RebuildPanics(c)
  \/ Record(c) \/ RecordSaved(c) \/ RecordPanics(c) \/ Aggregate(c)
  \/ Forward(c) \/ ForwardPanics(c)
  \/ Latency(c) \/ Stamp(c) \/ Store(c)

(* What the provider and the network do. *)
Provider(c) == Upstream(c) \/ Unreachable(c) \/ CutShort(c)

Next ==
  \/ \E c \in Handlers : Started < MaxRequests /\ Receive(c)
  \/ \E c \in Handlers : Work(c) \/ Provider(c)
  \/ Flush \/ ReportAgents \/ ReportCache \/ Tick

Spec == Init /\ [][Next]_vars

(* The Go scheduler runs every goroutine that is not waiting for I/O. *)
FairSpec == Spec /\ \A c \in Handlers : WF_vars(Work(c))

-----------------------------------------------------------------------------
(* Properties *)

(* Whatever goes into the cache is the complete 200 answer of a provider   *)
(* to the body of its key, and that body does not ask for a stream: never  *)
(* an error, a response that broke off, or the answer to another body.     *)
(* (proxy.go:219 and the panic of ReverseProxy.  A Gemini stream is chosen *)
(* by path, and is to this code a response like any other.)                *)
OnlyCompleteOKCached ==
  LET Sound(e) == /\ e.response.ok /\ e.response.complete
                  /\ e.response.body = e.key
                  /\ ~Shape[e.key].streaming
  IN  /\ \A b \in Bodies : entries[b] # NoEntry => Sound(entries[b])
      /\ \A c \in Handlers : pending[c] # NoEntry => Sound(pending[c])

Answered(c) == reply[c] # NoReply /\ reply[c].kind \in {"hit", "relayed"}

(* What the agent on connection c sees. *)
SentTo(c) == IF Answered(c) THEN reply[c].response ELSE reply[c]

(* The handler holds r: on its way into the cache, or out of it. *)
Carries(c, r) ==
  \/ pending[c] # NoEntry /\ r = pending[c].response
  \/ Answered(c) /\ pc[c] \in {"latency", "stamp"} /\ r = reply[c].response
  \/ pc[c] \in {"hit", "serve"} /\ r = got[c].entry.response

Shareable ==
  {r \in Response : \/ \E b \in Bodies : entries[b] # NoEntry /\ r = entries[b].response
                   \/ \E c \in Handlers : Carries(c, r)}

Shared == INSTANCE SharedAnswers WITH
  Callers <- Handlers, Questions <- Request, Answers <- Response,
  Refusals <- Refusal, NoQuestion <- NoRequest, NoAnswer <- NoReply,
  AnswersTo <- [q \in Request |-> ProviderAnswers(q)],
  MayShare <- {p \in Response \X Request :
                 p[1].ok /\ p[1].complete /\ p[1].body = p[2].body},
  asked <- req,
  answer <- [c \in Handlers |-> SentTo(c)],
  known <- Shareable

(* The pipeline implements the sharing of answers: each request is         *)
(* answered exactly once before the next, by its own provider's response,  *)
(* by a complete 200 response to the same body, or by a refusal; flushes,  *)
(* expiry and concurrent handlers never mix two requests up.               *)
ImplementsSharing == Shared!Spec

InAgent(a, steps) ==
  Cardinality({c \in Handlers : pc[c] \in steps /\ req[c].agent = a})

(* Every request that parses is accounted for once, whichever way it goes: *)
(* as a cache hit, or as an optimisation that was timed, or it is still on *)
(* its way to one of the two.                                              *)
EveryRequestAccounted ==
  \A a \in Agents :
    parsed[a] = prom[a].hits + prom[a].durations
                  + InAgent(a, {"lookup", "hit", "miss", "optimize"})

(* The cache's own counters and the collector's are two independent counts *)
(* of the same lookups: while nobody flushes they differ by exactly the    *)
(* handlers between the lookup and RecordCacheHit or RecordCacheMiss, and  *)
(* a flush, even one in the middle of such a handler's way, only ever      *)
(* leaves the cache with the lower count of the two.                       *)
CacheAndMetricsAgree ==
  LET Between(counted, step) == counted + Cardinality({c \in Handlers : At(c, step)})
      hitsSeen == Between(SumOver(LAMBDA a : prom[a].hits, Agents), "hit")
      missesSeen == Between(SumOver(LAMBDA a : prom[a].misses, Agents), "miss")
  IN  config.enabled /\ Cache!InMemory =>
        /\ hits <= hitsSeen /\ misses <= missesSeen
        /\ flushes = 0 => hits = hitsSeen /\ misses = missesSeen

(* A /gateway/stats response that no flush disturbed never shows agents    *)
(* with more cache hits between them than the cache had: the aggregates    *)
(* are read before the cache, though handlers run in between.              *)
ReportConsistent ==
  report.stage = "sent" /\ flushes = 0 =>
    SumOver(LAMBDA a : IF report.agents[a] = NoStats THEN 0
                       ELSE report.agents[a].hits, Agents) <= report.cache.hits

(* A request that has been read is answered, and its goroutine is done     *)
(* with it, unless the provider never finishes answering: no handler waits *)
(* for another, and none is lost on an error path.                         *)
HandlersFinish ==
  \A c \in Handlers :
    pc[c] # "idle" ~> \/ pc[c] = "upstream"
                      \/ pc[c] = "idle" /\ reply[c] # NoReply

-----------------------------------------------------------------------------
(* What documents and comments of the repository say, and the code does    *)
(* not do.                                                                 *)

(* README.md:36, "SHA-256 dedup of identical requests": an answer from the *)
(* cache was given to the identical request.  The endpoint and the path    *)
(* (which names the Gemini model) are not in the key.                      *)
HitFromIdenticalRequest ==
  \A c \in Handlers :
    reply[c] # NoReply /\ reply[c].kind = "hit" =>
      reply[c].response.endpoint = req[c].endpoint

(* README.md:9, "intercepts every request, runs an optimization pipeline   *)
(* on the message payload, then forwards to the real API": a connection is *)
(* dropped only while the provider is answering.                           *)
DroppedOnlyByProvider ==
  [][\A c \in Handlers :
       reply[c] = NoReply /\ reply'[c] # NoReply /\ reply'[c].kind = "dropped"
         => pc[c] = "upstream"]_vars

=============================================================================
