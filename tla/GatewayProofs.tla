---------------------------- MODULE GatewayProofs ----------------------------
(***************************************************************************)
(* Proofs about the request pipeline, for any number of handlers, agents,  *)
(* endpoints and bodies, whatever the cache section and whatever the       *)
(* providers answer.                                                       *)
(***************************************************************************)
EXTENDS Gateway, FoldLemmas

(* The variables are functions over their handlers and bodies; that is all *)
(* of the types this argument needs.                                       *)
Shaped ==
  /\ pc = [c \in Handlers |-> pc[c]]
  /\ req = [c \in Handlers |-> req[c]]
  /\ reply = [c \in Handlers |-> reply[c]]
  /\ entries = [b \in Bodies |-> entries[b]]
  /\ pending = [c \in Handlers |-> pending[c]]

(* What a handler holds while it decides what to cache: something has been *)
(* written once ServeHTTP has returned, which rules out a status of 0, a   *)
(* relayed answer is complete and its own, and what the handler is about   *)
(* to stamp has passed the test of Cacheable.                              *)
AnswerInHand(c) ==
  /\ ~At(c, "idle") => req[c] \in Request
  /\ At(c, "latency") => reply[c] # NoReply
  /\ At(c, "latency") /\ reply[c].kind = "relayed" =>
       reply[c].response.complete /\ reply[c].response.body = req[c].body
  /\ At(c, "stamp") =>
       /\ reply[c].response.ok /\ reply[c].response.complete
       /\ reply[c].response.body = req[c].body
       /\ ~Shape[req[c].body].streaming

CachingInv ==
  Shaped /\ (\A c \in Handlers : AnswerInHand(c)) /\ OnlyCompleteOKCached

LEMMA CachingInit == Init => CachingInv
BY DEF Init, CachingInv, Shaped, AnswerInHand, At, OnlyCompleteOKCached, Cache!CacheInit

(* A handler of its own moves pc, req and reply at its own place only.     *)
LEMMA OthersKeep ==
  ASSUME CachingInv, NEW c \in Handlers, NEW step, NEW q, NEW r,
         pc' = [pc EXCEPT ![c] = step],
         req' = [req EXCEPT ![c] = q],
         reply' = [reply EXCEPT ![c] = r],
         step \notin {"latency", "stamp"},
         step = "idle" \/ q \in Request
  PROVE  /\ \A h \in Handlers : AnswerInHand(h)'
         /\ pc' = [h \in Handlers |-> pc'[h]]
         /\ req' = [h \in Handlers |-> req'[h]]
         /\ reply' = [h \in Handlers |-> reply'[h]]
<1>1. ASSUME NEW h \in Handlers, h # c
      PROVE  pc'[h] = pc[h] /\ req'[h] = req[h] /\ reply'[h] = reply[h]
  BY <1>1 DEF CachingInv, Shaped
<1>2. pc'[c] = step
  BY DEF CachingInv, Shaped
<1>3. \A h \in Handlers : AnswerInHand(h)'
  <2>1. step = "idle" \/ req'[c] \in Request
    BY DEF CachingInv, Shaped
  <2> QED
    BY <1>1, <1>2, <2>1 DEF CachingInv, AnswerInHand, At
<1> QED
  BY <1>3 DEF CachingInv, Shaped

(* The cache only ever drops entries by itself.                            *)
CacheKept == entries' = entries /\ pending' = pending

LEMMA KeptIsSound ==
  ASSUME CachingInv, CacheKept
  PROVE  /\ OnlyCompleteOKCached'
         /\ entries' = [b \in Bodies |-> entries'[b]]
         /\ pending' = [c \in Handlers |-> pending'[c]]
BY DEF CachingInv, Shaped, CacheKept, OnlyCompleteOKCached

(* Steps that neither reach for the cache nor bring in an answer.          *)
Plain(c) ==
  \/ Receive(c) \/ BadRequest(c) \/ Parse(c) \/ CacheHit(c) \/ ServeHit(c)
  \/ CacheMiss(c) \/ Optimize(c) \/ RebuildPanics(c) \/ Record(c) \/ RecordSaved(c)
  \/ RecordPanics(c) \/ Aggregate(c) \/ Forward(c) \/ ForwardPanics(c) \/ CutShort(c)

LEMMA PlainStep ==
  ASSUME CachingInv, NEW c \in Handlers, Plain(c)
  PROVE  CachingInv'
<1> USE DEF cacheVars, handlerVars, GoTo, Send, Dropped, CutEnds, CacheKept
<1>1. CacheKept
  BY DEF Plain, Receive, BadRequest, Parse, CacheHit, ServeHit, CacheMiss, Optimize,
         RebuildPanics, Record, RecordSaved, RecordPanics, Aggregate, Forward,
         ForwardPanics, CutShort
<1>2. \E step : step \notin {"latency", "stamp"} /\ pc' = [pc EXCEPT ![c] = step]
  BY DEF Plain, Receive, BadRequest, Parse, CacheHit, ServeHit, CacheMiss, Optimize,
         RebuildPanics, Record, RecordSaved, RecordPanics, Aggregate, Forward,
         ForwardPanics, CutShort, AfterParse
<1>3. \E q : req' = [req EXCEPT ![c] = q]
  <2>1. req = [req EXCEPT ![c] = req[c]]
    BY DEF CachingInv, Shaped
  <2> QED
    BY <2>1 DEF Plain, Receive, BadRequest, Parse, CacheHit, ServeHit, CacheMiss,
         Optimize, RebuildPanics, Record, RecordSaved, RecordPanics, Aggregate, Forward,
         ForwardPanics, CutShort
<1>4. \E r : reply' = [reply EXCEPT ![c] = r]
  <2>1. reply = [reply EXCEPT ![c] = reply[c]]
    BY DEF CachingInv, Shaped
  <2> QED
    BY <2>1 DEF Plain, Receive, BadRequest, Parse, CacheHit, ServeHit, CacheMiss,
         Optimize, RebuildPanics, Record, RecordSaved, RecordPanics, Aggregate, Forward,
         ForwardPanics, CutShort
<1>5. req'[c] \in Request
  <2>1. CASE Receive(c)
    BY <2>1 DEF Receive, CachingInv, Shaped
  <2>2. CASE ~Receive(c)
    <3>1. req' = req /\ ~At(c, "idle")
      BY <2>2 DEF Plain, BadRequest, Parse, CacheHit, ServeHit, CacheMiss, Optimize,
             RebuildPanics, Record, RecordSaved, RecordPanics, Aggregate, Forward,
             ForwardPanics, CutShort, At
    <3> QED
      BY <3>1 DEF CachingInv, AnswerInHand
  <2> QED
    BY <2>1, <2>2
<1>6. PICK step : step \notin {"latency", "stamp"} /\ pc' = [pc EXCEPT ![c] = step]
  BY <1>2
<1>7. PICK q : req' = [req EXCEPT ![c] = q]
  BY <1>3
<1>8. q \in Request
  BY <1>5, <1>7 DEF CachingInv, Shaped
<1>9. PICK r : reply' = [reply EXCEPT ![c] = r]
  BY <1>4
<1>10. /\ \A h \in Handlers : AnswerInHand(h)'
       /\ pc' = [h \in Handlers |-> pc'[h]]
       /\ req' = [h \in Handlers |-> req'[h]]
       /\ reply' = [h \in Handlers |-> reply'[h]]
  BY <1>6, <1>7, <1>8, <1>9, OthersKeep
<1> QED
  BY <1>1, <1>10, KeptIsSound DEF CachingInv, Shaped

(* A lookup removes at most the entry it finds expired.                    *)
LEMMA LookupStep ==
  ASSUME CachingInv, NEW c \in Handlers, Lookup(c)
  PROVE  CachingInv'
<1>1. /\ pending' = pending
      /\ \/ entries' = entries
         \/ entries' = [entries EXCEPT ![HashKey(req[c])] = NoEntry]
  BY DEF Lookup, Cache!Get, Cache!GetAbsent, Cache!GetExpired, Cache!GetLive,
         Cache!GetNothing
<1>2. /\ OnlyCompleteOKCached'
      /\ entries' = [b \in Bodies |-> entries'[b]]
      /\ pending' = [h \in Handlers |-> pending'[h]]
  BY <1>1 DEF CachingInv, Shaped, OnlyCompleteOKCached
<1>3. \E step : step \notin {"latency", "stamp"} /\ pc' = [pc EXCEPT ![c] = step]
  <2> DEFINE step == IF got'[c].entry = NoEntry THEN "miss" ELSE "hit"
  <2>1. pc' = [pc EXCEPT ![c] = step]
    BY DEF Lookup, GoTo
  <2>2. step \notin {"latency", "stamp"}
    OBVIOUS
  <2> HIDE DEF step
  <2> QED
    BY <2>1, <2>2
<1>4. /\ req' = [req EXCEPT ![c] = req[c]]
      /\ reply' = [reply EXCEPT ![c] = reply[c]]
  BY DEF Lookup, CachingInv, Shaped
<1>5. req[c] \in Request
  BY DEF Lookup, At, CachingInv, AnswerInHand
<1> QED
  BY <1>2, <1>3, <1>4, <1>5, OthersKeep DEF CachingInv, Shaped

(* The provider's answer, or the 502 of the error handler.                 *)
LEMMA AnswerStep ==
  ASSUME CachingInv, NEW c \in Handlers, Upstream(c) \/ Unreachable(c)
  PROVE  CachingInv'
<1>1. CacheKept
  BY DEF Upstream, Unreachable, CacheKept, cacheVars
<1>2. pc' = [pc EXCEPT ![c] = "latency"] /\ req' = req
  BY DEF Upstream, Unreachable, GoTo
<1>3. req[c] \in Request
  BY DEF Upstream, Unreachable, At, CachingInv, AnswerInHand
<1>4. \E r : /\ reply' = [reply EXCEPT ![c] = r] /\ r # NoReply
             /\ r.kind = "relayed" =>
                  r.response.complete /\ r.response.body = req[c].body
  <2>1. CASE Upstream(c)
    <3>1. PICK r \in ProviderAnswers(req[c]) : Send(c, "relayed", r)
      BY <2>1 DEF Upstream
    <3>2. r.complete /\ r.body = req[c].body
      BY <3>1 DEF ProviderAnswers
    <3> DEFINE sent == [kind |-> "relayed", response |-> r]
    <3>3. reply' = [reply EXCEPT ![c] = sent] /\ sent.response = r
      BY <3>1 DEF Send
    <3>4. r \in Response
      <4>1. PICK o \in BOOLEAN :
              r = [endpoint |-> req[c].endpoint, body |-> req[c].body,
                   ok |-> o, complete |-> TRUE]
        BY <3>1 DEF ProviderAnswers
      <4>2. req[c].endpoint \in Endpoints /\ req[c].body \in Bodies
        BY <1>3 DEF Request
      <4> QED
        BY <4>1, <4>2 DEF Response
    <3>5. sent # NoReply
      <4>1. sent \in Reply
        BY <3>4 DEF Reply
      <4> QED
        BY <4>1, GatewaySentinelAssumption
    <3> HIDE DEF sent
    <3> QED
      BY <3>2, <3>3, <3>5
  <2>2. CASE Unreachable(c)
    <3> DEFINE sent == [kind |-> "unreachable", response |-> NoResponse]
    <3>1. reply' = [reply EXCEPT ![c] = sent] /\ sent.kind # "relayed"
      BY <2>2 DEF Unreachable, Send
    <3>2. sent # NoReply
      BY GatewaySentinelAssumption DEF Refusal
    <3> HIDE DEF sent
    <3> QED
      BY <3>1, <3>2
  <2> QED
    BY <2>1, <2>2
<1>5. \A h \in Handlers : AnswerInHand(h)'
  BY <1>2, <1>3, <1>4 DEF CachingInv, Shaped, AnswerInHand, At
<1> QED
  BY <1>1, <1>2, <1>4, <1>5, KeptIsSound DEF CachingInv, Shaped

LEMMA LatencyStep ==
  ASSUME CachingInv, NEW c \in Handlers, Latency(c)
  PROVE  CachingInv'
<1>1. CacheKept /\ At(c, "latency") /\ req' = req /\ reply' = reply
  BY DEF Latency, CacheKept, cacheVars
<1>2. pc' = [pc EXCEPT ![c] = AfterLatency(c)]
  BY DEF Latency, GoTo
<1>3. AfterLatency(c) # "latency" /\ (AfterLatency(c) = "stamp" => Cacheable(c))
  BY DEF AfterLatency
<1>4. AnswerInHand(c)'
  BY <1>1, <1>2, <1>3 DEF CachingInv, Shaped, AnswerInHand, At, Cacheable, ShapeOf
<1>5. \A h \in Handlers : AnswerInHand(h)'
  BY <1>1, <1>2, <1>4 DEF CachingInv, Shaped, AnswerInHand, At
<1> QED
  BY <1>1, <1>2, <1>5, KeptIsSound DEF CachingInv, Shaped

LEMMA StampStep ==
  ASSUME CachingInv, NEW c \in Handlers, Stamp(c)
  PROVE  CachingInv'
<1> DEFINE e == pending'[c]
<1>1. /\ At(c, "stamp") /\ entries' = entries
      /\ pc' = [pc EXCEPT ![c] = "store"]
      /\ req' = [req EXCEPT ![c] = req[c]]
      /\ reply' = [reply EXCEPT ![c] = reply[c]]
  BY DEF Stamp, Cache!Stamp, GoTo, CachingInv, Shaped
<1>2. \E x : pending' = [pending EXCEPT ![c] =
                           [key |-> HashKey(req[c]), response |-> reply[c].response,
                            expires |-> x]]
  BY DEF Stamp, Cache!Stamp
<1>3. e.key = req[c].body /\ e.response = reply[c].response
  BY <1>2 DEF CachingInv, Shaped, HashKey
<1>4. /\ e.response.ok /\ e.response.complete
      /\ e.response.body = e.key /\ ~Shape[e.key].streaming
  BY <1>1, <1>3 DEF CachingInv, AnswerInHand
<1>5. OnlyCompleteOKCached'
  BY <1>1, <1>2, <1>4 DEF CachingInv, Shaped, OnlyCompleteOKCached
<1>6. /\ entries' = [b \in Bodies |-> entries'[b]]
      /\ pending' = [h \in Handlers |-> pending'[h]]
  BY <1>1, <1>2 DEF CachingInv, Shaped
<1>7. \E step : step \notin {"latency", "stamp"} /\ pc' = [pc EXCEPT ![c] = step]
  BY <1>1
<1>8. req[c] \in Request
  BY <1>1 DEF At, CachingInv, AnswerInHand
<1> QED
  BY <1>1, <1>5, <1>6, <1>7, <1>8, OthersKeep DEF CachingInv, Shaped

LEMMA StoreStep ==
  ASSUME CachingInv, NEW c \in Handlers, Store(c)
  PROVE  CachingInv'
<1>1. /\ pc' = [pc EXCEPT ![c] = "idle"]
      /\ req' = [req EXCEPT ![c] = req[c]]
      /\ reply' = [reply EXCEPT ![c] = reply[c]]
      /\ pending[c] # NoEntry
      /\ pending' = [pending EXCEPT ![c] = NoEntry]
      /\ \/ entries' = entries
         \/ entries' = [entries EXCEPT ![pending[c].key] = pending[c]]
  BY DEF Store, Cache!Store, Cache!Filed, GoTo, CachingInv, Shaped
<1>2. OnlyCompleteOKCached'
  BY <1>1 DEF CachingInv, Shaped, OnlyCompleteOKCached
<1>3. /\ entries' = [b \in Bodies |-> entries'[b]]
      /\ pending' = [h \in Handlers |-> pending'[h]]
  BY <1>1 DEF CachingInv, Shaped
<1>4. req[c] \in Request
  BY DEF Store, At, CachingInv, AnswerInHand
<1>5. \E step : step \notin {"latency", "stamp"} /\ pc' = [pc EXCEPT ![c] = step]
  BY <1>1
<1> QED
  BY <1>1, <1>2, <1>3, <1>4, <1>5, OthersKeep DEF CachingInv, Shaped

(* Flushes, reports and the clock touch no handler.                        *)
LEMMA EnvironmentStep ==
  ASSUME CachingInv, Flush \/ ReportAgents \/ ReportCache \/ Tick \/ UNCHANGED vars
  PROVE  CachingInv'
<1>1. UNCHANGED <<pc, req, reply, pending>>
  BY DEF Flush, ReportAgents, ReportCache, Tick, Cache!Flush, Cache!Tick, vars,
         handlerVars, cacheVars
<1>2. entries' = entries \/ entries' = [b \in Bodies |-> NoEntry]
  BY DEF Flush, ReportAgents, ReportCache, Tick, Cache!Flush, Cache!Tick, vars, cacheVars
<1>3. \A c \in Handlers : AnswerInHand(c)'
  BY <1>1 DEF CachingInv, AnswerInHand, At
<1>4. OnlyCompleteOKCached' /\ entries' = [b \in Bodies |-> entries'[b]]
  BY <1>1, <1>2 DEF CachingInv, Shaped, OnlyCompleteOKCached
<1> QED
  BY <1>1, <1>3, <1>4 DEF CachingInv, Shaped

LEMMA CachingStep == CachingInv /\ [Next]_vars => CachingInv'
<1> SUFFICES ASSUME CachingInv, [Next]_vars
             PROVE  CachingInv'
  OBVIOUS
<1>1. ASSUME NEW c \in Handlers, Receive(c) \/ Work(c) \/ Provider(c)
      PROVE  CachingInv'
  BY <1>1, PlainStep, LookupStep, AnswerStep, LatencyStep, StampStep, StoreStep
     DEF Work, Provider, Plain
<1> QED
  BY <1>1, EnvironmentStep DEF Next

LEMMA CachingInvariant == Spec => []CachingInv
BY CachingInit, CachingStep, PTL DEF Spec

(* Nothing but the complete 200 answer to a non-streaming request with the *)
(* body of its key is ever in the cache or on its way into it.             *)
THEOREM OnlyCompleteOKIsCached == Spec => []OnlyCompleteOKCached
<1>1. CachingInv => OnlyCompleteOKCached
  BY DEF CachingInv
<1> QED
  BY <1>1, CachingInvariant, PTL

-----------------------------------------------------------------------------
(* The pipeline implements the sharing of answers.  The invariant is       *)
(* CachingInv and what each handler knows of its agent: a reply has gone   *)
(* out exactly when the handler is past the point where one is sent, and   *)
(* an entry found in the cache answers the request that looked it up.      *)

AfterReply == {"latency", "stamp", "store"}
Holding == {"hit", "serve"}

HandlerSound(c) ==
  /\ req[c] \in Request \cup {NoRequest}
  /\ pc[c] # "idle" => req[c] \in Request
  /\ pc[c] = "idle" /\ req[c] # NoRequest => reply[c] # NoReply
  /\ pc[c] \in AfterReply => reply[c] # NoReply
  /\ pc[c] \notin AfterReply \cup {"idle"} => reply[c] = NoReply
  /\ Answered(c) => reply[c].response \in Response
  /\ pc[c] = "stamp" => Answered(c)
  /\ pc[c] \in Holding => /\ got[c].entry.response \in Response
                          /\ got[c].entry.response.ok
                          /\ got[c].entry.response.complete
                          /\ got[c].entry.response.body = req[c].body

(* Entries hold responses.                                                 *)
Responsive ==
  /\ \A b \in Bodies : entries[b] # NoEntry =>
       entries[b].response \in Response /\ entries[b].key = b
  /\ \A c \in Handlers : pending[c] # NoEntry => pending[c].response \in Response

SharingInv ==
  /\ CachingInv
  /\ got = [c \in Handlers |-> got[c]]
  /\ Responsive
  /\ \A c \in Handlers : HandlerSound(c)

(* A step of the handler on c leaves the others alone.                     *)
Local(c) ==
  /\ \E s : pc' = [pc EXCEPT ![c] = s]
  /\ \E q : req' = [req EXCEPT ![c] = q]
  /\ \E r : reply' = [reply EXCEPT ![c] = r]
  /\ \E g : got' = [got EXCEPT ![c] = g]
  /\ \E e : pending' = [pending EXCEPT ![c] = e]

LEMMA LocalIsLocal ==
  ASSUME SharingInv, NEW c \in Handlers, Local(c)
  PROVE  /\ got' = [h \in Handlers |-> got'[h]]
         /\ \A h \in Handlers \ {c} :
              /\ pc'[h] = pc[h] /\ req'[h] = req[h] /\ reply'[h] = reply[h]
              /\ got'[h] = got[h] /\ pending'[h] = pending[h]
BY DEF Local, SharingInv, CachingInv, Shaped

LEMMA OthersSound ==
  ASSUME SharingInv, NEW c \in Handlers, Local(c), HandlerSound(c)'
  PROVE  \A h \in Handlers : HandlerSound(h)'
<1>1. ASSUME NEW h \in Handlers, h # c
      PROVE  HandlerSound(h)'
  BY <1>1, LocalIsLocal DEF SharingInv, HandlerSound, Answered
<1> QED
  BY <1>1

LEMMA OthersSee ==
  ASSUME SharingInv, NEW c \in Handlers, Local(c)
  PROVE  \A h \in Handlers \ {c} :
           SentTo(h)' = SentTo(h) /\ \A r : Carries(h, r)' <=> Carries(h, r)
BY LocalIsLocal DEF SentTo, Carries, Answered

-----------------------------------------------------------------------------
(* What may be shared after a step of c: what could be before, and what    *)
(* the cache and c have come to hold.                                      *)

LEMMA Spread ==
  ASSUME SharingInv, NEW c \in Handlers, Local(c), NEW S,
         \A r \in Response : Carries(c, r)' => r \in Shareable \cup S,
         \A b \in Bodies : entries'[b] # NoEntry =>
           entries'[b].response \in Shareable \cup S
  PROVE  Shareable' \subseteq Shareable \cup S
<1> SUFFICES ASSUME NEW r \in Shareable'
             PROVE  r \in Shareable \cup S
  OBVIOUS
<1>1. r \in Response
  BY DEF Shareable
<1>2. CASE \E b \in Bodies : entries'[b] # NoEntry /\ r = entries'[b].response
  BY <1>2
<1>3. CASE \E h \in Handlers : Carries(h, r)'
  <2>1. PICK h \in Handlers : Carries(h, r)'
    BY <1>3
  <2>2. CASE h = c
    BY <1>1, <2>1, <2>2
  <2>3. CASE h # c
    <3>1. Carries(h, r)
      BY <2>1, <2>3, OthersSee
    <3> QED
      BY <1>1, <3>1 DEF Shareable
  <2> QED
    BY <2>2, <2>3
<1> QED
  BY <1>2, <1>3 DEF Shareable

LEMMA EntriesShareable ==
  ASSUME SharingInv
  PROVE  \A b \in Bodies : entries[b] # NoEntry => entries[b].response \in Shareable
BY DEF SharingInv, Responsive, Shareable

LEMMA CarriedShareable ==
  ASSUME SharingInv, NEW c \in Handlers, NEW r \in Response, Carries(c, r)
  PROVE  r \in Shareable
BY DEF Shareable

-----------------------------------------------------------------------------
(* How a local step looks from outside, by what it does to the reply.      *)

Answers == [h \in Handlers |-> SentTo(h)]

LEMMA AnswersMove ==
  ASSUME SharingInv, NEW c \in Handlers, Local(c)
  PROVE  Answers' = [Answers EXCEPT ![c] = SentTo(c)']
BY OthersSee DEF Answers

LEMMA ReplySeen ==
  ASSUME SharingInv, NEW c \in Handlers
  PROVE  /\ reply[c] = NoReply => SentTo(c) = NoReply
         /\ reply[c] # NoReply => SentTo(c) # NoReply
BY GatewaySentinelAssumption DEF SharingInv, HandlerSound, SentTo, Answered

LEMMA AsForget ==
  ASSUME SharingInv, NEW c \in Handlers, Local(c), req' = req, reply' = reply,
         Shareable' \subseteq Shareable
  PROVE  Shared!Forget
<1>1. SentTo(c)' = SentTo(c)
  BY DEF SentTo, Answered
<1>2. Answers' = Answers
  BY <1>1, OthersSee DEF Answers
<1> QED
  BY <1>2 DEF Shared!Forget, Answers

LEMMA AsReply ==
  ASSUME SharingInv, NEW c \in Handlers, Local(c), req' = req,
         req[c] \in Request, reply[c] = NoReply
  PROVE  Shared!Reply(c, SentTo(c)')
<1>1. SentTo(c) = NoReply
  BY ReplySeen
<1>2. req[c] # NoRequest
  BY GatewaySentinelAssumption
<1> QED
  BY <1>1, <1>2, AnswersMove DEF Shared!Reply, Answers

LEMMA AsRefuse ==
  ASSUME SharingInv, NEW c \in Handlers, Local(c), req' = req,
         req[c] \in Request, reply[c] = NoReply,
         NEW kind \in {"bad_request", "unreachable", "dropped"}, Send(c, kind, NoResponse),
         Shareable' \subseteq Shareable
  PROVE  Shared!Refuse(c)
<1>1. reply'[c] = [kind |-> kind, response |-> NoResponse]
  BY DEF Send, SharingInv, CachingInv, Shaped
<1>2. SentTo(c)' = [kind |-> kind, response |-> NoResponse]
  BY <1>1 DEF SentTo, Answered
<1>3. SentTo(c)' \in Refusal
  BY <1>2 DEF Refusal
<1> QED
  BY <1>3, AsReply DEF Shared!Refuse

-----------------------------------------------------------------------------
(* Every step of a handler is local.                                       *)

HandlerVarsMove(c) ==
  /\ \E s : pc' = [pc EXCEPT ![c] = s]
  /\ \E q : req' = [req EXCEPT ![c] = q]
  /\ \E r : reply' = [reply EXCEPT ![c] = r]

LEMMA Unmoved ==
  ASSUME SharingInv, NEW c \in Handlers
  PROVE  /\ reply = [reply EXCEPT ![c] = reply[c]]
         /\ req = [req EXCEPT ![c] = req[c]]
         /\ got = [got EXCEPT ![c] = got[c]]
         /\ pending = [pending EXCEPT ![c] = pending[c]]
BY DEF SharingInv, CachingInv, Shaped

LEMMA WhenCacheKept ==
  ASSUME SharingInv, NEW c \in Handlers, HandlerVarsMove(c), UNCHANGED <<pending, got>>
  PROVE  Local(c)
BY Unmoved DEF Local, HandlerVarsMove

(* Steps that call nothing of the cache, and move on without a reply.      *)
Silent(c) ==
  \/ Parse(c) \/ CacheHit(c) \/ CacheMiss(c) \/ Optimize(c) \/ Record(c)
  \/ RecordSaved(c) \/ Aggregate(c) \/ Forward(c)

LEMMA SilentStep ==
  ASSUME SharingInv, NEW c \in Handlers, Silent(c)
  PROVE  Local(c) /\ Responsive' /\ HandlerSound(c)' /\ Shared!Forget
<1> DEFINE quiet == AfterReply \cup Holding \cup {"idle"}
<1> USE DEF GoTo, cacheVars
<1>1. UNCHANGED <<req, reply, entries, pending, got>>
  BY DEF Silent, Parse, CacheHit, CacheMiss, Optimize, Record, RecordSaved, Aggregate,
         Forward
<1>2. \/ pc[c] = "hit" /\ pc' = [pc EXCEPT ![c] = "serve"]
      \/ /\ pc[c] \in {"parse", "miss", "optimize", "rebuild", "saved", "aggregate",
                        "forward"}
         /\ \E s \in {"lookup", "optimize", "rebuild", "saved", "aggregate", "forward",
                      "upstream"} : pc' = [pc EXCEPT ![c] = s]
  <2>1. CASE CacheHit(c)
    BY <2>1 DEF CacheHit, At
  <2>2. CASE ~CacheHit(c)
    <3>1. pc[c] \in {"parse", "miss", "optimize", "rebuild", "saved", "aggregate",
                     "forward"}
      BY <2>2 DEF Silent, Parse, CacheMiss, Optimize, Record, RecordSaved, Aggregate,
                  Forward, At
    <3>2. \E s \in {"lookup", "optimize", "rebuild", "saved", "aggregate", "forward",
                    "upstream"} : pc' = [pc EXCEPT ![c] = s]
      BY <2>2 DEF Silent, Parse, CacheMiss, Optimize, Record, RecordSaved, Aggregate,
                  Forward, AfterParse
    <3> QED
      BY <3>1, <3>2
  <2> QED
    BY <2>1, <2>2
<1>3. Local(c)
  BY <1>1, <1>2, WhenCacheKept, Unmoved DEF HandlerVarsMove
<1>4. \/ pc[c] \notin quiet /\ pc'[c] \notin quiet
      \/ pc[c] = "hit" /\ pc'[c] = "serve"
  BY <1>2 DEF SharingInv, CachingInv, Shaped, AfterReply, Holding
<1>5. HandlerSound(c)'
  BY <1>1, <1>4 DEF SharingInv, HandlerSound, Answered, AfterReply, Holding
<1>6. \A r : Carries(c, r)' => Carries(c, r)
  BY <1>1, <1>4 DEF Carries, Answered, AfterReply, Holding
<1>7. Shareable' \subseteq Shareable \cup {}
  BY <1>1, <1>3, <1>6, Spread, EntriesShareable, CarriedShareable
<1> QED
  BY <1>1, <1>3, <1>5, <1>7, AsForget DEF SharingInv, Responsive

(* Refusals: errors of the gateway's own and panics.                       *)
Refused(c) ==
  \/ BadRequest(c) \/ RebuildPanics(c) \/ RecordPanics(c) \/ ForwardPanics(c)
  \/ CutShort(c) \/ Unreachable(c)

LEMMA RefusedStep ==
  ASSUME SharingInv, NEW c \in Handlers, Refused(c)
  PROVE  Local(c) /\ Responsive' /\ HandlerSound(c)' /\ Shared!Refuse(c)
<1>1. UNCHANGED <<req, entries, pending, got>>
  BY DEF Refused, BadRequest, RebuildPanics, RecordPanics, ForwardPanics, CutShort,
         Unreachable, cacheVars
<1>2. \E s \in {"idle", "latency"} : pc' = [pc EXCEPT ![c] = s]
  BY DEF Refused, BadRequest, RebuildPanics, RecordPanics, ForwardPanics, CutShort,
         Unreachable, CutEnds, Dropped, GoTo
<1>3. pc[c] \in {"parse", "rebuild", "saved", "forward", "upstream"}
  BY DEF Refused, BadRequest, RebuildPanics, RecordPanics, ForwardPanics, CutShort,
         Unreachable, At
<1>4. PICK kind \in {"bad_request", "unreachable", "dropped"} : Send(c, kind, NoResponse)
  BY DEF Refused, BadRequest, RebuildPanics, RecordPanics, ForwardPanics, CutShort,
         Unreachable, CutEnds, Dropped
<1>5. Local(c)
  BY <1>1, <1>2, <1>4, WhenCacheKept, Unmoved DEF HandlerVarsMove, Send
<1>6. pc'[c] \in {"idle", "latency"}
  BY <1>2 DEF SharingInv, CachingInv, Shaped
<1>7. req[c] \in Request /\ reply[c] = NoReply
  BY <1>3 DEF SharingInv, HandlerSound, AfterReply
<1>8. reply'[c] = [kind |-> kind, response |-> NoResponse]
  BY <1>4 DEF Send, SharingInv, CachingInv, Shaped
<1>9. reply'[c] # NoReply /\ ~Answered(c)'
  BY <1>8, GatewaySentinelAssumption DEF Answered, Refusal
<1>10. HandlerSound(c)'
  BY <1>1, <1>6, <1>7, <1>9 DEF HandlerSound, AfterReply, Holding
<1>11. \A r : Carries(c, r)' => Carries(c, r)
  BY <1>1, <1>6, <1>9 DEF Carries
<1>12. Shareable' \subseteq Shareable \cup {}
  BY <1>1, <1>5, <1>11, Spread, EntriesShareable, CarriedShareable
<1> QED
  BY <1>1, <1>4, <1>5, <1>7, <1>10, <1>12, AsRefuse DEF SharingInv, Responsive

LEMMA ReceiveStep ==
  ASSUME SharingInv, NEW c \in Handlers, Receive(c)
  PROVE  Local(c) /\ Responsive' /\ HandlerSound(c)' /\ Shared!Ask(c)
<1>1. UNCHANGED <<entries, pending, got>> /\ pc[c] = "idle"
  BY DEF Receive, cacheVars, At
<1>2. PICK q \in Request : req' = [req EXCEPT ![c] = q]
  BY DEF Receive
<1>3. pc' = [pc EXCEPT ![c] = "parse"] /\ reply' = [reply EXCEPT ![c] = NoReply]
  BY DEF Receive, GoTo
<1>4. Local(c)
  BY <1>1, <1>2, <1>3, WhenCacheKept DEF HandlerVarsMove
<1>5. pc'[c] = "parse" /\ req'[c] = q /\ reply'[c] = NoReply
  BY <1>2, <1>3 DEF SharingInv, CachingInv, Shaped
<1>6. HandlerSound(c)' /\ ~Answered(c)'
  BY <1>5 DEF HandlerSound, Answered, AfterReply, Holding
<1>7. \A r : Carries(c, r)' => Carries(c, r)
  BY <1>1, <1>5, <1>6 DEF Carries
<1>8. Shareable' \subseteq Shareable \cup {}
  BY <1>1, <1>4, <1>7, Spread, EntriesShareable, CarriedShareable
<1>9. Answers' = [Answers EXCEPT ![c] = NoReply]
  BY <1>4, <1>5, AnswersMove DEF SentTo, Answered
<1>10. req[c] = NoRequest \/ Answers[c] # NoReply
  BY <1>1, ReplySeen DEF SharingInv, HandlerSound, Answers
<1> QED
  BY <1>1, <1>2, <1>4, <1>6, <1>8, <1>9, <1>10
     DEF Shared!Ask, Answers, SharingInv, Responsive

(* A lookup takes up the entry it returns; it was shareable as an entry.   *)
LEMMA LookupSound ==
  ASSUME SharingInv, NEW c \in Handlers, Lookup(c)
  PROVE  Local(c) /\ Responsive' /\ HandlerSound(c)' /\ Shared!Forget
<1> DEFINE k == HashKey(req[c])
<1>1. UNCHANGED <<req, reply, pending>> /\ pc[c] = "lookup"
  BY DEF Lookup, At, Cache!Get
<1>2. req[c] \in Request /\ reply[c] = NoReply /\ k \in Bodies /\ k = req[c].body
  BY <1>1 DEF SharingInv, HandlerSound, AfterReply, HashKey, Request
<1>3. PICK e : /\ got' = [got EXCEPT ![c] = [key |-> k, entry |-> e]]
               /\ e = NoEntry \/ e = entries[k]
  BY DEF Lookup, Cache!Get, Cache!GetAbsent, Cache!GetExpired, Cache!GetLive,
         Cache!GetNothing, Cache!Return
<1>4. entries' = entries \/ entries' = [entries EXCEPT ![k] = NoEntry]
  BY DEF Lookup, Cache!Get, Cache!GetAbsent, Cache!GetExpired, Cache!GetLive,
         Cache!GetNothing
<1>5. got'[c].entry = e
  BY <1>3 DEF SharingInv
<1>6. pc' = [pc EXCEPT ![c] = IF e = NoEntry THEN "miss" ELSE "hit"]
  BY <1>5 DEF Lookup, GoTo
<1>7. pc'[c] = IF e = NoEntry THEN "miss" ELSE "hit"
  BY <1>6 DEF SharingInv, CachingInv, Shaped
<1>8. Local(c)
  BY <1>1, <1>3, <1>6, Unmoved DEF Local
<1>9. e # NoEntry => /\ e.response \in Response /\ e.response.ok /\ e.response.complete
                     /\ e.response.body = req[c].body
                     /\ e.response \in Shareable
  <2>1. SUFFICES ASSUME e # NoEntry, e = entries[k]
                 PROVE  /\ e.response \in Response /\ e.response.ok
                        /\ e.response.complete /\ e.response.body = req[c].body
                        /\ e.response \in Shareable
    BY <1>3
  <2>2. e.response \in Shareable
    BY <1>2, <2>1, EntriesShareable
  <2>3. e.response \in Response /\ e.key = k
    BY <1>2, <2>1 DEF SharingInv, Responsive
  <2> QED
    BY <1>2, <2>1, <2>2, <2>3 DEF SharingInv, CachingInv, OnlyCompleteOKCached
<1>10. HandlerSound(c)'
  BY <1>1, <1>2, <1>5, <1>7, <1>9 DEF HandlerSound, Answered, AfterReply, Holding
<1>11. \A r \in Response : Carries(c, r)' => r \in Shareable
  <2>1. SUFFICES ASSUME NEW r \in Response, Carries(c, r)'
                 PROVE  r \in Shareable
    OBVIOUS
  <2>2. CASE pc'[c] \in Holding /\ r = got'[c].entry.response
    BY <1>5, <1>7, <1>9, <2>2 DEF Holding
  <2>3. CASE pending'[c] # NoEntry /\ r = pending'[c].response
    BY <1>1, <2>3, CarriedShareable DEF Carries
  <2> QED
    BY <1>1, <1>2, <2>1, <2>2, <2>3 DEF Carries, Answered, Holding
<1>12. \A b \in Bodies : entries'[b] # NoEntry =>
         entries[b] # NoEntry /\ entries'[b] = entries[b]
  BY <1>4 DEF SharingInv, CachingInv, Shaped
<1>13. Shareable' \subseteq Shareable \cup {}
  BY <1>8, <1>11, <1>12, Spread, EntriesShareable
<1>14. Responsive'
  BY <1>1, <1>12 DEF SharingInv, Responsive
<1> QED
  BY <1>1, <1>8, <1>10, <1>13, <1>14, AsForget

(* A hit sends a complete 200 answer to a request with the same body.      *)
LEMMA ServeStep ==
  ASSUME SharingInv, NEW c \in Handlers, ServeHit(c)
  PROVE  Local(c) /\ Responsive' /\ HandlerSound(c)' /\ Shared!Share(c)
<1> DEFINE r == got[c].entry.response
<1>1. UNCHANGED <<req, entries, pending, got>> /\ pc[c] = "serve"
  BY DEF ServeHit, At, cacheVars
<1>2. /\ pc' = [pc EXCEPT ![c] = "idle"]
      /\ reply' = [reply EXCEPT ![c] = [kind |-> "hit", response |-> r]]
  BY DEF ServeHit, GoTo, Send
<1>3. /\ req[c] \in Request /\ reply[c] = NoReply
      /\ r \in Response /\ r.ok /\ r.complete /\ r.body = req[c].body
  BY <1>1 DEF SharingInv, HandlerSound, AfterReply, Holding
<1>4. Local(c)
  BY <1>1, <1>2, WhenCacheKept, Unmoved DEF HandlerVarsMove
<1>5. pc'[c] = "idle" /\ reply'[c] = [kind |-> "hit", response |-> r]
  BY <1>2 DEF SharingInv, CachingInv, Shaped
<1>6. reply'[c] \in Reply
  BY <1>3, <1>5 DEF Reply
<1>7. reply'[c] # NoReply /\ reply'[c].kind = "hit" /\ reply'[c].response = r
  BY <1>5, <1>6, GatewaySentinelAssumption
<1>8. Answered(c)' /\ SentTo(c)' = r
  BY <1>7 DEF Answered, SentTo
<1>9. HandlerSound(c)'
  BY <1>1, <1>3, <1>5, <1>7 DEF HandlerSound, AfterReply, Holding
<1>10. \A x : Carries(c, x)' => Carries(c, x)
  BY <1>1, <1>5 DEF Carries, Holding
<1>11. Shareable' \subseteq Shareable \cup {}
  BY <1>1, <1>4, <1>10, Spread, EntriesShareable, CarriedShareable
<1>12. r \in Shareable
  BY <1>1, <1>3, CarriedShareable DEF Carries
<1>13. <<r, req[c]>> \in {p \in Response \X Request :
                            p[1].ok /\ p[1].complete /\ p[1].body = p[2].body}
  BY <1>3
<1>14. Shared!Reply(c, r)
  BY <1>1, <1>3, <1>4, <1>8, AsReply
<1> QED
  BY <1>1, <1>4, <1>9, <1>11, <1>12, <1>13, <1>14
     DEF Shared!Share, SharingInv, Responsive

(* The provider's answer to the request itself is relayed as it comes.     *)
LEMMA UpstreamStep ==
  ASSUME SharingInv, NEW c \in Handlers, Upstream(c)
  PROVE  Local(c) /\ Responsive' /\ HandlerSound(c)' /\ Shared!Relay(c)
<1>1. UNCHANGED <<req, entries, pending, got>> /\ pc[c] = "upstream"
  BY DEF Upstream, At, cacheVars
<1>2. PICK r \in ProviderAnswers(req[c]) : Send(c, "relayed", r)
  BY DEF Upstream
<1>3. req[c] \in Request /\ reply[c] = NoReply
  BY <1>1 DEF SharingInv, HandlerSound, AfterReply
<1>4. r \in Response
  <2>1. PICK o \in BOOLEAN : r = [endpoint |-> req[c].endpoint, body |-> req[c].body,
                                 ok |-> o, complete |-> TRUE]
    BY <1>2 DEF ProviderAnswers
  <2>2. req[c].endpoint \in Endpoints /\ req[c].body \in Bodies
    BY <1>3 DEF Request
  <2> QED
    BY <2>1, <2>2 DEF Response
<1>5. /\ pc' = [pc EXCEPT ![c] = "latency"]
      /\ reply' = [reply EXCEPT ![c] = [kind |-> "relayed", response |-> r]]
  BY <1>2 DEF Upstream, GoTo, Send
<1>6. Local(c)
  BY <1>1, <1>5, WhenCacheKept, Unmoved DEF HandlerVarsMove
<1>7. pc'[c] = "latency" /\ reply'[c] = [kind |-> "relayed", response |-> r]
  BY <1>5 DEF SharingInv, CachingInv, Shaped
<1>8. reply'[c] \in Reply
  BY <1>4, <1>7 DEF Reply
<1>9. reply'[c] # NoReply /\ reply'[c].kind = "relayed" /\ reply'[c].response = r
  BY <1>7, <1>8, GatewaySentinelAssumption
<1>10. SentTo(c)' = r
  BY <1>9 DEF Answered, SentTo
<1>11. HandlerSound(c)'
  BY <1>1, <1>3, <1>4, <1>7, <1>9 DEF HandlerSound, AfterReply, Holding
<1>12. \A x \in Response : Carries(c, x)' => x \in Shareable \cup {r}
  <2>1. SUFFICES ASSUME NEW x \in Response, Carries(c, x)', x # r
                 PROVE  x \in Shareable
    OBVIOUS
  <2>2. Carries(c, x)
    BY <1>1, <1>7, <1>9, <2>1 DEF Carries, Holding
  <2> QED
    BY <2>2, CarriedShareable
<1>13. Shareable' \subseteq Shareable \cup {r}
  BY <1>1, <1>6, <1>12, Spread, EntriesShareable
<1>14. Shared!Reply(c, r)
  BY <1>1, <1>3, <1>6, <1>10, AsReply
<1>15. r \in [q \in Request |-> ProviderAnswers(q)][req[c]]
  BY <1>2, <1>3
<1>16. req[c] # NoRequest
  BY <1>3, GatewaySentinelAssumption
<1> QED
  BY <1>1, <1>6, <1>11, <1>13, <1>14, <1>15, <1>16
     DEF Shared!Relay, SharingInv, Responsive

LEMMA LatencySound ==
  ASSUME SharingInv, NEW c \in Handlers, Latency(c)
  PROVE  Local(c) /\ Responsive' /\ HandlerSound(c)' /\ Shared!Forget
<1>1. UNCHANGED <<req, reply, entries, pending, got>> /\ pc[c] = "latency"
  BY DEF Latency, At, cacheVars
<1>2. pc' = [pc EXCEPT ![c] = AfterLatency(c)]
  BY DEF Latency, GoTo
<1>3. Local(c)
  BY <1>1, <1>2, WhenCacheKept, Unmoved DEF HandlerVarsMove
<1>4. pc'[c] = AfterLatency(c)
  BY <1>2 DEF SharingInv, CachingInv, Shaped
<1>5. reply[c] # NoReply /\ req[c] \in Request
  BY <1>1 DEF SharingInv, HandlerSound, AfterReply
<1>6. /\ pc'[c] \in {"stamp", "idle"}
      /\ pc'[c] = "stamp" => Answered(c)
  BY <1>4, <1>5 DEF AfterLatency, Cacheable, Answered
<1>7. HandlerSound(c)'
  BY <1>1, <1>5, <1>6 DEF SharingInv, HandlerSound, Answered, AfterReply, Holding
<1>8. \A r : Carries(c, r)' => Carries(c, r)
  BY <1>1, <1>6 DEF Carries, Answered, Holding
<1>9. Shareable' \subseteq Shareable \cup {}
  BY <1>1, <1>3, <1>8, Spread, EntriesShareable, CarriedShareable
<1> QED
  BY <1>1, <1>3, <1>7, <1>9, AsForget DEF SharingInv, Responsive

(* The answer goes from the handler to the entry on its way,               *)
LEMMA StampSound ==
  ASSUME SharingInv, NEW c \in Handlers, Stamp(c)
  PROVE  Local(c) /\ Responsive' /\ HandlerSound(c)' /\ Shared!Forget
<1>1. UNCHANGED <<req, reply, entries, got>> /\ pc[c] = "stamp"
  BY DEF Stamp, At, Cache!Stamp
<1>2. PICK x : pending' = [pending EXCEPT ![c] =
                             [key |-> HashKey(req[c]), response |-> reply[c].response,
                              expires |-> x]]
  BY DEF Stamp, Cache!Stamp
<1>3. pc' = [pc EXCEPT ![c] = "store"]
  BY DEF Stamp, GoTo
<1>4. Local(c)
  BY <1>1, <1>2, <1>3, Unmoved DEF Local
<1>5. pc'[c] = "store" /\ pending'[c].response = reply[c].response
  BY <1>2, <1>3 DEF SharingInv, CachingInv, Shaped
<1>6. /\ Answered(c) /\ reply[c].response \in Response
      /\ reply[c] # NoReply /\ req[c] \in Request
  BY <1>1 DEF SharingInv, HandlerSound, AfterReply
<1>7. HandlerSound(c)'
  BY <1>1, <1>5, <1>6 DEF HandlerSound, Answered, AfterReply, Holding
<1>8. \A r : Carries(c, r)' => Carries(c, r)
  BY <1>1, <1>5, <1>6 DEF Carries, Answered, Holding
<1>9. Shareable' \subseteq Shareable \cup {}
  BY <1>1, <1>4, <1>8, Spread, EntriesShareable, CarriedShareable
<1>10. \A h \in Handlers : pending'[h] # NoEntry => pending'[h].response \in Response
  BY <1>4, <1>5, <1>6, LocalIsLocal DEF SharingInv, Responsive
<1> QED
  BY <1>1, <1>4, <1>7, <1>9, <1>10, AsForget DEF SharingInv, Responsive

(* and from there into the cache, or nowhere with the redis stub.          *)
LEMMA StoreSound ==
  ASSUME SharingInv, NEW c \in Handlers, Store(c)
  PROVE  Local(c) /\ Responsive' /\ HandlerSound(c)' /\ Shared!Forget
<1> DEFINE e == pending[c]
<1>1. UNCHANGED <<req, reply, got>> /\ pc[c] = "store" /\ e # NoEntry
  BY DEF Store, At, Cache!Store
<1>2. /\ pc' = [pc EXCEPT ![c] = "idle"]
      /\ pending' = [pending EXCEPT ![c] = NoEntry]
      /\ \/ entries' = entries
         \/ entries' = [entries EXCEPT ![e.key] = e]
  BY DEF Store, Cache!Store, Cache!Filed, GoTo
<1>3. Local(c)
  BY <1>1, <1>2, Unmoved DEF Local
<1>4. pc'[c] = "idle" /\ pending'[c] = NoEntry
  BY <1>2 DEF SharingInv, CachingInv, Shaped
<1>5. reply[c] # NoReply /\ req[c] \in Request
  BY <1>1 DEF SharingInv, HandlerSound, AfterReply
<1>6. HandlerSound(c)'
  BY <1>1, <1>4, <1>5 DEF SharingInv, HandlerSound, Answered, AfterReply, Holding
<1>7. e.response \in Response /\ e.response \in Shareable
  <2>1. e.response \in Response
    BY <1>1 DEF SharingInv, Responsive
  <2> QED
    BY <1>1, <2>1, CarriedShareable DEF Carries
<1>8. \A b \in Bodies : entries'[b] # NoEntry =>
        \/ entries'[b] = entries[b] /\ entries[b] # NoEntry
        \/ entries'[b] = e /\ b = e.key
  BY <1>2 DEF SharingInv, CachingInv, Shaped
<1>9. \A r : ~Carries(c, r)'
  BY <1>4 DEF Carries, Holding
<1>10. Shareable' \subseteq Shareable \cup {}
  BY <1>3, <1>7, <1>8, <1>9, Spread, EntriesShareable
<1>11. Responsive'
  BY <1>3, <1>4, <1>7, <1>8, LocalIsLocal DEF SharingInv, Responsive
<1> QED
  BY <1>1, <1>3, <1>6, <1>10, <1>11, AsForget

(* Flushes, reports and the clock can only make the gateway forget.        *)
LEMMA EnvironmentSound ==
  ASSUME SharingInv, Flush \/ ReportAgents \/ ReportCache \/ Tick \/ UNCHANGED vars
  PROVE  /\ got' = [c \in Handlers |-> got'[c]]
         /\ Responsive' /\ (\A c \in Handlers : HandlerSound(c)') /\ Shared!Forget
<1>1. UNCHANGED <<pc, req, reply, pending, got>>
  BY DEF Flush, ReportAgents, ReportCache, Tick, Cache!Flush, Cache!Tick, vars,
         handlerVars, cacheVars
<1>2. entries' = entries \/ entries' = [b \in Bodies |-> NoEntry]
  BY DEF Flush, ReportAgents, ReportCache, Tick, Cache!Flush, Cache!Tick, vars, cacheVars
<1>3. \A b \in Bodies : entries'[b] # NoEntry => entries'[b] = entries[b]
  BY <1>2
<1>4. \A c \in Handlers : HandlerSound(c)'
  BY <1>1 DEF SharingInv, HandlerSound, Answered
<1>5. \A c \in Handlers : SentTo(c)' = SentTo(c) /\ \A r : Carries(c, r)' <=> Carries(c, r)
  BY <1>1 DEF SentTo, Carries, Answered
<1>6. Shareable' \subseteq Shareable
  BY <1>3, <1>5 DEF Shareable
<1>7. Answers' = Answers
  BY <1>5 DEF Answers
<1> QED
  BY <1>1, <1>3, <1>4, <1>6, <1>7 DEF Shared!Forget, Answers, SharingInv, Responsive

-----------------------------------------------------------------------------
LEMMA SharingInit == Init => SharingInv /\ Shared!Init
<1> SUFFICES ASSUME Init
             PROVE  SharingInv /\ Shared!Init
  OBVIOUS
<1>1. /\ pc = [c \in Handlers |-> "idle"]
      /\ req = [c \in Handlers |-> NoRequest]
      /\ reply = [c \in Handlers |-> NoReply]
      /\ entries = [b \in Bodies |-> NoEntry]
      /\ pending = [c \in Handlers |-> NoEntry]
      /\ got = [c \in Handlers |-> [key |-> NoKey, entry |-> NoEntry]]
  BY DEF Init, Cache!CacheInit
<1>2. \A c \in Handlers : ~Answered(c) /\ SentTo(c) = NoReply /\ HandlerSound(c)
  BY <1>1 DEF Answered, SentTo, HandlerSound, AfterReply, Holding
<1>3. Shareable = {}
  BY <1>1, <1>2 DEF Shareable, Carries, Holding
<1>4. SharingInv
  BY <1>1, <1>2, CachingInit DEF SharingInv, Responsive
<1> QED
  BY <1>1, <1>2, <1>3, <1>4 DEF Shared!Init

(* A step of a handler is sound and is one of the promised ones.           *)
LEMMA HandlerStep ==
  ASSUME SharingInv, NEW c \in Handlers, Receive(c) \/ Work(c) \/ Provider(c)
  PROVE  Local(c) /\ Responsive' /\ HandlerSound(c)' /\ Shared!Next
<1>1. CASE Silent(c) \/ Lookup(c) \/ Latency(c) \/ Stamp(c) \/ Store(c)
  BY <1>1, SilentStep, LookupSound, LatencySound, StampSound, StoreSound DEF Shared!Next
<1>2. CASE Receive(c)
  BY <1>2, ReceiveStep DEF Shared!Next
<1>3. CASE Refused(c)
  BY <1>3, RefusedStep DEF Shared!Next
<1>4. CASE ServeHit(c)
  BY <1>4, ServeStep DEF Shared!Next
<1>5. CASE Upstream(c)
  BY <1>5, UpstreamStep DEF Shared!Next
<1> QED
  BY <1>1, <1>2, <1>3, <1>4, <1>5 DEF Work, Provider, Silent, Refused

LEMMA SharingStep ==
  ASSUME SharingInv, [Next]_vars
  PROVE  SharingInv' /\ [Shared!Next]_Shared!vars
<1>1. CachingInv'
  BY CachingStep DEF SharingInv
<1>2. CASE \E c \in Handlers : Receive(c) \/ Work(c) \/ Provider(c)
  <2>1. PICK c \in Handlers : Receive(c) \/ Work(c) \/ Provider(c)
    BY <1>2
  <2>2. Local(c) /\ Responsive' /\ HandlerSound(c)' /\ Shared!Next
    BY <2>1, HandlerStep
  <2>3. got' = [h \in Handlers |-> got'[h]] /\ \A h \in Handlers : HandlerSound(h)'
    BY <2>2, LocalIsLocal, OthersSound
  <2> QED
    BY <1>1, <2>2, <2>3 DEF SharingInv
<1>3. CASE Flush \/ ReportAgents \/ ReportCache \/ Tick \/ UNCHANGED vars
  BY <1>1, <1>3, EnvironmentSound DEF SharingInv, Shared!Next
<1> QED
  BY <1>2, <1>3 DEF Next

(* The pipeline implements the sharing of answers: each request is         *)
(* answered once, by its own provider, by a complete 200 response to the   *)
(* same body, or by a refusal.                                             *)
THEOREM GatewayImplementsSharing == Spec => ImplementsSharing
<1>1. Init => SharingInv /\ Shared!Init
  BY SharingInit
<1>2. SharingInv /\ [Next]_vars => SharingInv' /\ [Shared!Next]_Shared!vars
  BY SharingStep
<1> QED
  BY <1>1, <1>2, PTL DEF Spec, ImplementsSharing, Shared!Spec

-----------------------------------------------------------------------------
(***************************************************************************)
(* Types and books of the request pipeline, for any finite set of handlers *)
(* and of agents, and any endpoints and bodies.                            *)
(*                                                                         *)
(* A step of the pipeline is, to the cache and to the collector, one of    *)
(* their own calls or nothing: what was proved of those calls, whoever     *)
(* makes them, is used here as it stands, through the modules of their     *)
(* proofs instantiated with the pipeline's constants.                      *)
(***************************************************************************)

(* The proofs of the components, with the constants of Gateway's Cache and *)
(* Metrics.                                                                *)
CP == INSTANCE PromptCacheProofs WITH
  Keys <- Bodies, Responses <- Response, Callers <- Handlers,
  CallTTLs <- {0}, MaxGets <- MaxRequests

MP == INSTANCE MetricsCollectorProofs WITH
  Callers <- Handlers, Providers <- Endpoints,
  TokenPairs <- {[original |-> Shape[b].original, optimized |-> Shape[b].optimized]
                  : b \in Bodies},
  MaxRecorded <- MaxRequests

(* The pipeline gives both components constants they accept.               *)
LEMMA CollectorAssumed ==
  /\ IsFiniteSet(Handlers)
  /\ MP!MetricsCallersAssumption
  /\ MP!MetricsTokensAssumption
  /\ MP!MetricsSentinelAssumption
<1>1. IsFiniteSet(Handlers) /\ MP!MetricsCallersAssumption
  BY GatewayPartsAssumption DEF IsFiniteSet, MP!IsFiniteSet, Metrics!IsFiniteSet
<1>2. MP!MetricsTokensAssumption
  BY GatewayShapeAssumption
<1>3. MP!MetricsSentinelAssumption
  BY GatewayPartsAssumption DEF Metrics!Call, MP!Call, Metrics!Tokens, MP!Tokens,
     Metrics!AgentStats, MP!AgentStats
<1> QED
  BY <1>1, <1>2, <1>3

LEMMA CacheAssumed ==
  /\ CP!CacheConfigAssumption
  /\ CP!CacheTTLAssumption
  /\ CP!CacheSentinelAssumption
BY GatewayPartsAssumption
   DEF Cache!EffectiveTTL, CP!EffectiveTTL, Cache!DefaultTTL, CP!DefaultTTL,
       Cache!Entry, CP!Entry

LEMMA CollectorKeepsTypes ==
  MP!TypeInv /\ [MP!AnyRecord]_(MP!metricsVars) => MP!TypeInv'
BY MP!TypeStep, CollectorAssumed

LEMMA CacheKeepsTypes ==
  CP!CacheTypeOK /\ [CP!AnyCall]_(CP!cacheVars) => CP!CacheTypeOK'
BY CP!AnyCallType, CacheAssumed

(* A request under way has an agent and a body.                            *)
LEMMA Asking ==
  ASSUME SharingInv, NEW c \in Handlers, pc[c] # "idle"
  PROVE  req[c] \in Request /\ req[c].agent \in Agents /\ req[c].body \in Bodies
         /\ req[c].endpoint \in Endpoints
BY DEF SharingInv, HandlerSound, Request

(* The two instances of a component describe the same calls.               *)
LEMMA SameRecords ==
  ASSUME NEW c, NEW a, NEW t, NEW p
  PROVE  /\ Metrics!CountRequest(c, a, t) => MP!CountRequest(c, a, t)
         /\ Metrics!CountSaved(c) => MP!CountSaved(c)
         /\ Metrics!SavedPanics(c) => MP!SavedPanics(c)
         /\ Metrics!AggregateRequest(c) => MP!AggregateRequest(c)
         /\ Metrics!CountHit(c, a) => MP!CountHit(c, a)
         /\ Metrics!AggregateHit(c) => MP!AggregateHit(c)
         /\ Metrics!CountMiss(c, a) => MP!CountMiss(c, a)
         /\ Metrics!RecordOptimizeDuration(c, a) => MP!RecordOptimizeDuration(c, a)
         /\ Metrics!RecordProviderLatency(c, p) => MP!RecordProviderLatency(c, p)
<1> USE DEF Metrics!Bump, MP!Bump, Metrics!SavedBy, MP!SavedBy, Metrics!Accepts, MP!Accepts
<1>1. Metrics!CountRequest(c, a, t) => MP!CountRequest(c, a, t)
  BY DEF Metrics!CountRequest, MP!CountRequest, Metrics!Counted, MP!Counted
<1>2. Metrics!CountSaved(c) => MP!CountSaved(c)
  BY DEF Metrics!CountSaved, MP!CountSaved
<1>3. Metrics!SavedPanics(c) => MP!SavedPanics(c)
  BY DEF Metrics!SavedPanics, MP!SavedPanics
<1>4. Metrics!AggregateRequest(c) => MP!AggregateRequest(c)
  BY DEF Metrics!AggregateRequest, MP!AggregateRequest, Metrics!Added, MP!Added,
         Metrics!StatsOf, MP!StatsOf, Metrics!FreshStats, MP!FreshStats
<1>5. Metrics!CountHit(c, a) => MP!CountHit(c, a)
  BY DEF Metrics!CountHit, MP!CountHit, Metrics!NoTokens, MP!NoTokens
<1>6. Metrics!AggregateHit(c) => MP!AggregateHit(c)
  BY DEF Metrics!AggregateHit, MP!AggregateHit, Metrics!AddedHit, MP!AddedHit
<1>7. Metrics!CountMiss(c, a) => MP!CountMiss(c, a)
  BY DEF Metrics!CountMiss, MP!CountMiss
<1>8. Metrics!RecordOptimizeDuration(c, a) => MP!RecordOptimizeDuration(c, a)
  BY DEF Metrics!RecordOptimizeDuration, MP!RecordOptimizeDuration
<1>9. Metrics!RecordProviderLatency(c, p) => MP!RecordProviderLatency(c, p)
  BY DEF Metrics!RecordProviderLatency, MP!RecordProviderLatency
<1> QED
  BY <1>1, <1>2, <1>3, <1>4, <1>5, <1>6, <1>7, <1>8, <1>9

LEMMA SameCalls ==
  ASSUME NEW c, NEW k, NEW r
  PROVE  /\ Cache!Get(c, k) => CP!Get(c, k)
         /\ Cache!Stamp(c, k, r, 0) => CP!Stamp(c, k, r, 0)
         /\ Cache!Store(c) => CP!Store(c)
         /\ Cache!Flush => CP!Flush
         /\ Cache!Tick => CP!Tick
<1> USE DEF Cache!InMemory, CP!InMemory
<1>1. Cache!Get(c, k) => CP!Get(c, k)
  BY DEF Cache!Get, CP!Get, Cache!GetAbsent, CP!GetAbsent, Cache!GetExpired, CP!GetExpired,
         Cache!GetLive, CP!GetLive, Cache!GetNothing, CP!GetNothing, Cache!Live, CP!Live,
         Cache!Return, CP!Return, Cache!ExpiredMisses, CP!ExpiredMisses
<1>2. Cache!Stamp(c, k, r, 0) => CP!Stamp(c, k, r, 0)
  BY DEF Cache!Stamp, CP!Stamp, Cache!EffectiveTTL, CP!EffectiveTTL,
         Cache!DefaultTTL, CP!DefaultTTL
<1>3. Cache!Store(c) => CP!Store(c)
  BY DEF Cache!Store, CP!Store, Cache!Filed, CP!Filed
<1>4. Cache!Flush => CP!Flush
  BY DEF Cache!Flush, CP!Flush
<1>5. Cache!Tick => CP!Tick
  BY DEF Cache!Tick, CP!Tick
<1> QED
  BY <1>1, <1>2, <1>3, <1>4, <1>5

(* Whatever the pipeline does is, to the collector, one of its calls or    *)
(* nothing ...                                                             *)
LEMMA CollectorStep ==
  ASSUME SharingInv, [Next]_vars
  PROVE  [MP!AnyRecord]_(MP!metricsVars)
<1>1. ASSUME NEW c \in Handlers, Work(c)
      PROVE  [MP!AnyRecord]_(MP!metricsVars)
  <2> DEFINE a == req[c].agent
             t == [original |-> ShapeOf(c).original, optimized |-> ShapeOf(c).optimized]
             p == req[c].endpoint
  <2>1. pc[c] # "idle" => a \in Agents /\ p \in Endpoints /\ req[c].body \in Bodies
    BY Asking
  <2>2. CASE Record(c)
    <3>1. MP!CountRequest(c, a, t)
      BY <2>2, SameRecords DEF Record
    <3>2. a \in Agents
         /\ t \in {[original |-> Shape[b].original, optimized |-> Shape[b].optimized]
                    : b \in Bodies}
      BY <2>1, <2>2 DEF Record, At, ShapeOf
    <3> QED
      BY <3>1, <3>2 DEF MP!AnyRecord
  <2>3. CASE CacheHit(c)
    <3>1. MP!CountHit(c, a) /\ a \in Agents
      BY <2>1, <2>3, SameRecords DEF CacheHit, At
    <3> QED
      BY <3>1 DEF MP!AnyRecord
  <2>4. CASE CacheMiss(c)
    <3>1. MP!CountMiss(c, a) /\ a \in Agents
      BY <2>1, <2>4, SameRecords DEF CacheMiss, At
    <3> QED
      BY <3>1 DEF MP!AnyRecord
  <2>5. CASE Optimize(c)
    <3>1. MP!RecordOptimizeDuration(c, a) /\ a \in Agents
      BY <2>1, <2>5, SameRecords DEF Optimize, At
    <3> QED
      BY <3>1 DEF MP!AnyRecord
  <2>6. CASE Latency(c)
    <3>1. MP!RecordProviderLatency(c, p) /\ p \in Endpoints
      BY <2>1, <2>6, SameRecords DEF Latency, At
    <3> QED
      BY <3>1 DEF MP!AnyRecord
  <2>7. CASE RecordSaved(c) \/ RecordPanics(c) \/ Aggregate(c) \/ ServeHit(c)
    <3>1. \/ MP!CountSaved(c) \/ MP!SavedPanics(c)
          \/ MP!AggregateRequest(c) \/ MP!AggregateHit(c)
      BY <2>7, SameRecords DEF RecordSaved, RecordPanics, Aggregate, ServeHit
    <3> QED
      BY <3>1 DEF MP!AnyRecord
  <2>8. CASE BadRequest(c) \/ Parse(c) \/ Lookup(c) \/ RebuildPanics(c) \/ Forward(c)
             \/ ForwardPanics(c) \/ Stamp(c) \/ Store(c)
    BY <2>8 DEF BadRequest, Parse, Lookup, RebuildPanics, Forward, ForwardPanics, Stamp,
                Store, metricsVars, MP!metricsVars
  <2> QED
    BY <1>1, <2>2, <2>3, <2>4, <2>5, <2>6, <2>7, <2>8 DEF Work
<1>2. ASSUME NEW c \in Handlers, Receive(c) \/ Provider(c)
      PROVE  UNCHANGED MP!metricsVars
  BY <1>2 DEF Receive, Provider, Upstream, Unreachable, CutShort, metricsVars, MP!metricsVars
<1>3. CASE Flush \/ ReportAgents \/ ReportCache \/ Tick \/ UNCHANGED vars
  BY <1>3 DEF Flush, ReportAgents, ReportCache, Tick, vars, metricsVars, MP!metricsVars
<1> QED
  BY <1>1, <1>2, <1>3 DEF Next

(* ... and so it is to the cache.                                          *)
LEMMA CacheStep ==
  ASSUME SharingInv, [Next]_vars
  PROVE  [CP!AnyCall]_(CP!cacheVars)
<1>1. ASSUME NEW c \in Handlers, Lookup(c)
      PROVE  CP!AnyCall
  <2>1. CP!Get(c, req[c].body) /\ req[c].body \in Bodies
    BY <1>1, Asking, SameCalls DEF Lookup, At, HashKey
  <2> QED
    BY <2>1 DEF CP!AnyCall
<1>2. ASSUME NEW c \in Handlers, Stamp(c)
      PROVE  CP!AnyCall
  <2>1. CP!Stamp(c, req[c].body, reply[c].response, 0) /\ req[c].body \in Bodies
    BY <1>2, Asking, SameCalls DEF Stamp, At, HashKey
  <2>2. reply[c].response \in Response
    BY <1>2 DEF Stamp, At, SharingInv, HandlerSound
  <2> QED
    BY <2>1, <2>2 DEF CP!AnyCall
<1>3. ASSUME NEW c \in Handlers, Store(c)
      PROVE  CP!AnyCall
  <2>1. CP!Store(c)
    BY <1>3, SameCalls DEF Store
  <2> QED
    BY <2>1 DEF CP!AnyCall
<1>4. ASSUME NEW c \in Handlers, Receive(c) \/ Plain(c) \/ Latency(c) \/ Upstream(c)
                                 \/ Unreachable(c)
      PROVE  UNCHANGED CP!cacheVars
  BY <1>4 DEF Plain, Receive, BadRequest, Parse, CacheHit, ServeHit, CacheMiss, Optimize,
         RebuildPanics, Record, RecordSaved, RecordPanics, Aggregate, Forward,
         ForwardPanics, CutShort, Latency, Upstream, Unreachable, cacheVars, CP!cacheVars
<1>5. CASE Flush \/ Tick
  <2>1. CP!Flush \/ CP!Tick
    BY <1>5, SameCalls DEF Flush, Tick
  <2> QED
    BY <2>1 DEF CP!AnyCall
<1>6. CASE ReportAgents \/ ReportCache \/ UNCHANGED vars
  BY <1>6 DEF ReportAgents, ReportCache, vars, cacheVars, CP!cacheVars
<1> QED
  BY <1>1, <1>2, <1>3, <1>4, <1>5, <1>6 DEF Next, Work, Provider, Plain

-----------------------------------------------------------------------------
(* The pipeline's own variables.                                           *)
PipelineTypes ==
  /\ pc \in [Handlers -> Steps]
  /\ reply \in [Handlers -> Reply \cup Refusal \cup {NoReply}]
  /\ parsed \in [Agents -> Nat]
  /\ flushes \in Nat
  /\ reports \in Nat
  /\ report = [f \in {"stage", "agents", "cache"} |-> report[f]]
  /\ report.stage \in {"none", "agents", "sent"}

LEMMA PcStep ==
  ASSUME PipelineTypes, NEW c \in Handlers, Receive(c) \/ Work(c) \/ Provider(c)
  PROVE  pc' \in [Handlers -> Steps]
<1>1. \E s \in Steps : pc' = [pc EXCEPT ![c] = s]
  BY DEF Receive, Work, Provider, BadRequest, Parse, Lookup, CacheHit, ServeHit, CacheMiss,
         Optimize, RebuildPanics, Record, RecordSaved, RecordPanics, Aggregate, Forward,
         ForwardPanics, Latency, Stamp, Store, Upstream, Unreachable, CutShort, CutEnds,
         Dropped, GoTo, AfterParse, AfterLatency, Steps
<1> QED
  BY <1>1 DEF PipelineTypes

LEMMA ReplyStep ==
  ASSUME SharingInv, PipelineTypes, NEW c \in Handlers,
         Receive(c) \/ Work(c) \/ Provider(c)
  PROVE  reply' \in [Handlers -> Reply \cup Refusal \cup {NoReply}]
<1>1. ASSUME NEW k \in {"bad_request", "unreachable", "dropped"}, Send(c, k, NoResponse)
      PROVE  reply' \in [Handlers -> Reply \cup Refusal \cup {NoReply}]
  BY <1>1 DEF Send, Refusal, PipelineTypes
<1>2. ASSUME NEW k \in {"hit", "relayed"}, NEW r \in Response, Send(c, k, r)
      PROVE  reply' \in [Handlers -> Reply \cup Refusal \cup {NoReply}]
  BY <1>2 DEF Send, Reply, PipelineTypes
<1>3. CASE Receive(c)
  BY <1>3 DEF Receive, PipelineTypes
<1>4. CASE Refused(c)
  BY <1>1, <1>4 DEF Refused, BadRequest, RebuildPanics, RecordPanics, ForwardPanics,
     CutShort, Unreachable, CutEnds, Dropped
<1>5. CASE ServeHit(c)
  <2>1. got[c].entry.response \in Response
    BY <1>5 DEF ServeHit, At, SharingInv, HandlerSound, Holding
  <2> QED
    BY <1>2, <1>5, <2>1 DEF ServeHit
<1>6. CASE Upstream(c)
  <2>1. req[c] \in Request
    BY <1>6, Asking DEF Upstream, At
  <2>2. ProviderAnswers(req[c]) \subseteq Response
    <3> SUFFICES ASSUME NEW o \in BOOLEAN
                 PROVE  [endpoint |-> req[c].endpoint, body |-> req[c].body,
                         ok |-> o, complete |-> TRUE] \in Response
      BY DEF ProviderAnswers
    <3>1. req[c].endpoint \in Endpoints /\ req[c].body \in Bodies
      BY <2>1 DEF Request
    <3> QED
      BY <3>1 DEF Response
  <2> QED
    BY <1>2, <1>6, <2>2 DEF Upstream
<1>7. CASE Silent(c) \/ Lookup(c) \/ Latency(c) \/ Stamp(c) \/ Store(c)
  BY <1>7 DEF Silent, Parse, Lookup, CacheHit, CacheMiss, Optimize, Record, RecordSaved,
     Aggregate, Forward, Latency, Stamp, Store, PipelineTypes
<1> QED
  BY <1>3, <1>4, <1>5, <1>6, <1>7 DEF Work, Provider, Refused, Silent

LEMMA OwnTypes ==
  ASSUME SharingInv, PipelineTypes, [Next]_vars
  PROVE  PipelineTypes'
<1>1. ASSUME NEW c \in Handlers, Receive(c) \/ Work(c) \/ Provider(c)
      PROVE  PipelineTypes'
  <2>1. UNCHANGED <<flushes, reports, report>>
    BY <1>1 DEF Receive, Work, Provider, BadRequest, Parse, Lookup, CacheHit, ServeHit,
       CacheMiss, Optimize, RebuildPanics, Record, RecordSaved, RecordPanics, Aggregate,
       Forward, ForwardPanics, Latency, Stamp, Store, Upstream, Unreachable, CutShort,
       historyVars
  <2>2. parsed' \in [Agents -> Nat]
    <3>1. CASE Parse(c)
      <4>1. req[c].agent \in Agents
        BY <3>1, Asking DEF Parse, At
      <4> QED
        BY <3>1, <4>1 DEF Parse, PipelineTypes
    <3>2. CASE ~Parse(c)
      BY <1>1, <3>2 DEF Receive, Work, Provider, BadRequest, Lookup, CacheHit, ServeHit,
         CacheMiss, Optimize, RebuildPanics, Record, RecordSaved, RecordPanics, Aggregate,
         Forward, ForwardPanics, Latency, Stamp, Store, Upstream, Unreachable, CutShort,
         historyVars, PipelineTypes
    <3> QED
      BY <3>1, <3>2
  <2> QED
    BY <1>1, <2>1, <2>2, PcStep, ReplyStep DEF PipelineTypes
<1>2. CASE Flush
  BY <1>2 DEF Flush, handlerVars, PipelineTypes
<1>3. CASE ReportAgents
  <2>1. report' = [stage |-> "agents", agents |-> agentStats, cache |-> NoReport.cache]
    BY <1>3 DEF ReportAgents, NoReport
  <2>2. /\ report' = [f \in {"stage", "agents", "cache"} |-> report'[f]]
        /\ report'.stage = "agents"
    BY <2>1
  <2> QED
    BY <1>3, <2>2 DEF ReportAgents, handlerVars, PipelineTypes
<1>4. CASE ReportCache
  BY <1>4 DEF ReportCache, handlerVars, historyVars, PipelineTypes
<1>5. CASE Tick \/ UNCHANGED vars
  BY <1>5 DEF Tick, vars, handlerVars, historyVars, PipelineTypes
<1> QED
  BY <1>1, <1>2, <1>3, <1>4, <1>5 DEF Next

(* Everything the pipeline's state is known to satisfy.                    *)
GatewayInv == SharingInv /\ PipelineTypes /\ MP!TypeInv /\ CP!CacheTypeOK

LEMMA GatewayInit == Init => GatewayInv
<1> SUFFICES ASSUME Init
             PROVE  GatewayInv
  OBVIOUS
<1>1. MP!TypeInv
  BY DEF Init, Metrics!MetricsInit, MP!TypeInv, MP!MetricsTypeOK, MP!AggregatesOnlyGains,
         Metrics!Counters, MP!Counters
<1>2. CP!CacheTypeOK
  BY DEF Init, CP!Entry, Cache!CacheInit, CP!CacheTypeOK
<1>3. PipelineTypes
  BY DEF Init, PipelineTypes, NoReport, Steps
<1> QED
  BY <1>1, <1>2, <1>3, SharingInit DEF GatewayInv

LEMMA GatewayStep == GatewayInv /\ [Next]_vars => GatewayInv'
BY SharingStep, OwnTypes, CollectorStep, CollectorKeepsTypes, CacheStep, CacheKeepsTypes
   DEF GatewayInv

LEMMA GatewayInvariant == Spec => []GatewayInv
BY GatewayInit, GatewayStep, PTL DEF Spec

(* Type correctness of the pipeline and of the parts it is built from.     *)
THEOREM GatewayTypeCorrect == Spec => []GatewayTypeOK
<1>1. GatewayInv => GatewayTypeOK
  <2> SUFFICES ASSUME GatewayInv
               PROVE  GatewayTypeOK
    OBVIOUS
  <2>1. req \in [Handlers -> Request \cup {NoRequest}]
    BY DEF GatewayInv, SharingInv, CachingInv, Shaped, HandlerSound
  <2>2. Cache!CacheTypeOK
    BY DEF GatewayInv, Cache!CacheTypeOK, CP!CacheTypeOK, Cache!Entry, CP!Entry
  <2>3. Metrics!MetricsTypeOK
    BY DEF GatewayInv, MP!TypeInv, MP!MetricsTypeOK, Metrics!MetricsTypeOK,
           MP!Counters, Metrics!Counters, MP!AgentStats, Metrics!AgentStats,
           MP!Call, Metrics!Call, MP!Tokens, Metrics!Tokens
  <2> QED
    BY <2>1, <2>2, <2>3 DEF GatewayInv, PipelineTypes, GatewayTypeOK
<1> QED
  BY <1>1, GatewayInvariant, PTL

-----------------------------------------------------------------------------
(* The count of requests.  A step moves at most one handler into or out of *)
(* the set of those that have parsed a request and not yet counted it, and *)
(* changes the counters by as much.                                        *)
Underway == {"lookup", "hit", "miss", "optimize"}

UnderwayOf(a) == {c \in Handlers : pc[c] \in Underway /\ req[c].agent = a}

Counted(a) == prom[a].hits + prom[a].durations

AccountOf(a) == parsed[a] = Counted(a) + Cardinality(UnderwayOf(a))

Accounts == \A a \in Agents : AccountOf(a)

LEMMA AccountsAreRequests == EveryRequestAccounted <=> Accounts
<1>1. \A a \in Agents : InAgent(a, Underway) = Cardinality(UnderwayOf(a))
  BY DEF InAgent, UnderwayOf
<1>2. \A a \in Agents : AccountOf(a) <=> parsed[a] = prom[a].hits + prom[a].durations
                                                  + InAgent(a, Underway)
  BY <1>1 DEF AccountOf, Counted
<1> QED
  BY <1>2 DEF EveryRequestAccounted, Accounts, Underway

LEMMA UnderwayIsFinite ==
  ASSUME NEW a
  PROVE  IsFiniteSet(UnderwayOf(a)) /\ Cardinality(UnderwayOf(a)) \in Nat
<1>1. UnderwayOf(a) \subseteq Handlers
  BY DEF UnderwayOf
<1> QED
  BY <1>1, CollectorAssumed, FS_Subset, FS_CardinalityType

LEMMA CountsType ==
  ASSUME GatewayInv, NEW a \in Agents
  PROVE  parsed[a] \in Nat /\ prom[a] \in [MP!Counters -> Nat]
         /\ prom[a].hits \in Nat /\ prom[a].durations \in Nat
BY DEF GatewayInv, PipelineTypes, MP!TypeInv, MP!MetricsTypeOK, MP!Counters

(* A handler moves and keeps its request.                                  *)
LEMMA StaysOutside ==
  ASSUME GatewayInv, NEW c \in Handlers, NEW s, pc' = [pc EXCEPT ![c] = s],
         \A h \in Handlers \ {c} : req'[h] = req[h],
         pc[c] \notin Underway, s \notin Underway, NEW a
  PROVE  UnderwayOf(a)' = UnderwayOf(a)
<1>1. \A h \in Handlers : pc'[h] = IF h = c THEN s ELSE pc[h]
  BY DEF GatewayInv, SharingInv, CachingInv, Shaped
<1> QED
  BY <1>1 DEF UnderwayOf

LEMMA StaysInside ==
  ASSUME GatewayInv, NEW c \in Handlers, NEW s, pc' = [pc EXCEPT ![c] = s], req' = req,
         pc[c] \in Underway, s \in Underway, NEW a
  PROVE  UnderwayOf(a)' = UnderwayOf(a)
<1>1. \A h \in Handlers : pc'[h] = IF h = c THEN s ELSE pc[h]
  BY DEF GatewayInv, SharingInv, CachingInv, Shaped
<1> QED
  BY <1>1 DEF UnderwayOf

LEMMA Enters ==
  ASSUME GatewayInv, NEW c \in Handlers, NEW s, pc' = [pc EXCEPT ![c] = s], req' = req,
         pc[c] \notin Underway, s \in Underway, NEW a
  PROVE  Cardinality(UnderwayOf(a)') =
           Cardinality(UnderwayOf(a)) + IF req[c].agent = a THEN 1 ELSE 0
<1>1. \A h \in Handlers : pc'[h] = IF h = c THEN s ELSE pc[h]
  BY DEF GatewayInv, SharingInv, CachingInv, Shaped
<1>2. CASE req[c].agent = a
  <2>1. UnderwayOf(a)' = UnderwayOf(a) \cup {c} /\ c \notin UnderwayOf(a)
    BY <1>1, <1>2 DEF UnderwayOf
  <2> QED
    BY <1>2, <2>1, UnderwayIsFinite, FS_AddElement
<1>3. CASE req[c].agent # a
  <2>1. UnderwayOf(a)' = UnderwayOf(a)
    BY <1>1, <1>3 DEF UnderwayOf
  <2> QED
    BY <1>3, <2>1, UnderwayIsFinite
<1> QED
  BY <1>2, <1>3

LEMMA Leaves ==
  ASSUME GatewayInv, NEW c \in Handlers, NEW s, pc' = [pc EXCEPT ![c] = s], req' = req,
         pc[c] \in Underway, s \notin Underway, NEW a
  PROVE  Cardinality(UnderwayOf(a)) =
           Cardinality(UnderwayOf(a)') + IF req[c].agent = a THEN 1 ELSE 0
<1>1. \A h \in Handlers : pc'[h] = IF h = c THEN s ELSE pc[h]
  BY DEF GatewayInv, SharingInv, CachingInv, Shaped
<1>2. CASE req[c].agent = a
  <2>1. UnderwayOf(a)' = UnderwayOf(a) \ {c} /\ c \in UnderwayOf(a)
    BY <1>1, <1>2 DEF UnderwayOf
  <2>2. /\ Cardinality(UnderwayOf(a) \ {c}) = Cardinality(UnderwayOf(a)) - 1
        /\ Cardinality(UnderwayOf(a)) \in Nat
    BY <2>1, UnderwayIsFinite, FS_RemoveElement
  <2> QED
    BY <1>2, <2>1, <2>2
<1>3. CASE req[c].agent # a
  <2>1. UnderwayOf(a)' = UnderwayOf(a)
    BY <1>1, <1>3 DEF UnderwayOf
  <2> QED
    BY <1>3, <2>1, UnderwayIsFinite
<1> QED
  BY <1>2, <1>3

(* Steps that leave both counters alone.                                   *)
Uncounted(c) ==
  (Receive(c) \/ Provider(c) \/ Work(c)) /\ ~CacheHit(c) /\ ~Optimize(c)

LEMMA CountersAlone ==
  ASSUME GatewayInv, NEW c \in Handlers, Uncounted(c), NEW a \in Agents
  PROVE  prom'[a].hits = prom[a].hits /\ prom'[a].durations = prom[a].durations
<1> DEFINE d == req[c].agent
<1>1. prom \in [Agents -> [MP!Counters -> Nat]]
  BY DEF GatewayInv, MP!TypeInv, MP!MetricsTypeOK
<1>2. CASE Record(c)
  <2> DEFINE t == [original |-> ShapeOf(c).original, optimized |-> ShapeOf(c).optimized]
  <2>1. prom' = [prom EXCEPT ![d] = Metrics!Counted(@, t)]
    BY <1>2 DEF Record, Metrics!CountRequest
  <2>2. /\ Metrics!Counted(prom[a], t)["hits"] = prom[a]["hits"]
        /\ Metrics!Counted(prom[a], t)["durations"] = prom[a]["durations"]
    BY <1>1 DEF Metrics!Counted, MP!Counters
  <2> HIDE DEF t
  <2> QED
    BY <1>1, <2>1, <2>2
<1>3. CASE RecordSaved(c)
  <2>1. \E g, v : prom' = [prom EXCEPT ![g]["saved"] = @ + v]
    BY <1>3 DEF RecordSaved, Metrics!CountSaved, Metrics!Bump
  <2> QED
    BY <1>1, <2>1
<1>4. CASE CacheMiss(c)
  <2>1. prom' = [prom EXCEPT ![d]["misses"] = @ + 1]
    BY <1>4 DEF CacheMiss, Metrics!CountMiss, Metrics!Bump
  <2> QED
    BY <1>1, <2>1
<1>5. CASE ~(Record(c) \/ RecordSaved(c) \/ CacheMiss(c))
  <2>1. prom' = prom
    BY <1>5 DEF Uncounted, Receive, Work, Provider, BadRequest, Parse, Lookup, ServeHit,
       RebuildPanics, RecordPanics, Aggregate, Forward, ForwardPanics, Latency, Stamp, Store,
       Upstream, Unreachable, CutShort, metricsVars, Metrics!AggregateHit,
       Metrics!SavedPanics, Metrics!AggregateRequest, Metrics!RecordProviderLatency
  <2> QED
    BY <2>1
<1> QED
  BY <1>2, <1>3, <1>4, <1>5

(* The way in: a request parses.                                           *)
LEMMA ParseCounts ==
  ASSUME GatewayInv, Accounts, NEW c \in Handlers, Parse(c)
  PROVE  Accounts'
<1>1. /\ pc[c] = "parse" /\ req' = req /\ prom' = prom
      /\ pc' = [pc EXCEPT ![c] = AfterParse(c)]
      /\ AfterParse(c) \in Underway
      /\ parsed' = [parsed EXCEPT ![req[c].agent] = @ + 1]
  BY DEF Parse, At, GoTo, AfterParse, Underway, metricsVars
<1>2. SUFFICES ASSUME NEW a \in Agents
               PROVE  AccountOf(a)'
  BY DEF Accounts
<1>3. Cardinality(UnderwayOf(a)') =
        Cardinality(UnderwayOf(a)) + IF req[c].agent = a THEN 1 ELSE 0
  BY <1>1, Enters DEF Underway
<1>4. parsed'[a] = parsed[a] + IF req[c].agent = a THEN 1 ELSE 0
  BY <1>1, CountsType DEF GatewayInv, PipelineTypes
<1> QED
  BY <1>1, <1>3, <1>4, CountsType, UnderwayIsFinite DEF Accounts, AccountOf, Counted

(* The ways out: a hit, or an optimisation.                                *)
LEMMA ExitCounts ==
  ASSUME GatewayInv, Accounts, NEW c \in Handlers, CacheHit(c) \/ Optimize(c)
  PROVE  Accounts'
<1>1. /\ pc[c] \in Underway /\ req' = req /\ parsed' = parsed
      /\ \E s : s \notin Underway /\ pc' = [pc EXCEPT ![c] = s]
  BY DEF CacheHit, Optimize, At, GoTo, Underway, historyVars
<1>2. SUFFICES ASSUME NEW a \in Agents
               PROVE  AccountOf(a)'
  BY DEF Accounts
<1>3. Cardinality(UnderwayOf(a)) =
        Cardinality(UnderwayOf(a)') + IF req[c].agent = a THEN 1 ELSE 0
  BY <1>1, Leaves
<1>4. Counted(a)' = Counted(a) + IF req[c].agent = a THEN 1 ELSE 0
  <2>1. prom \in [Agents -> [MP!Counters -> Nat]]
    BY DEF GatewayInv, MP!TypeInv, MP!MetricsTypeOK
  <2>2. \E x \in {"hits", "durations"} :
          prom' = [prom EXCEPT ![req[c].agent][x] = @ + 1]
    BY DEF CacheHit, Optimize, Metrics!CountHit, Metrics!RecordOptimizeDuration, Metrics!Bump
  <2> QED
    BY <2>1, <2>2, CountsType DEF Counted, MP!Counters
<1>5. Cardinality(UnderwayOf(a)') \in Nat
  <2>1. UnderwayOf(a)' \subseteq Handlers
    BY DEF UnderwayOf
  <2> QED
    BY <2>1, CollectorAssumed, FS_Subset, FS_CardinalityType
<1> QED
  BY <1>1, <1>3, <1>4, <1>5, CountsType, UnderwayIsFinite DEF Accounts, AccountOf, Counted

(* Every other step of a handler.                                          *)
LEMMA OthersCount ==
  ASSUME GatewayInv, Accounts, NEW c \in Handlers, Uncounted(c), ~Parse(c)
  PROVE  Accounts'
<1>1. parsed' = parsed
  BY DEF Uncounted, Receive, Work, Provider, BadRequest, Lookup, ServeHit, CacheMiss,
     RebuildPanics, Record, RecordSaved, RecordPanics, Aggregate, Forward, ForwardPanics,
     Latency, Stamp, Store, Upstream, Unreachable, CutShort, historyVars
<1>2. \A a \in Agents : UnderwayOf(a)' = UnderwayOf(a)
  <2> SUFFICES ASSUME NEW a \in Agents
               PROVE  UnderwayOf(a)' = UnderwayOf(a)
    OBVIOUS
  <2>1. CASE Lookup(c) \/ CacheMiss(c)
    <3>1. /\ pc[c] \in Underway /\ req' = req
          /\ \E s \in Underway : pc' = [pc EXCEPT ![c] = s]
      BY <2>1 DEF Lookup, CacheMiss, At, GoTo, Underway
    <3> QED
      BY <3>1, StaysInside
  <2>2. CASE ~(Lookup(c) \/ CacheMiss(c))
    <3>1. \A h \in Handlers \ {c} : req'[h] = req[h]
      BY <2>2 DEF Uncounted, Receive, Work, Provider, BadRequest, Parse, ServeHit,
         RebuildPanics, Record, RecordSaved, RecordPanics, Aggregate, Forward,
         ForwardPanics, Latency, Stamp, Store, Upstream, Unreachable, CutShort,
         GatewayInv, SharingInv, CachingInv, Shaped
    <3>2. pc[c] \notin Underway
      BY <2>2 DEF Uncounted, Receive, Work, Provider, BadRequest, Parse, ServeHit,
         RebuildPanics, Record, RecordSaved, RecordPanics, Aggregate, Forward,
         ForwardPanics, Latency, Stamp, Store, Upstream, Unreachable, CutShort, At, Underway
    <3>3. \E s : s \notin Underway /\ pc' = [pc EXCEPT ![c] = s]
      BY <2>2 DEF Uncounted, Receive, Work, Provider, BadRequest, Parse, ServeHit,
         RebuildPanics, Record, RecordSaved, RecordPanics, Aggregate, Forward,
         ForwardPanics, Latency, Stamp, Store, Upstream, Unreachable, CutShort,
         CutEnds, Dropped, GoTo, AfterLatency, Underway
    <3> QED
      BY <3>1, <3>2, <3>3, StaysOutside
  <2> QED
    BY <2>1, <2>2
<1> QED
  BY <1>1, <1>2, CountersAlone DEF Accounts, AccountOf, Counted

LEMMA AccountsStep == GatewayInv /\ Accounts /\ [Next]_vars => Accounts'
<1> SUFFICES ASSUME GatewayInv, Accounts, [Next]_vars
             PROVE  Accounts'
  OBVIOUS
<1>1. ASSUME NEW c \in Handlers, Receive(c) \/ Work(c) \/ Provider(c)
      PROVE  Accounts'
  BY <1>1, ParseCounts, ExitCounts, OthersCount DEF Uncounted
<1>2. CASE Flush \/ ReportAgents \/ ReportCache \/ Tick \/ UNCHANGED vars
  <2>1. UNCHANGED <<pc, req, parsed, prom>>
    BY <1>2 DEF Flush, ReportAgents, ReportCache, Tick, vars, handlerVars, historyVars,
       metricsVars
  <2>2. \A a \in Agents : UnderwayOf(a)' = UnderwayOf(a)
    BY <2>1 DEF UnderwayOf
  <2> QED
    BY <2>1, <2>2 DEF Accounts, AccountOf, Counted
<1> QED
  BY <1>1, <1>2 DEF Next

LEMMA AccountsInit == Init => Accounts
<1> SUFFICES ASSUME Init, NEW a \in Agents
             PROVE  AccountOf(a)
  BY DEF Accounts
<1>1. UnderwayOf(a) = {}
  BY DEF Init, UnderwayOf, Underway
<1>2. parsed[a] = 0 /\ prom[a].hits = 0 /\ prom[a].durations = 0
  BY DEF Init, Metrics!MetricsInit, Metrics!Counters
<1> QED
  BY <1>1, <1>2, FS_EmptySet DEF AccountOf, Counted

(* Every request that parses ends up counted, once, as a hit or as an      *)
(* optimisation, however the handlers of any number of agents interleave.  *)
THEOREM EveryRequestIsAccounted == Spec => []EveryRequestAccounted
<1>1. Spec => [](GatewayInv /\ Accounts)
  BY GatewayInvariant, AccountsInit, AccountsStep, PTL DEF Spec
<1> QED
  BY <1>1, AccountsAreRequests, PTL

-----------------------------------------------------------------------------
(* The collector's books, kept by the handlers of the pipeline.            *)

LEMMA CollectorKeepsBooks ==
  MP!TypeInv /\ MP!BooksInv /\ [MP!AnyRecord]_(MP!metricsVars) => MP!BooksInv'
BY MP!BooksStep, CollectorAssumed

LEMMA CollectorOpensBooks == MP!MetricsInit => MP!BooksInv
BY MP!BooksInit, CollectorAssumed

LEMMA BooksInGateway == Spec => []MP!BooksInv
<1>1. Init => MP!BooksInv
  <2>1. Init => MP!MetricsInit
    BY DEF Init, Metrics!MetricsInit, MP!MetricsInit, Metrics!Counters, MP!Counters
  <2> QED
    BY <2>1, CollectorOpensBooks
<1>2. GatewayInv /\ MP!BooksInv /\ [Next]_vars => MP!BooksInv'
  BY CollectorStep, CollectorKeepsBooks DEF GatewayInv
<1> QED
  BY <1>1, <1>2, GatewayInvariant, PTL DEF Spec

LEMMA CollectorKeepsTokens ==
  MP!TypeInv /\ MP!TokensConserved /\ [MP!AnyRecord]_(MP!metricsVars) => MP!TokensConserved'
BY MP!TokensStep, CollectorAssumed

LEMMA CollectorOpensTokens == MP!MetricsInit => MP!TokensConserved
BY MP!TokensInit, CollectorAssumed

LEMMA TokensInGateway == Spec => []MP!TokensConserved
<1>1. Init => MP!TokensConserved
  <2>1. Init => MP!MetricsInit
    BY DEF Init, Metrics!MetricsInit, MP!MetricsInit, Metrics!Counters, MP!Counters
  <2> QED
    BY <2>1, CollectorOpensTokens
<1>2. GatewayInv /\ MP!TokensConserved /\ [Next]_vars => MP!TokensConserved'
  BY CollectorStep, CollectorKeepsTokens DEF GatewayInv
<1> QED
  BY <1>1, <1>2, GatewayInvariant, PTL DEF Spec

LEMMA QuietInGateway ==
  MP!TypeInv /\ MP!BooksInv /\ MP!TokensConserved => Metrics!BooksAgreeWhenQuiet
<1>1. MP!TypeInv /\ MP!BooksInv /\ MP!TokensConserved => MP!BooksAgreeWhenQuiet
  BY MP!ConservedAgree, CollectorAssumed
<1>2. MP!BooksAgreeWhenQuiet => Metrics!BooksAgreeWhenQuiet
  BY DEF MP!BooksAgreeWhenQuiet, Metrics!BooksAgreeWhenQuiet,
         MP!StatsOf, Metrics!StatsOf, MP!FreshStats, Metrics!FreshStats,
         MP!Recording, Metrics!Recording
<1> QED
  BY <1>1, <1>2

(* The collector's laws survive the composition: in the running gateway,   *)
(* whatever panics and whichever handlers are between the two books, the   *)
(* exported request counter of an agent is ahead of its aggregates by just *)
(* those calls, the stats endpoint never reports more hits for it than the *)
(* counter exports, and once its calls are over, none of which panicked,   *)
(* the two agree.                                                          *)
THEOREM GatewayKeepsBooks ==
  Spec => [](/\ Metrics!RequestsConserved
             /\ Metrics!HitsNotOvercounted
             /\ Metrics!BooksAgreeWhenQuiet)
<1>1. MP!BooksInv => Metrics!RequestsConserved
  BY DEF MP!BooksInv, MP!RequestsConserved, Metrics!RequestsConserved,
         MP!StatsOf, Metrics!StatsOf, MP!FreshStats, Metrics!FreshStats,
         MP!Recording, Metrics!Recording, MP!Cardinality, Metrics!Cardinality
<1>2. MP!BooksInv => Metrics!HitsNotOvercounted
  BY DEF MP!BooksInv, MP!HitsNotOvercounted, Metrics!HitsNotOvercounted,
         MP!StatsOf, Metrics!StatsOf, MP!FreshStats, Metrics!FreshStats,
         MP!CountingHit, Metrics!CountingHit, MP!Cardinality, Metrics!Cardinality
<1> QED
  BY <1>1, <1>2, QuietInGateway, BooksInGateway, TokensInGateway, GatewayInvariant, PTL
     DEF GatewayInv

-----------------------------------------------------------------------------
(* The two counts of lookups, the cache's own and the collector's.  They   *)
(* differ by the handlers that stand between the two, and the collector's  *)
(* is a sum over agents, of which a handler changes one summand.           *)
PromTotal(p, x) == Total([a \in Agents |-> p[a][x]], Agents)

Standing(step) == {c \in Handlers : pc[c] = step}

(* The smaller of two counts of the same things, and all of them until     *)
(* somebody flushes.                                                       *)
Behind(count, seen) == count <= seen /\ (flushes = 0 => count = seen)

HitsSeen == PromTotal(prom, "hits") + Cardinality(Standing("hit"))
MissesSeen == PromTotal(prom, "misses") + Cardinality(Standing("miss"))

HitsAgree == Behind(hits, HitsSeen)

MissesAgree == config.enabled /\ Cache!InMemory => Behind(misses, MissesSeen)

(* The stub has no counters: Stats reports zeros for it.                   *)
RedisCountsNothing == ~Cache!InMemory => hits = 0

LookupsAgree == HitsAgree /\ MissesAgree /\ RedisCountsNothing

Proms == [Agents -> [MP!Counters -> Nat]]

LEMMA PromTotalType ==
  ASSUME NEW p \in Proms, NEW x \in MP!Counters
  PROVE  /\ [a \in Agents |-> p[a][x]] \in [Agents -> Int]
         /\ PromTotal(p, x) \in Int
<1>1. [a \in Agents |-> p[a][x]] \in [Agents -> Int]
  BY DEF Proms
<1> QED
  BY <1>1, GatewayAgentsAssumption, TotalType DEF PromTotal

(* One agent's counter goes up by one.                                     *)
LEMMA PromTotalBumped ==
  ASSUME NEW p \in Proms, NEW q \in Proms, NEW x \in MP!Counters, NEW a \in Agents,
         q = [p EXCEPT ![a][x] = @ + 1]
  PROVE  PromTotal(q, x) = PromTotal(p, x) + 1
<1> DEFINE f == [b \in Agents |-> p[b][x]]
           g == [b \in Agents |-> q[b][x]]
<1>1. f \in [Agents -> Int] /\ g \in [Agents -> Int]
  BY PromTotalType
<1>2. /\ \A b \in Agents \ {a} : g[b] = f[b]
      /\ g[a] = f[a] + 1
      /\ f[a] \in Int
  BY DEF Proms
<1>3. Total(f, Agents) \in Int
  BY PromTotalType DEF PromTotal
<1> HIDE DEF f, g
<1>4. Total(g, Agents) = Total(f, Agents) + (g[a] - f[a])
  BY <1>1, <1>2, GatewayAgentsAssumption, TotalMoves
<1>5. Total(g, Agents) = Total(f, Agents) + 1
  BY <1>2, <1>3, <1>4
<1> QED
  BY <1>5 DEF f, g, PromTotal

LEMMA PromTotalSame ==
  ASSUME NEW p, NEW q, NEW x, \A a \in Agents : q[a][x] = p[a][x]
  PROVE  PromTotal(q, x) = PromTotal(p, x)
<1>1. [a \in Agents |-> p[a][x]] = [a \in Agents |-> q[a][x]]
  OBVIOUS
<1> QED
  BY <1>1 DEF PromTotal

LEMMA AgreementIsCounted ==
  ASSUME HitsAgree, MissesAgree
  PROVE  CacheAndMetricsAgree
<1>1. SumOver(LAMBDA a : prom[a].hits, Agents) = PromTotal(prom, "hits")
  BY DEF PromTotal, MapThenSumSet, MapThenFoldSet, Total, SumOver
<1>2. SumOver(LAMBDA a : prom[a].misses, Agents) = PromTotal(prom, "misses")
  BY DEF PromTotal, MapThenSumSet, MapThenFoldSet, Total, SumOver
<1> QED
  BY <1>1, <1>2 DEF CacheAndMetricsAgree, HitsAgree, MissesAgree, Behind, HitsSeen,
                    MissesSeen, Standing, At

LEMMA PromInProms ==
  ASSUME GatewayInv
  PROVE  prom \in Proms /\ hits \in Nat /\ misses \in Nat /\ flushes \in Nat
BY DEF GatewayInv, MP!TypeInv, MP!MetricsTypeOK, Proms, CP!CacheTypeOK, PipelineTypes

LEMMA StandingType ==
  ASSUME NEW s
  PROVE  IsFiniteSet(Standing(s)) /\ Cardinality(Standing(s)) \in Nat
<1>1. Standing(s) \subseteq Handlers
  BY DEF Standing
<1> QED
  BY <1>1, CollectorAssumed, FS_Subset, FS_CardinalityType

LEMMA StandingSame ==
  ASSUME GatewayInv, NEW c \in Handlers, NEW s, pc' = [pc EXCEPT ![c] = s],
         NEW t, pc[c] = t <=> s = t
  PROVE  Standing(t)' = Standing(t)
<1>1. \A h \in Handlers : pc'[h] = IF h = c THEN s ELSE pc[h]
  BY DEF GatewayInv, PipelineTypes
<1> QED
  BY <1>1 DEF Standing

LEMMA StandingGains ==
  ASSUME GatewayInv, NEW c \in Handlers, NEW t, pc' = [pc EXCEPT ![c] = t], pc[c] # t
  PROVE  Cardinality(Standing(t)') = Cardinality(Standing(t)) + 1
<1>1. \A h \in Handlers : pc'[h] = IF h = c THEN t ELSE pc[h]
  BY DEF GatewayInv, PipelineTypes
<1>2. Standing(t)' = Standing(t) \cup {c} /\ c \notin Standing(t)
  BY <1>1 DEF Standing
<1> QED
  BY <1>2, StandingType, FS_AddElement

LEMMA StandingLoses ==
  ASSUME GatewayInv, NEW c \in Handlers, NEW s, pc' = [pc EXCEPT ![c] = s],
         NEW t, pc[c] = t, s # t
  PROVE  /\ Cardinality(Standing(t)') = Cardinality(Standing(t)) - 1
         /\ Cardinality(Standing(t)) \in Nat
<1>1. \A h \in Handlers : pc'[h] = IF h = c THEN s ELSE pc[h]
  BY DEF GatewayInv, PipelineTypes
<1>2. Standing(t)' = Standing(t) \ {c} /\ c \in Standing(t)
  BY <1>1 DEF Standing
<1>3. /\ Cardinality(Standing(t) \ {c}) = Cardinality(Standing(t)) - 1
      /\ Cardinality(Standing(t)) \in Nat
  BY <1>2, StandingType, FS_RemoveElement
<1> QED
  BY <1>2, <1>3

(* Two counts that move together stay as far apart as they were.           *)
LEMMA MoveTogether ==
  ASSUME NEW m \in Int, NEW n \in Int, NEW p \in Int, NEW q \in Int, NEW i \in Int,
         NEW j \in Int, n - m = (q - p) + (j - i)
  PROVE  /\ m <= p + i => n <= q + j
         /\ m = p + i => n = q + j
OBVIOUS

(* What has to balance in a step.                                          *)
LEMMA Balance ==
  ASSUME LookupsAgree, config' = config, flushes' = flushes, hits' \in Int,
         ~Cache!InMemory => hits' = hits,
         hits' - hits = (PromTotal(prom', "hits") - PromTotal(prom, "hits"))
                          + (Cardinality(Standing("hit")') - Cardinality(Standing("hit"))),
         config.enabled /\ Cache!InMemory =>
           misses' - misses = (PromTotal(prom', "misses") - PromTotal(prom, "misses"))
                          + (Cardinality(Standing("miss")') - Cardinality(Standing("miss"))),
         hits \in Int, misses \in Int, misses' \in Int,
         PromTotal(prom, "hits") \in Int, PromTotal(prom', "hits") \in Int,
         PromTotal(prom, "misses") \in Int, PromTotal(prom', "misses") \in Int,
         Cardinality(Standing("hit")) \in Int, Cardinality(Standing("hit")') \in Int,
         Cardinality(Standing("miss")) \in Int, Cardinality(Standing("miss")') \in Int
  PROVE  LookupsAgree'
<1>1. HitsAgree'
  <2> DEFINE m == hits
             n == hits'
             p == PromTotal(prom, "hits")
             q == PromTotal(prom', "hits")
             i == Cardinality(Standing("hit"))
             j == Cardinality(Standing("hit")')
  <2>1. m \in Int /\ n \in Int /\ p \in Int /\ q \in Int /\ i \in Int /\ j \in Int
    OBVIOUS
  <2>2. n - m = (q - p) + (j - i)
    OBVIOUS
  <2>3. m <= p + i /\ (flushes = 0 => m = p + i)
    BY DEF LookupsAgree, HitsAgree, Behind, HitsSeen
  <2> HIDE DEF m, n, p, q, i, j
  <2>4. /\ m <= p + i => n <= q + j
        /\ m = p + i => n = q + j
    BY <2>1, <2>2, MoveTogether
  <2>5. n <= q + j /\ (flushes' = 0 => n = q + j)
    BY <2>3, <2>4
  <2> QED
    BY <2>5 DEF n, q, j, HitsAgree, Behind, HitsSeen
<1>2. MissesAgree'
  <2> SUFFICES ASSUME (config.enabled /\ Cache!InMemory)'
               PROVE  Behind(misses, MissesSeen)'
    BY DEF MissesAgree
  <2> DEFINE m == misses
             n == misses'
             p == PromTotal(prom, "misses")
             q == PromTotal(prom', "misses")
             i == Cardinality(Standing("miss"))
             j == Cardinality(Standing("miss")')
  <2>1. config.enabled /\ Cache!InMemory
    BY DEF Cache!InMemory
  <2>2. m \in Int /\ n \in Int /\ p \in Int /\ q \in Int /\ i \in Int /\ j \in Int
    OBVIOUS
  <2>3. n - m = (q - p) + (j - i)
    BY <2>1
  <2>4. m <= p + i /\ (flushes = 0 => m = p + i)
    BY <2>1 DEF LookupsAgree, MissesAgree, Behind, MissesSeen
  <2> HIDE DEF m, n, p, q, i, j
  <2>5. /\ m <= p + i => n <= q + j
        /\ m = p + i => n = q + j
    BY <2>2, <2>3, MoveTogether
  <2>6. n <= q + j /\ (flushes' = 0 => n = q + j)
    BY <2>4, <2>5
  <2> QED
    BY <2>6 DEF n, q, j, Behind, MissesSeen
<1>3. RedisCountsNothing'
  BY DEF LookupsAgree, RedisCountsNothing, Cache!InMemory
<1> QED
  BY <1>1, <1>2, <1>3 DEF LookupsAgree

(* The handler that looks up stands, for a moment, between the two books.  *)
LEMMA LookupAgrees ==
  ASSUME GatewayInv, LookupsAgree, NEW c \in Handlers, Lookup(c)
  PROVE  LookupsAgree'
<1>1. /\ prom' = prom /\ flushes' = flushes /\ config' = config
      /\ PromTotal(prom, "hits") \in Int /\ PromTotal(prom, "misses") \in Int
  BY PromInProms, PromTotalType DEF Lookup, Cache!Get, metricsVars, historyVars, MP!Counters
<1>2. got'[c].entry = NoEntry \/ got'[c].entry # NoEntry
  OBVIOUS
<1>3. \A e : Cache!Return(c, HashKey(req[c]), e) => got'[c].entry = e
  BY DEF Cache!Return, GatewayInv, CP!CacheTypeOK
<1>4. pc[c] = "lookup" /\ GoTo(c, IF got'[c].entry = NoEntry THEN "miss" ELSE "hit")
  BY DEF Lookup, At
<1>5. CASE Cache!GetLive(c, HashKey(req[c])) /\ config.enabled /\ Cache!InMemory
  <2>1. hits' = hits + 1 /\ misses' = misses /\ pc' = [pc EXCEPT ![c] = "hit"]
    BY <1>3, <1>4, <1>5 DEF Cache!GetLive, GoTo
  <2>2. /\ Cardinality(Standing("hit")') = Cardinality(Standing("hit")) + 1
        /\ Standing("miss")' = Standing("miss")
    BY <1>4, <2>1, StandingGains, StandingSame
  <2> QED
    BY <1>1, <1>5, <2>1, <2>2, PromInProms, StandingType, Balance
<1>6. CASE /\ config.enabled /\ Cache!InMemory
           /\ \/ Cache!GetAbsent(c, HashKey(req[c]))
              \/ Cache!GetExpired(c, HashKey(req[c]))
  <2>1. hits' = hits /\ misses' = misses + 1 /\ pc' = [pc EXCEPT ![c] = "miss"]
    BY <1>3, <1>4, <1>6 DEF Cache!GetAbsent, Cache!GetExpired, Cache!ExpiredMisses, GoTo
  <2>2. /\ Cardinality(Standing("miss")') = Cardinality(Standing("miss")) + 1
        /\ Standing("hit")' = Standing("hit")
    BY <1>4, <2>1, StandingGains, StandingSame
  <2> QED
    BY <1>1, <1>6, <2>1, <2>2, PromInProms, StandingType, Balance
<1>7. CASE Cache!GetNothing(c, HashKey(req[c])) /\ ~(config.enabled /\ Cache!InMemory)
  <2>1. hits' = hits /\ pc' = [pc EXCEPT ![c] = "miss"]
    BY <1>3, <1>4, <1>7 DEF Cache!GetNothing, GoTo
  <2>2. Standing("hit")' = Standing("hit")
    <3>1. \A h \in Handlers : pc'[h] = "hit" <=> pc[h] = "hit"
      BY <1>4, <2>1 DEF GatewayInv, PipelineTypes
    <3> QED
      BY <3>1 DEF Standing
  <2> QED
    BY <1>1, <1>7, <2>1, <2>2
       DEF LookupsAgree, HitsAgree, MissesAgree, Behind, HitsSeen, MissesSeen,
           RedisCountsNothing, Cache!InMemory
<1> QED
  BY <1>5, <1>6, <1>7 DEF Lookup, Cache!Get

(* The handler that records what it found stands there no longer.          *)
LEMMA RecordedAgrees ==
  ASSUME GatewayInv, LookupsAgree, NEW c \in Handlers, CacheHit(c) \/ CacheMiss(c)
  PROVE  LookupsAgree'
<1> DEFINE a == req[c].agent
<1>1. /\ hits' = hits /\ misses' = misses /\ flushes' = flushes /\ config' = config
      /\ a \in Agents
  BY Asking DEF CacheHit, CacheMiss, At, cacheVars, historyVars, GatewayInv
<1>2. prom \in Proms /\ hits \in Nat /\ misses \in Nat
  BY PromInProms
<1>3. /\ PromTotal(prom, "hits") \in Int /\ PromTotal(prom, "misses") \in Int
  BY <1>2, PromTotalType DEF MP!Counters
<1>4. CASE CacheHit(c)
  <2>1. /\ pc[c] = "hit" /\ pc' = [pc EXCEPT ![c] = "serve"]
        /\ prom' = [prom EXCEPT ![a]["hits"] = @ + 1]
    BY <1>4 DEF CacheHit, At, GoTo, Metrics!CountHit, Metrics!Bump
  <2>2. Cardinality(Standing("hit")') = Cardinality(Standing("hit")) - 1
    BY <2>1, StandingLoses
  <2>8. Standing("miss")' = Standing("miss")
    BY <2>1, StandingSame, ZenonT(60)
  <2>3. prom' \in Proms
    BY <1>1, <1>2, <2>1 DEF Proms, MP!Counters
  <2>4. PromTotal(prom', "hits") = PromTotal(prom, "hits") + 1
    BY <1>1, <1>2, <2>1, <2>3, PromTotalBumped DEF MP!Counters
  <2>5. \A b \in Agents : prom'[b]["misses"] = prom[b]["misses"]
    BY <1>1, <1>2, <2>1 DEF Proms, MP!Counters
  <2>6. PromTotal(prom', "misses") = PromTotal(prom, "misses")
    BY <2>5, PromTotalSame
  <2>9. PromTotal(prom', "hits") \in Int /\ PromTotal(prom', "misses") \in Int
    BY <1>3, <2>4, <2>6
  <2>7. Cardinality(Standing("hit")') \in Int
    BY <2>2, StandingType
  <2> QED
    BY <1>1, <1>2, <1>3, <2>2, <2>4, <2>6, <2>7, <2>8, <2>9, StandingType, Balance
<1>5. CASE CacheMiss(c)
  <2>1. /\ pc[c] = "miss" /\ pc' = [pc EXCEPT ![c] = "optimize"]
        /\ prom' = [prom EXCEPT ![a]["misses"] = @ + 1]
    BY <1>5 DEF CacheMiss, At, GoTo, Metrics!CountMiss, Metrics!Bump
  <2>2. Cardinality(Standing("miss")') = Cardinality(Standing("miss")) - 1
    BY <2>1, StandingLoses
  <2>8. Standing("hit")' = Standing("hit")
    BY <2>1, StandingSame, ZenonT(60)
  <2>3. prom' \in Proms
    BY <1>1, <1>2, <2>1 DEF Proms, MP!Counters
  <2>4. PromTotal(prom', "misses") = PromTotal(prom, "misses") + 1
    BY <1>1, <1>2, <2>1, <2>3, PromTotalBumped DEF MP!Counters
  <2>5. \A b \in Agents : prom'[b]["hits"] = prom[b]["hits"]
    BY <1>1, <1>2, <2>1 DEF Proms, MP!Counters
  <2>6. PromTotal(prom', "hits") = PromTotal(prom, "hits")
    BY <2>5, PromTotalSame
  <2>9. PromTotal(prom', "hits") \in Int /\ PromTotal(prom', "misses") \in Int
    BY <1>3, <2>4, <2>6
  <2>7. Cardinality(Standing("miss")') \in Int
    BY <2>2, StandingType
  <2> QED
    BY <1>1, <1>2, <1>3, <2>2, <2>4, <2>6, <2>7, <2>8, <2>9, StandingType, Balance
<1> QED
  BY <1>4, <1>5

(* Every other step of a handler.                                          *)
LEMMA OthersAgree ==
  ASSUME GatewayInv, LookupsAgree, NEW c \in Handlers, Receive(c) \/ Work(c) \/ Provider(c),
         ~Lookup(c), ~CacheHit(c), ~CacheMiss(c)
  PROVE  LookupsAgree'
<1>1. /\ hits' = hits /\ misses' = misses /\ flushes' = flushes /\ config' = config
  BY DEF Receive, Work, Provider, BadRequest, Parse, ServeHit, Optimize,
     RebuildPanics, Record, RecordSaved, RecordPanics, Aggregate, Forward, ForwardPanics,
     Latency, Stamp, Store, Upstream, Unreachable, CutShort, historyVars, cacheVars,
     Cache!Stamp, Cache!Store
<1>2. \E s : s \notin {"hit", "miss"} /\ pc' = [pc EXCEPT ![c] = s]
  BY DEF Receive, Work, Provider, BadRequest, Parse, ServeHit, Optimize,
     RebuildPanics, Record, RecordSaved, RecordPanics, Aggregate, Forward, ForwardPanics,
     Latency, Stamp, Store, Upstream, Unreachable, CutShort,
     CutEnds, Dropped, GoTo, AfterLatency, AfterParse
<1>3. pc[c] \notin {"hit", "miss"}
  BY DEF Receive, Work, Provider, BadRequest, Parse, ServeHit, Optimize,
     RebuildPanics, Record, RecordSaved, RecordPanics, Aggregate, Forward, ForwardPanics,
     Latency, Stamp, Store, Upstream, Unreachable, CutShort, At
<1>4. Standing("hit")' = Standing("hit") /\ Standing("miss")' = Standing("miss")
  BY <1>2, <1>3, StandingSame, ZenonT(60)
<1>5. \A a \in Agents : prom'[a]["hits"] = prom[a]["hits"] /\ prom'[a]["misses"] = prom[a]["misses"]
  <2>1. prom \in [Agents -> [MP!Counters -> Nat]]
    BY PromInProms DEF Proms
  <2>2. CASE Record(c)
    <3> DEFINE t == [original |-> ShapeOf(c).original, optimized |-> ShapeOf(c).optimized]
               d == req[c].agent
    <3>1. prom' = [prom EXCEPT ![d] = Metrics!Counted(@, t)]
      BY <2>2 DEF Record, Metrics!CountRequest
    <3>2. \A a \in Agents : /\ Metrics!Counted(prom[a], t)["hits"] = prom[a]["hits"]
                            /\ Metrics!Counted(prom[a], t)["misses"] = prom[a]["misses"]
      BY <2>1 DEF Metrics!Counted, MP!Counters
    <3> HIDE DEF t, d
    <3> QED
      BY <2>1, <3>1, <3>2
  <2>3. CASE RecordSaved(c) \/ Optimize(c)
    <3>1. \E x \in {"saved", "durations"} : \E g, v : prom' = [prom EXCEPT ![g][x] = @ + v]
      BY <2>3 DEF RecordSaved, Optimize, Metrics!CountSaved, Metrics!RecordOptimizeDuration,
                  Metrics!Bump
    <3> QED
      BY <2>1, <3>1
  <2>4. CASE ~(Record(c) \/ RecordSaved(c) \/ Optimize(c))
    <3>1. prom' = prom
      BY <2>4 DEF Receive, Work, Provider, BadRequest, Parse, Lookup, ServeHit,
         RebuildPanics, RecordPanics, Aggregate, Forward, ForwardPanics, Latency, Stamp, Store,
         Upstream, Unreachable, CutShort, metricsVars, Metrics!AggregateHit,
         Metrics!SavedPanics, Metrics!AggregateRequest, Metrics!RecordProviderLatency
    <3> QED
      BY <3>1
  <2> QED
    BY <2>2, <2>3, <2>4
<1>6. /\ PromTotal(prom', "hits") = PromTotal(prom, "hits")
      /\ PromTotal(prom', "misses") = PromTotal(prom, "misses")
  BY <1>5, PromTotalSame
<1> QED
  BY <1>1, <1>4, <1>6
     DEF LookupsAgree, HitsAgree, MissesAgree, Behind, HitsSeen, MissesSeen,
           RedisCountsNothing, Cache!InMemory

LEMMA AgreeStep == GatewayInv /\ LookupsAgree /\ [Next]_vars => LookupsAgree'
<1> SUFFICES ASSUME GatewayInv, LookupsAgree, [Next]_vars
             PROVE  LookupsAgree'
  OBVIOUS
<1>1. ASSUME NEW c \in Handlers, Receive(c) \/ Work(c) \/ Provider(c)
      PROVE  LookupsAgree'
  BY <1>1, LookupAgrees, RecordedAgrees, OthersAgree
<1>2. CASE Flush
  <2>1. /\ flushes' # 0 /\ config' = config /\ prom' = prom /\ pc' = pc
        /\ ~Cache!InMemory => hits' = hits
        /\ hits' \in {0, hits} /\ misses' \in {0, misses}
    BY <1>2, PromInProms DEF Flush, Cache!Flush, handlerVars, metricsVars
  <2>2. HitsSeen' = HitsSeen /\ MissesSeen' = MissesSeen
    BY <2>1 DEF HitsSeen, MissesSeen, Standing
  <2>3. hits' <= hits /\ misses' <= misses /\ hits \in Int /\ misses \in Int
        /\ hits' \in Int /\ misses' \in Int
    BY <2>1, PromInProms
  <2>4. HitsSeen \in Int /\ MissesSeen \in Int
    BY PromInProms, PromTotalType, StandingType DEF HitsSeen, MissesSeen, MP!Counters
  <2>5. /\ hits <= HitsSeen
        /\ config.enabled /\ Cache!InMemory => misses <= MissesSeen
    BY DEF LookupsAgree, HitsAgree, MissesAgree, Behind
  <2>6. /\ hits' <= HitsSeen'
        /\ config.enabled /\ Cache!InMemory => misses' <= MissesSeen'
    BY <2>2, <2>3, <2>4, <2>5
  <2>7. RedisCountsNothing' /\ (Cache!InMemory)' = Cache!InMemory
    BY <2>1 DEF LookupsAgree, RedisCountsNothing, Cache!InMemory
  <2> QED
    BY <2>1, <2>6, <2>7 DEF LookupsAgree, HitsAgree, MissesAgree, Behind
<1>3. CASE ReportAgents \/ ReportCache \/ Tick \/ UNCHANGED vars
  <2>1. UNCHANGED <<pc, hits, misses, flushes, config, prom>>
    BY <1>3 DEF ReportAgents, ReportCache, Tick, Cache!Tick, vars, handlerVars, historyVars,
       metricsVars, cacheVars
  <2>2. Standing("hit")' = Standing("hit") /\ Standing("miss")' = Standing("miss")
    BY <2>1 DEF Standing
  <2> QED
    BY <2>1, <2>2
       DEF LookupsAgree, HitsAgree, MissesAgree, Behind, HitsSeen, MissesSeen,
           RedisCountsNothing, Cache!InMemory
<1> QED
  BY <1>1, <1>2, <1>3 DEF Next

LEMMA AgreeInit == Init => LookupsAgree
<1> SUFFICES ASSUME Init
             PROVE  LookupsAgree
  OBVIOUS
<1>1. hits = 0 /\ misses = 0
  BY DEF Init, Cache!CacheInit
<1>2. Cardinality(Standing("hit")) = 0 /\ Cardinality(Standing("miss")) = 0
  <2>1. Standing("hit") = {} /\ Standing("miss") = {}
    BY DEF Init, Standing
  <2> QED
    BY <2>1, FS_EmptySet
<1>3. ASSUME NEW x \in {"hits", "misses"}
      PROVE  PromTotal(prom, x) = 0
  <2> DEFINE f == [a \in Agents |-> prom[a][x]]
  <2>1. \A a \in Agents : f[a] = 0
    BY DEF Init, Metrics!MetricsInit, Metrics!Counters
  <2> HIDE DEF f
  <2>2. Total(f, Agents) = 0
    BY <2>1, GatewayAgentsAssumption, TotalZero
  <2> QED
    BY <2>2 DEF f, PromTotal
<1> QED
  BY <1>1, <1>2, <1>3 DEF LookupsAgree, HitsAgree, MissesAgree, Behind, HitsSeen, MissesSeen,
           RedisCountsNothing

LEMMA AgreeInvariant == Spec => [](GatewayInv /\ LookupsAgree)
BY GatewayInvariant, AgreeInit, AgreeStep, PTL DEF Spec

(* The hits and misses of the cache are never more than those the          *)
(* collector exports and the handlers between the two counts, and until    *)
(* somebody flushes they are exactly that.                                 *)
THEOREM CacheAndCollectorAgree == Spec => []CacheAndMetricsAgree
<1>1. LookupsAgree => CacheAndMetricsAgree
  BY AgreementIsCounted DEF LookupsAgree
<1> QED
  BY <1>1, AgreeInvariant, PTL

-----------------------------------------------------------------------------
(* The stats response.  Its cache half is read later than its agent half,  *)
(* and in between the cache's hits can only grow.                          *)

HitsIn(row) == [a \in Agents |-> IF row[a] = NoStats THEN 0 ELSE row[a].hits]

(* Of the report under construction, and of the one sent.                  *)
ReportInv ==
  /\ report.stage = "agents" /\ flushes = 0 =>
       /\ Total(HitsIn(report.agents), Agents) \in Int
       /\ Total(HitsIn(report.agents), Agents) <= hits
  /\ report.stage = "sent" /\ flushes = 0 =>
       Total(HitsIn(report.agents), Agents) <= report.cache.hits

LEMMA ReportInvIsConsistent == ReportInv => ReportConsistent
<1>1. SumOver(LAMBDA a : IF report.agents[a] = NoStats THEN 0
                         ELSE report.agents[a].hits, Agents)
        = Total(HitsIn(report.agents), Agents)
  BY ZenonT(60) DEF HitsIn, MapThenSumSet, MapThenFoldSet, Total, SumOver
<1> QED
  BY <1>1 DEF ReportInv, ReportConsistent

(* What the aggregates hold is in the exported counters, and those hits    *)
(* were counted by the cache first.                                        *)
LEMMA AggregatesBehindCache ==
  ASSUME GatewayInv, LookupsAgree, MP!BooksInv, flushes = 0
  PROVE  /\ Total(HitsIn(agentStats), Agents) \in Int
         /\ Total(HitsIn(agentStats), Agents) <= hits
<1> DEFINE f == HitsIn(agentStats)
           g == [a \in Agents |-> prom[a]["hits"]]
<1>1. f \in [Agents -> Int]
  BY DEF HitsIn, GatewayInv, MP!TypeInv, MP!MetricsTypeOK, MP!AgentStats
<1>2. g \in [Agents -> Int] /\ PromTotal(prom, "hits") \in Int
  BY PromInProms, PromTotalType DEF MP!Counters
<1>3. \A a \in Agents : f[a] <= g[a]
  <2> SUFFICES ASSUME NEW a \in Agents
               PROVE  f[a] <= g[a]
    OBVIOUS
  <2>1. MP!StatsOf(a).hits + MP!Cardinality(MP!CountingHit(a)) <= prom[a].hits
    BY DEF MP!BooksInv, MP!HitsNotOvercounted
  <2>2. MP!Cardinality(MP!CountingHit(a)) \in Nat
    <3>1. MP!CountingHit(a) \subseteq Handlers
      BY DEF MP!CountingHit
    <3>2. Cardinality(MP!CountingHit(a)) \in Nat
      BY <3>1, CollectorAssumed, FS_Subset, FS_CardinalityType
    <3> QED
      BY <3>2 DEF MP!Cardinality, Cardinality
  <2>3. f[a] = MP!StatsOf(a).hits /\ g[a] = prom[a].hits
    BY DEF HitsIn, MP!StatsOf, MP!FreshStats
  <2>4. f[a] \in Int /\ g[a] \in Int
    BY <1>1, <1>2
  <2> HIDE DEF f, g
  <2> QED
    BY <2>1, <2>2, <2>3, <2>4
<1> HIDE DEF f, g
<1>4. Total(f, Agents) <= Total(g, Agents) /\ Total(f, Agents) \in Int
  BY <1>1, <1>2, <1>3, GatewayAgentsAssumption, TotalBelow, TotalType
<1>5. Total(g, Agents) = PromTotal(prom, "hits")
  BY DEF g, PromTotal
<1>6. hits = PromTotal(prom, "hits") + Cardinality(Standing("hit"))
      /\ Cardinality(Standing("hit")) \in Nat /\ hits \in Nat
  BY StandingType, PromInProms DEF LookupsAgree, HitsAgree, Behind, HitsSeen
<1>7. Total(f, Agents) <= hits
  BY <1>2, <1>4, <1>5, <1>6
<1> QED
  BY <1>4, <1>7 DEF f

(* Between two flushes the cache's count of hits only grows.               *)
LEMMA HitsGrow ==
  ASSUME GatewayInv, [Next]_vars
  PROVE  /\ flushes' = flushes \/ flushes' # 0
         /\ flushes' = flushes => hits' \in Int /\ hits' >= hits
<1>1. ASSUME NEW c \in Handlers, Receive(c) \/ Work(c) \/ Provider(c)
      PROVE  flushes' = flushes /\ hits' \in Int /\ hits' >= hits
  <2>1. flushes' = flushes
    BY <1>1 DEF Receive, Work, Provider, BadRequest, Parse, Lookup, CacheHit, ServeHit,
       CacheMiss, Optimize, RebuildPanics, Record, RecordSaved, RecordPanics, Aggregate,
       Forward, ForwardPanics, Latency, Stamp, Store, Upstream, Unreachable, CutShort,
       historyVars
  <2>2. hits' = hits \/ hits' = hits + 1
    BY <1>1 DEF Receive, Work, Provider, BadRequest, Parse, Lookup, CacheHit, ServeHit,
       CacheMiss, Optimize, RebuildPanics, Record, RecordSaved, RecordPanics, Aggregate,
       Forward, ForwardPanics, Latency, Stamp, Store, Upstream, Unreachable, CutShort,
       cacheVars, Cache!Get, Cache!GetAbsent, Cache!GetExpired, Cache!GetLive,
       Cache!GetNothing, Cache!Stamp, Cache!Store
  <2> QED
    BY <2>1, <2>2, PromInProms
<1>2. CASE Flush
  BY <1>2, PromInProms DEF Flush
<1>3. CASE ReportAgents \/ ReportCache \/ Tick \/ UNCHANGED vars
  BY <1>3, PromInProms DEF ReportAgents, ReportCache, Tick, Cache!Tick, vars, historyVars,
     cacheVars
<1> QED
  BY <1>1, <1>2, <1>3 DEF Next

LEMMA ReportStep ==
  GatewayInv /\ LookupsAgree /\ MP!BooksInv /\ ReportInv /\ [Next]_vars => ReportInv'
<1> SUFFICES ASSUME GatewayInv, LookupsAgree, MP!BooksInv, ReportInv, [Next]_vars, flushes' = 0
             PROVE  ReportInv'
  BY DEF ReportInv
<1>1. flushes = 0 /\ hits \in Int /\ hits' \in Int /\ hits' >= hits
  BY HitsGrow, PromInProms
<1>2. CASE ReportAgents
  <2>1. report'.stage = "agents" /\ report'.agents = agentStats /\ hits' = hits
    BY <1>2 DEF ReportAgents, NoReport, cacheVars
  <2> QED
    BY <1>1, <2>1, AggregatesBehindCache DEF ReportInv
<1>3. CASE ReportCache
  <2>1. /\ report.stage = "agents" /\ report' = [report EXCEPT !.stage = "sent", !.cache = Cache!Stats]
    BY <1>3 DEF ReportCache
  <2>2. report = [f \in {"stage", "agents", "cache"} |-> report[f]]
    BY DEF GatewayInv, PipelineTypes
  <2>3. report'.stage = "sent" /\ report'.agents = report.agents /\ report'.cache = Cache!Stats
    BY <2>1, <2>2
  <2>4. Cache!Stats.hits = hits
    BY <1>1 DEF Cache!Stats, LookupsAgree, RedisCountsNothing
  <2> QED
    BY <1>1, <2>1, <2>3, <2>4 DEF ReportInv
<1>4. CASE ~ReportAgents /\ ~ReportCache
  <2>1. report' = report
    BY <1>4 DEF Next, Work, Provider, Receive, BadRequest, Parse, Lookup, CacheHit, ServeHit,
       CacheMiss, Optimize, RebuildPanics, Record, RecordSaved, RecordPanics, Aggregate,
       Forward, ForwardPanics, Latency, Stamp, Store, Upstream, Unreachable, CutShort,
       Flush, Tick, vars
  <2> QED
    BY <1>1, <2>1 DEF ReportInv
<1> QED
  BY <1>2, <1>3, <1>4

(* Until somebody flushes, a stats response never shows agents with more   *)
(* hits between them than the cache had, though handlers run between the   *)
(* two halves of the report.                                               *)
THEOREM ReportsAreConsistent == Spec => []ReportConsistent
<1>1. Init => ReportInv
  BY DEF Init, NoReport, ReportInv
<1>2. Spec => []ReportInv
  BY <1>1, AgreeInvariant, BooksInGateway, ReportStep, PTL DEF Spec
<1> QED
  BY <1>2, ReportInvIsConsistent, PTL

=============================================================================
