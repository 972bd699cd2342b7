# A TLA+ verification project for llm-token-gateway

The gateway is a reverse proxy between coding agents and the APIs of LLM
providers. It answers from a prompt cache when it can, shortens the messages it
forwards, and counts what it saves. This directory holds TLA+ modules that model
its stateful parts, TLC configurations that check them on small instances, and
proofs, checked by TLAPS, that all its safety properties hold for every value of the
constants. `PROJECT.json` is the index: which definition models which lines, what
each run checks, which hazards of the code each property is for, and what was
found.

Paths below are relative to the repository (`internal/...`, `cmd/...`).

## 1. Inventory

| Part | State it keeps | Operations | Called by |
|---|---|---|---|
| Prompt cache, `internal/cache/cache.go` | a map from digest to entry, hit and miss counters, one mutex; default lifetime; enabled flag | `Get`, `Set`, `Delete`, `Flush`, `Stats`, `Close`, on a memory backend or the redis stub | request handlers, stats handler, flush route |
| Request pipeline, `internal/proxy/proxy.go` | nothing of its own beyond the map of reverse proxies; each handler's locals | `handleRequest`, `StatsHandler`; `parseRequest`, `rebuildRequest`; the response recorder | net/http, one goroutine per request |
| Metrics collector, `internal/metrics/metrics.go` | Prometheus vectors (lock-free), `agentStats` (mutex) | five `Record...` methods, `GetAgentStats` | request handlers, stats handler |
| Process, `cmd/gateway/main.go` | where the main goroutine and the signal goroutine are, the http.Server | start-up, `ListenAndServe`, `Shutdown` | the operating system |
| Request codec, `parseRequest` and `rebuildRequest` of `proxy.go` | none; a decoded body per request | decode, add the virtual system message; put messages and system back | the pipeline |
| Optimizer, `internal/optimizer/optimizer.go` | none between requests; it edits the decoded blocks in place | `OptimizeMessages`, `optimizeMessage`, `optimizeText`, `optimizeMixed`, `stripExcessWhitespace`, TOON encoding, `deduplicateToolResults` | the pipeline |
| Classifier, `internal/classifier/classifier.go` | none between texts; position and blobs while it scans | `Classify`, `detectJSONBlobs`, `findMatchingBracket`, `analyzeValue` | the optimizer |
| Middleware, `internal/middleware/middleware.go` | none; a context value per request | `identifyAgent`, logging | net/http |
| Configuration, `internal/config/config.go` | none after loading | `Load`, `validate` | main |

How they interact. A handler goes through these calls in order: cache lookup;
`RecordCacheHit` and reply, or `RecordCacheMiss`; optimizer; `RecordOptimizeDuration`;
rebuild; `RecordRequest`; reverse proxy; `RecordProviderLatency`; cache `Set`.
Handlers share the cache and the collector and nothing else. A stats request
reads the collector, then the cache. A flush clears the cache under the handlers'
feet. A panic in a handler is recovered by net/http, which drops the connection:
what the handler had done to shared state by then stays done.

What is hard here:

* *Concurrency.* `Set` stamps the expiry before it takes the mutex. `RecordRequest`
  and `RecordCacheHit` update two books, one without and one with a lock. The
  stats report is two reads. Two handlers may miss the same key together. Signal,
  `Notify`, `Shutdown` and `ListenAndServe` race.
* *Failure.* Responses cut short, providers that cannot be reached or are not
  configured, bodies that decode to nothing, a counter that panics when asked to
  decrease: each leaves the pipeline at a different point.
* *Time.* Entries expire between lookups; `Shutdown` has 15 seconds.
* *Aliasing.* The deduplication loop changes some messages through a shared map
  and others through a copy.
* *Order of passes.* The optimizer fills in texts that the deduplication then relies
  on, and the deduplication compares what the optimizer made of the texts. The report
  is complete before the deduplication. The codec recognises the system message it
  added by its place and role only.
* *Offsets and two opinions.* Blobs are found in one text and cut out of another
  that is changing. Two functions decide what a table is, and the order of Go's maps
  decides what is written.

What makes each part correct:

* cache: a lookup returns the last entry filed under exactly that key while that lives,
  and nothing otherwise;
* pipeline: each request is answered once; by its own provider's answer, by a
  complete success for the same body, or by an error; every request read is
  eventually answered unless the provider stalls; every request is counted once;
* collector: the books can be reconciled at any moment and agree at rest; exported
  counters never fall;
* process: a signal ends it, a clean exit was asked for, nothing is accepted after
  the listener is closed, requests in flight are not cut;
* deduplication: a marker always points to an earlier copy that is still there;
  nothing else changes; a repeat is replaced; the count is that of the repeats;
* codec: what is sent has the messages that came, in their order, each with its role,
  its form and what it had;
* optimizer: blobs are replaced where they are, nothing between them moves; no text is
  erased; a text grows only where no threshold is applied; plain text keeps its lines;
  the report adds up;
* classifier: every JSON value long enough is found, blobs are in order and disjoint;
  eligibility is a number from 0 to 1, and 1 for what the encoder writes as a table;
* TOON encoder: whatever the order of the maps, a document carries what it was made from.

`PROJECT.json` lists the hazards one by one, at the line where each bites.

## 2. Modules

| Module | Models | Notes |
|---|---|---|
| `LossyTTLStore` | the promise of a cache backend | abstract specification |
| `PromptCache` | `cache.go` | implements `LossyTTLStore` |
| `MetricsCollector` | `metrics.go` | |
| `SharedAnswers` | the promise of the gateway to agents | abstract specification |
| `Gateway` | `proxy.go`, over instances of `PromptCache` and `MetricsCollector` | implements `SharedAnswers` |
| `Lifecycle` | `main.go` and what it relies on of http.Server | |
| `ToolDedup` | `deduplicateToolResults` | |
| `Conversation` | `parseRequest`, `OptimizeMessages`, `optimizeMessage`, `rebuildRequest`, around `ToolDedup` | what `optimizeText` does is a relation on texts |
| `BlobScanner` | `detectJSONBlobs`, `findMatchingBracket` | |
| `Eligibility` | `analyzeValue` and what it calls; `getUniformFields`, the encoder's judgment of the same | operators on values |
| `TextOptimizer` | `optimizeText`, `optimizeMixed`, `Classify`, `compactJSON`, `stripExcessWhitespace`, around `BlobScanner` and `Eligibility` | implements the scanner |
| `ToonEncoder` | `minimalTOONEncode` and what it calls | a recursive function on the values |
| `PromptCacheProofs`, `MetricsCollectorProofs`, `GatewayProofs`, `LifecycleProofs`, `ConversationProofs` (of `ToolDedup` too), `TextOptimizerProofs` (of `BlobScanner` too), `EncodingProofs` (of `Eligibility` and `ToonEncoder`) | | theorems |
| `FoldLemmas` | | lemmas on sums over finite sets, folds over sequences and flattened sequences |
| `MC...` | | constants for TLC |

### PromptCache

`config` is the cache section the process was started with, chosen in the initial
state and never changed. `entries`, `hits`, `misses` are the fields of `memoryBackend`; `clock` is
`time.Now()`. Each backend method runs under the mutex and is one action. `Get` is
`GetAbsent`, `GetExpired` or `GetLive`, after the wrapper's test of `enabled`; a
disabled cache and the redis stub take `GetNothing`. `Set` is two actions: `Stamp`
computes the expiry and leaves the entry in `pending[c]`, `Store` files it. `got`
records what a lookup returned. `accepted` is a history variable: the last entry
a completed `Set` was given for each key since it was deleted or flushed, which is
what a cache that forgot nothing would hold. "Last" is the order in which the calls
reach the mutex: of two concurrent `Set`s the one stamped first may be filed last, and
a `Set` that was stamped before a flush may be filed after it. The code and the model
allow both. Digests are collision-free model values.

`Contract` is the refinement: the abstract store's `held` is the set of filed
entries and its answers are `got`.

### MetricsCollector

`prom[a]` is the row of Prometheus counters of agent `a`, the other labels summed
away; `agentStats` is the map of aggregates, `NoStats` for an agent without an
entry; `call[c]` is what the goroutine's current `Record` call has still to do.
`RecordRequest` is three steps: `CountRequest` (the counters that always go up),
`CountSaved` or `SavedPanics` (`tokensSaved.Add` of a possibly negative amount),
`AggregateRequest` (under the mutex). The three `Add` calls of `CountRequest` are
one step, since no property looks at one of those counters without the others
while a call is between them; the cost counter follows `saved` by a positive factor.
`RecordCacheHit` is `CountHit` and `AggregateHit`. `panicked` is a history variable.

### Gateway

`pc[c]` says which call the handler on connection `c` makes next; `req[c]` and
`reply[c]` are the request it read and what the agent got. The actions follow
`handleRequest` from top to bottom and embed the actions of the two components,
so each handler interleaves with the others exactly where shared state is touched.
Exits: `BadRequest` (the body cannot be read or parsed: `ReadTimeout` and a closed
connection make the first possible for any request), `ServeHit`, `RebuildPanics`,
`RecordPanics`, `ForwardPanics`, `CutShort` (ReverseProxy panics with
`http.ErrAbortHandler`), and the ends of the two branches.

A body is a model value; the constant `Shape` tells what the code's decisions
depend on: whether it parses, whether it is the JSON `null`, its `stream` flag and
its token counts before and after the optimizer. A response is known by the
request it was made for, whether it is a 200 and whether it is complete. `Cacheable` has
the code's two cases, status 200 and nothing written: the second cannot be reached,
because ReverseProxy always writes something or panics (`AnswerInHand` of the proofs). A
stream is what the body asks for; a Gemini stream is chosen by path, and this code
treats it like any other response. `Shared` is the refinement: `SentTo(c)` is what the agent
sees, and the answers the gateway may still share (`Shareable`) are those in the cache
and those a handler carries into it or out of it.

`report` is the stats answer under construction; `parsed`, `flushes` and `reports`
are histories that properties and bounds use.

### Lifecycle

The main goroutine's steps up to `ListenAndServe`, and inside it the ones that
matter to a shutdown: check the flag, listen, check it again while the listener is
registered, accept. The signal goroutine's: `Notify`, receive, and the three of
`Shutdown` (set the flag, close the listener, wait for requests or for the 15
seconds). A signal before `Notify` kills the process. `Shutdown` does not touch a
listener that is not registered yet. Everything ends when main returns.

### ToolDedup

The two nested loops as one loop over items. `items` is the conversation as it came
from the rest of the optimizer, `out` the contents as they will be sent, `seen` and
`deduped` the code's variables. `Replaced` is where the two formats differ: a
`tool_result` block is a map shared with the conversation, a `tool` message is the
loop's copy. A `tool_result` in a message of another role, a `tool` message whose
content is not a string, and everything malformed are of kind `other`. What a content
carries besides text (images) is never compared, and goes when the marker comes.

### Conversation

`body` is the request as it came; `messages` what `parseRequest` made of it; `items`,
`i`, `seen`, `out` and `deduped` are those of `ToolDedup`, filled by `OptimizeMessage`
and `LeaveMessage`; `report` has the totals; `sent` is the body that is forwarded.
`phase` follows `handleRequest`: `Parse`, one `OptimizeMessage` or `LeaveMessage` per
message, `EndOptimize` (which skips the deduplication when it is not configured), the
three steps of `ToolDedup`, `EndDedup`, `Rebuild`.

Every loop of this code takes the blocks of a message one after the other, so a message
has one content item here, and more blocks are more messages of the same role. Forms
of content: a string, a text block, a `tool_result` with a string or with text blocks,
anything else. `Missing` is a text block without text: the assertion at
`optimizer.go:554` would panic on one. `Forms` gives the texts each text may be optimized
to: a set, because the order of fields in TOON differs from call to call. `fields` is
what a message has besides role and content; `Decoded` drops it, as `Message` does. It
also replaces what a content carries besides text (`extra`: images, the input of a tool
call) by what is left of it after decoding into `interface{}` and encoding again
(`Reencoded`): the same, but for integers that a float64 does not hold.

### BlobScanner and TextOptimizer

A text is a sequence of character classes: the brackets, quote, backslash, blank,
newline, any other; with `"toon"` for the characters of an encoding. `json` is the set
of intervals that `encoding/json` accepts, chosen in the initial state among those
whose brackets and strings are in order by `Nested`, a reference with a stack; the
rest of the JSON grammar is arbitrary. The scanner has its own, simpler notion of a
matching bracket (`Read`). `pos` and `blobs` are the loop's state; `PassBy`, `Reject`
and `Find` are its three continuations.

`TextOptimizer` adds what each JSON interval parses to (`values`), the configuration
and the rest of `optimizeText`: `TooLarge`; a text that is one JSON value becomes
`EncodeWhole`, `CompactWhole` or `KeepWhole`; otherwise `StartScan`, `ScanOn`, and then
`StripPlain`, `KeepPlain`, `KeepMixed` or, with blobs to replace, `StartMixed`,
`ReplaceBlob` from the last to the first, `FinishMixed`. `spliced` is a history of what
each blob was replaced by. An encoding is any of a few lengths (`ToonSizes`), except
that `{}` is encoded as nothing, which the code takes for "no replacement".

### Eligibility and ToonEncoder

Values are records of three kinds; `Values` is the set of those there are, each with its
parts (`ValuesAssumption`), and `Depth` says how deep each is nested (`DepthAssumption`).
Ratios are pairs of naturals, and 0/0 is the NaN of
the code, which fails every comparison (`AtLeast`). `ToonEncoder` has the set of
documents a value may become, one for each order of its maps: `getUniformFields`
(`HasUniformFields`) looks at the values of all rows but the first, `formatValue`
leaves anything but a scalar to `%v`, and an array that is neither a
table nor all scalars is written as dashed lines without its name (`Entries`). What `%v`
prints is a sequence of words (`Printed`, of `Words`, which gives those of a scalar): the
items of an array or the fields of an object, with blanks and brackets but no quotes, so
that `["a b"]` and `["a","b"]` print the same. The
encoder calls itself for the parts of a value, and so `MinimalTOONEncode` is a recursive
function on `Values`; `EncodeTOONObject` and `EncodeTOONArray` are given what it makes of
the parts. `CarriedBy`, recursive too, is the reader of a document: it compares an
object's lines, one by one, with what the object has in some order of its fields, and of
what `%v` printed no more than the words.

## 3. Runs

| Run | Instance | Result |
|---|---|---|
| `cache` | 2 goroutines, 2 keys, lifetimes 1 (default) and 2, clock to 2, 2 counted lookups between flushes; memory backend, redis stub, disabled | `CacheTypeOK`, `EntriesSound`, `ImplementsContract`, `RemembersAccepted` hold |
| `metrics_books` | 3 goroutines, 2 agents, a shrinking and a growing request | types, `RequestsConserved`, `BooksAgreeWhenQuiet`, `HitsNotOvercounted`, `CountersNeverFall` hold |
| `gateway_sharing` | 2 handlers, 2 bodies and a streaming one, 3 requests, 1 flush, expiry | types, `OnlyCompleteOKCached`, `CacheAndMetricsAgree`, `ImplementsSharing` hold |
| `gateway_progress` | 2 handlers, 5 kinds of body, an endpoint without provider, the three kinds of cache, 2 requests, 1 report, fairness | `EveryRequestAccounted`, `ReportConsistent`, `HandlersFinish` hold |
| `lifecycle_shutdown` | 3 requests, fairness | types, `CleanExitWasAsked`, `AcceptsOnlyWhileServing`, `SignalEndsProcess` hold |
| `conversation` | bodies of up to 3 messages of 12 kinds under 4 kinds of system prompt, and of 4 tool results of 7 kinds; 5 texts, of which one is blank and one has two optimized forms; with and without deduplication | types, `LoopInvariant`, `MarkerPointsBack`, `OnlyResultsReplaced`, `CountExplained`, `TextsFilledIn`, `SentAsGiven`, `ReportBeforeDedup`, `RepeatsBoundedByForms` hold |
| `optimize_text` | every text of up to 3 characters, longer ones of fewer classes (4 without newline, 5 of brackets and quotes, 7 with one bracket, quotes and backslashes, 6 of blanks and newlines), two with two blobs; 5 configurations; one array and one object that parse to each of about 3400 values | types, `BlobsInOrder`, `NothingMissed`, `SplicedInPlace`, `GrowsOnlyWhereUnchecked`, `NeverErased`, `PlainTextKept`, `DocumentsCarryValues`, `EligibilityInRange`, `ClassifierAndEncoderAgree` hold |
| five more | | each refutes one statement of a document or comment: section 6 |

Bounds and why they are enough.

* Two handlers (three goroutines for the collector): every race here is between a
  goroutine in the middle of one operation and another that starts one; a third
  handler adds no new pair. Three requests let one fill the cache, one hit it and one
  change it in between, also on a connection that is used twice. Two are enough for a
  report: one whose answer fills the cache, and a hit on it between the report's two reads.
* One agent in the pipeline's runs, two in the collector's: the pipeline treats an agent
  as a label, and only the collector keeps anything by agent. The theorems have any number.
* `MaxClock` 2 with a lifetime of 1 reaches "just alive" and "just expired".
* `MaxRequests`, `MaxFlushes`, `MaxReports`, `MaxGets`, `MaxRecorded` stop counters
  from growing; they are guards of the environment's steps, never of what the code
  does once a request has been read. `Observed` lets each provider's latency
  be observed once in the collector's own run, where no other variable depends on it.
* Four tool results are enough for a chain: a marker whose target would itself be a
  repeat of a third, with an item of the other format in between. Three messages leave
  room for a leading system message, a result and its repeat.
* `MinBlob` is 3 where the code has 50 and `KB` is 4 where it has 1024, so that texts
  on both sides of each limit are among the short ones: `{}` is too short, `{ }` is not. Whether a bracket is hidden by
  a string depends on the last few characters before it, which texts of length 5 to 7
  over the classes that matter exhaust; one text with two blobs has prose around them, for
  the splicing, and one has nothing but two objects. `ToonSizes` has encodings shorter than, as long as and
  longer than the texts.
* The configurations of `optimize_text` differ in every switch, with `min_array_length`
  0 (the default, 3), 1 (which lets 0/0 happen) and 2; one has a negative least saving and
  a negative threshold, which `validate` lets through.
* The values of `optimize_text` are scalars, objects of up to two fields, arrays of up to
  three of these or of five of a few, and objects of such arrays: 80 % of objects, the limit
  of `MostlyObjects`, is met at five elements, and a dashed array in an object, or an object
  in a row, at the depth there is. A scalar of two words, in an array that `%v` prints, is
  there for what blanks cannot tell apart. Deeper ones are the proofs' business.
* Deadlock checking is off where the bounded environment, or the loop or the
  process itself, really comes to an end; it is on in the cache's run.
* Symmetry (handlers, keys, texts, requests) is used for safety only, never in a run
  with a liveness property.

Each property of a passing run is paired in `PROJECT.json` with a mutated
definition, a plausible bug, under which TLC finds it violated.

## 4. Fairness

`Gateway!FairSpec` assumes weak fairness of `Work(c)`: the Go scheduler runs a
goroutine that is not waiting. Reading and parsing a body is in `Work`, because
`ReadTimeout` (30 s, `main.go:97`) ends a read that stalls. The provider's steps are
not fair: the transport has no timeout, so a handler may stay `upstream` for ever,
and `HandlersFinish` says so. Agents, flushes, reports and the clock are not fair.

`Lifecycle!FairSpec` assumes weak fairness of the main and of the signal
goroutine; the latter includes the timer of `Shutdown`. Nothing obliges a request to
finish, which is why `SignalEndsProcess` needs that timer or the early return of main.

## 5. What is proved

TLAPS checks these for all values of the constants. The assumptions are the named
`ASSUME`s of the modules: sentinels (no entry, no reply, no call) are not ordinary values, lifetimes are integers
bounded by `MaxTTL`, the set of goroutines is finite, token counts are naturals. Some are
there for the sums and the text: there are finitely many agents (`identifyAgent` answers
with a configured name, one of six, or "unknown"); of a configuration of the optimizer
only that the least saving and the least length of an array are integers, of either sign, and
the threshold a ratio; and decoded JSON is a tree: the parts of a value are values
(`ValuesAssumption`), finitely many in an object or array, and nested less deep than it
(`DepthAssumption`).

* **Cache.** `CacheTypeCorrect`; `EntriesAlwaysSound`; and `CacheImplementsContract`,
  the refinement. The inductive invariant is `CacheInv`, the types and `EntriesSound`:
  that an entry is filed under its own key is what turns "the entry at `k`" into "an
  entry of key `k`", and that an entry on its way was stamped with at most `MaxTTL`
  is what makes its late arrival legal. Then each action is matched with one of the
  store's: `Store` with `Accept` (the other entry of its key goes), `Delete` and
  `Flush` with `Forget`, each way of `Get` with `Answer`, the rest with stuttering.
  `CacheRemembersAccepted` needs another invariant, `Remembering`: what the memory
  backend has filed at a key is what was last accepted for it, unless a lookup found
  that expired (`Remembered`), so that is what a lookup answers while it lives
  (`AnswerIsRemembered`); and a disabled cache is never given anything.
* **Collector.** `MetricsTypeCorrect`, where `saved \in Nat` needs
  `AggregatesOnlyGains` (a call past the saved counter did save) beside the types;
  `RequestsAreConserved` and `HitsAreNotOvercounted`, which are inductive together
  with them. The argument follows the two sets `Recording(a)` and `CountingHit(a)`
  of goroutines between the two books: each action adds one goroutine to one of
  them, removes one, or leaves both, and the books move by as much. `BooksAgree` is about
  a quiet moment and needs an invariant of every other one, `TokensConserved`: of each
  token counter, the exported value is the aggregate plus the sum, over all goroutines, of
  what the call under way still has to aggregate. A step changes one goroutine's term.
  `MetricsCountersNeverFall` rests on `AggregatesOnlyGains` again.
* **Deduplication.** For conversations of any length: `DedupTypeCorrect`,
  `LoopKeepsInvariant`, `MarkersPointBack`, `OnlyResultsAreReplaced`,
  all from `DedupInv`, whose core is `LoopInvariant`: the
  texts seen are exactly those of the results behind, and each is still kept by one of
  them. Without the second half a marker could point to a result that was itself
  replaced. `CountIsExplained` adds what is counted: at every iteration the count is
  the number of results behind whose text an earlier one has, which is to have been seen
  (`SeenMeansRepeated`), and each iteration adds one element to that finite set, or none.
* **Conversation.** For bodies of any length: the theorems of `ToolDedup` hold in the
  place where the loop really runs (`...InPlace`), although the items are filled in one
  by one and the loop starts later; `TextsAreFilledIn`; `BodyIsSentAsGiven`, whatever
  decoding does to the numbers; `RepeatsAreBounded`: no two blocks that came with one text
  are sent in full with the same form of it (`FormOfEachInFull`), so there are no more of
  them than forms. The invariant `ConvInv` says of each phase what is
  known of the messages (they are the body's, decoded, behind the virtual system
  message if there is one), of the slots behind `next` (each is its message with a text
  of `Forms`) and ahead of it (blank, hence no results for the loop's invariant), and
  that the items do not change any more once the loop runs. `ReportIsOfBeforeDedup` adds
  `ReportInv`: the report is the sum over the messages behind. Its right-hand side sums the
  contents as sent, marker or not; replacing a set of terms by the marker's size moves the
  sum by as much (`TotalReplaced`).
* **Scanner.** `ScannerTypeCorrect`, `BlobsAlwaysInOrder`: for every text the
  blobs are JSON, long enough, in order and disjoint. `ScannerMissesNothing`: whatever
  the text and whatever of it the parser accepts, the scanner finds every JSON value that is
  long enough and not inside another. The invariant, `NoneBehind`, says so of the values
  that begin behind the scanner; each step keeps it because of `CandidateMatches`:
  counting one kind of bracket ends exactly where the value ends. For this the two are
  laid side by side (`SideBySide`), the reference with its stack and the scanner with its
  count, and followed character by character: nothing was wrong before an end at which
  nothing is (`NeverWrong`), so the count is the number of brackets of that kind on the stack
  (`AlwaysInStep`), and the first one stays at the bottom until the last character
  (`BottomAlways`): the count is 0 there and not before.
* **Text.** `TextImplementsScan`: a step of `optimizeText` is a step of the scanner or
  leaves it alone, so the same is true of the blobs it is given (`MixedBlobsInOrder`,
  `MixedMissesNothing`). `TextTypeCorrect`, with `OffsetsAlwaysHold`: whenever a blob is
  about to be replaced, the offsets found in the original text still delimit it in
  the changed one, and so for all the blobs that remain. The invariant is
  `FrontUntouched`: up to the end of the last blob that remains the text is the original
  one; replacing that blob keeps what is in front of it, and the
  next one ends in front of it. `BlobsSplicedInPlace`: the text is at every moment the
  concatenation of its pieces, each blob with what stands in front of it (`SplicedNow`);
  a replacement changes one piece.
  `PlainTextAlwaysKept`: `StripExcessWhitespace` is three folds, over the characters, the
  lines and the kept lines; each is a run of its body (`LinesRun`, `KeptRun`, ...), and
  by induction over the run joining and splitting are inverse, trimming twice is trimming
  once, and written lines pass through. `TextNeverErased`: only an encoding
  or stripping could take the ink out of a text; an encoding of length 0 is that of
  `{}`, which is eligible under a negative threshold only. `GrowthIsUnchecked`: compacting
  and stripping never lengthen, and a whole text is encoded only if it saves
  something, unless the least saving is 0 or negative.
* **Eligibility.** `EligibilityIsInRange`: the ratio of every value is at most 1, or it is
  NaN and the value is an array of one object that the minimum length lets through. The sum of
  the agreements with the first object is a fold; by induction over its run
  (`ScoresUpToOne`) it is at most the number of objects added, and equal to it only if each
  agreement is 1 (`SumOfParts`). The prover has to be led through the products of three
  unknown numbers (`ProductOrder`). For an object the eligible fields are added up in the same way
  (`SharesUpToOne`). `ClassifierAgreesWithEncoder` is the other half: the product of
  uniformity and of the share of scalars is 1 only if both are (`ProductOfParts`), that is if
  every row has the fields of the first one (`AgreementUpToOne`) and scalars only, which is
  what `getUniformFields` asks, by counting and inclusion (`SameFieldsMeansEqual`).
  The invariant of the machine is `ValuesInv`: what a text parses to never changes and is
  among the values.
* **Encoder.** `DocumentsCarryTheirValues`, from `EveryValueIsCarried`: any document that any
  value may become carries it, in place or, where `%v` printed it, word for word. First, the recursive functions are what their bodies say
  (`EncodingIs`, `CarryingIs`): a body looks at parts only, which are nested less deep
  (`PartsBelow`, `BodyFromParts`), so there is a solution on the values of each level
  (`LevelSolved`), two solutions agree where both are defined (`SolutionsAgree`), and
  together they are one on all values (`AllSolved`). Then, by induction on the depth: a
  table's cells carry the values of every row, because all rows have the header's fields
  (`TableOf`); a dashed array's items carry its items (`ArrayCarried`); and the lines of an
  object are those of its contents, which are two sequences of sequences, of the same
  lengths because exactly dashed arrays are written behind dashes (`DashedForm`),
  flattened side by side (`FlattenTogether`, `ObjectCarried`).
  `TabularEncodingIsInjective` goes further for the values the encoder is made for, those
  without dashed arrays or cells left to `%v` (`Tabular`): two different ones never have a
  document in common. The document's form tells the kind (`FormOfKind`), a table its header
  and cells (`SameTable`), an object its lines (`SameObject`). This is about structure: a
  scalar is what `formatValue` shows of it, so `1` and `"1"` are one value in the model, and
  documents are not yet lines of text.
* **Process.** `LifecycleTypeCorrect`, `CleanExitIsAsked`, `AcceptedOnlyWhileServing`.
  The invariant says what the two goroutines know of each other: the flag is set only
  on a signal (`FlagWasAsked`), main leaves the server only because of the flag
  (`ServesUntilFlag`), and a listener registered after `Shutdown` looked for one is
  never served (`NoLateListener`: the second check of the flag is what ensures it).
* **Pipeline.** `OnlyCompleteOKIsCached`, from `CachingInv`: besides the property, what
  each handler holds at the two places where it matters (`AnswerInHand`: relayed and
  complete after `ServeHTTP` has returned, past the test of `Cacheable` when it is
  stamped; and that something has been written, so that status 0 does not occur). Then `GatewayImplementsSharing`. `SharingInv` adds what each handler knows
  of its agent (`HandlerSound`): a reply has gone out exactly when the handler is past
  the point where one is sent, and the entry a hit has found answers the body that was
  looked up. Every step of a handler is shown to be local; what may be shared grows
  only by an answer just relayed (`Spread`); and each action is matched: `Receive` with
  `Ask`, `Upstream` with `Relay`, `ServeHit` with `Share`, every error and panic with
  `Refuse`, everything else with `Forget`.
* **Composition.** `GatewayProofs` instantiates the proofs of the cache and of the
  collector with the pipeline's constants, whose assumptions follow from
  `GatewayPartsAssumption`, and shows that every step of the pipeline is one of their
  calls or nothing to them (`CacheStep`, `CollectorStep`; the arguments have the right
  types because of `SharingInv`). What the components' own proofs say of their calls
  without bounds (`AnyCall`, `AnyRecord`) then holds in the gateway:
  `GatewayTypeCorrect`, and `GatewayKeepsBooks`, the collector's two laws among handlers
  that hit, miss and panic. `EveryRequestIsAccounted` follows the set `UnderwayOf(a)` of
  handlers that have parsed a request of `a` and not counted it: `Parse` adds its
  handler, `CacheHit` and `Optimize` remove it and count, and every other step leaves
  the set and both counters. `CacheAndCollectorAgree` (invariant `LookupsAgree`) balances a
  sum over the agents against a set of handlers: a lookup adds its handler to those that
  stand between the cache and the collector, the record removes it and adds one to its
  agent; a flush lowers the cache's side only. `ReportsAreConsistent` then needs only that aggregated hits are at most the
  exported ones and that the cache's hits do not fall between the two reads of a stats
  request (`ReportInv`). `GatewayKeepsBooks` has `BooksAgreeWhenQuiet` as its third law.
* **Folds.** `FoldLemmas` is what the sums and the texts rest on. The prover cannot
  instantiate an induction theorem, whose parameter is an operator, so inductions
  (over naturals, subsets of a finite set, sequences) are stated of membership in a *set* and proved
  by looking at a least counterexample, from the library's facts on well-founded
  relations. A fold of the community modules is a recursive function, that is a `CHOOSE`:
  `FoldExists` and `LeftFoldSolved` show that its equation has a solution, `FoldUnique` and
  `LeftFoldRuns` that every solution is the value wanted; then come the laws of sums
  (one term more, one term changed, a set of terms exchanged) and of runs.

Every invariant, action property and refinement that a run checks is stated by a theorem.
Model-checked only are `HandlersFinish` and `SignalEndsProcess`: they are liveness under
fairness, which is beyond the prover.

## 6. What the code does not do

Each of these runs checks one statement and ends in a counterexample.

| Run | Statement | What happens |
|---|---|---|
| `gateway_identical` | README: dedup of identical requests | endpoint and path are not in the key |
| `gateway_growth` | README: every request is forwarded | a request whose text grew panics in `tokensSaved.Add` |
| `lifecycle_graceful` | main.go: graceful shutdown | main returns while `Shutdown` drains |
| `conversation_transparent` | README: transparent to the agent | in one body: a leading system message replaces a system prompt made of blocks (`SystemPromptKept`); an integer above 2^53 in a content, such as the input of a tool call, comes out rounded (`NumbersKept`); a message keeps its role and content only, so that `tool_call_id`, `tool_calls` and `name` are gone (`FieldsKept`) |
| `conversation_repeats` | README: repeated tool results are replaced | a repeated OpenAI `tool` message is counted as replaced and sent in full: the change is made to the loop's copy |

Differences met while modelling that no run checks, because they are plain from
one place of the code: `max_size_mb` is never read (`cache.go:146`); the redis
backend stores nothing and reports success (`cache.go:242-250`); a compressed body is
replayed without its Content-Encoding (`proxy.go:156`); an endpoint whose provider is
not configured, as two are with `configs/gateway-dev.yaml`, ends in a nil
dereference (`proxy.go:215`, the action `ForwardPanics`);
`llm_gateway_requests_total`, "Total number of requests processed", leaves out
cache hits (`proxy.go:159`); hits of an agent without an aggregate are missing from
the stats (`metrics.go:168`, the condition in `AggregateHit`); the per-agent
`cache_ttl` is never used (`proxy.go:222`).

And in the optimizer and the codec, each visible in a definition of the model or in the
exception that a property names:

* a `tool_result` whose text repeats an earlier one is replaced with its image, which
  may be another one (`optimizer.go:544-565`; `Replaced`, `IsDuplicate`);
* the report is complete before the deduplication, so the counter that `metrics.go:73` calls
  "Total optimized tokens sent to provider" has what was replaced at its own length
  (`optimizer.go:52`; the equation of `ReportBeforeDedup`);
* the marker may be longer than what it replaces (`optimizer.go:564`; the equation of
  `ReportBeforeDedup`);
* the same JSON may be encoded with another order of fields the next time, and its
  repeat then goes unnoticed (`optimizer.go:273, 368`; the bound in
  `RepeatsBoundedByForms`);
* `"system": null` comes out as `""` (`proxy.go:268`; `SystemText`); a body without messages gets `"messages": []` (`proxy.go:301`);
* the name of a field that holds a mixed array is not written (`optimizer.go:344`;
  `DocumentsCarryValues`);
* where `%v` prints a nested array or object, how its words belong together is lost
  (`optimizer.go:428`; `Printed`, the second exception of `DocumentsCarryValues`);
* the first element of a table is not checked for values that are no scalars, which
  `optimizer.go:372` says all are (`optimizer.go:373`; `HasUniformFields`);
* the eligibility of an array of one object is 0/0, if the minimum length lets one through
  (`classifier.go:196`; the exception of `EligibilityInRange`);
* the uniformity threshold is not applied to embedded JSON: an eligibility is compared
  with itself (`optimizer.go:459`; `WorthEncoding`), nor is the savings threshold
  (`GrowsOnlyWhereUnchecked`);
* eight objects and two numbers count as a uniform array (`classifier.go:169`), which
  the encoder then does not write as a table;
* with a negative uniformity threshold, which `validate` does not refuse, the text `{}` is
  eligible, encoded as nothing and erased (`classifier.go:114`; `optimizer.go:470` guards
  embedded JSON only; the premise of `NeverErased`);
* `TOONConversions` is increased by an offset (`optimizer.go:215`); nothing reads it.

## 7. Not modelled

* *Headers.* Content-Encoding, authentication, the observability headers: the pipeline is
  "partly" modelled for this reason. Nothing in the code depends on them.
* *`identifyAgent`.* One expression on two headers and a map; when two patterns match,
  either agent is returned. `Gateway` takes an arbitrary agent for every request, so
  all its properties hold whichever is chosen.
* *Configuration.* `Load` succeeds or fails in `Lifecycle`. `validate` is straight-line
  code that fails or fills in the listen address; the values it does not check
  (lifetimes, providers that are missing, thresholds) are constants of the other modules.
* *Scalars and characters.* How a scalar is spelled: TOON does not distinguish `null`
  from `"null"` or `5` from `"5"` and does not quote keys. A tab is a blank. A number
  outside the range of float64, which is valid JSON and cannot be decoded, makes a text
  plain where the model has JSON.
* *Rounding.* Ratios are exact; the code adds float64s, in random order for an object
  with three or more tables, where its comparison of an eligibility with itself may
  fail in the last bit and the blob is then compacted, which is among the model's outcomes
  only with TOON switched off.
* *Other middleware, logging, health check, YAML parsing, deployment files.* Wording, I/O
  or straight-line code.
