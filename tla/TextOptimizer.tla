--------------------------- MODULE TextOptimizer ---------------------------
(***************************************************************************)
(* optimizeText, optimizeMixed and stripExcessWhitespace of                *)
(* internal/optimizer/optimizer.go, with Classify of                       *)
(* internal/classifier/classifier.go: what one text of a message becomes.  *)
(*                                                                         *)
(* The scanner is that of BlobScanner and the eligibility of a parsed      *)
(* value that of Eligibility.  Of a TOON text only the length is kept, in  *)
(* characters of the class "toon"; its structure is that of ToonEncoder.   *)
(***************************************************************************)
EXTENDS Integers, BlobScanner, Eligibility

CONSTANTS
  Configs,     \* the configurations of optimizer and classifier
  KB,          \* characters in a unit of max_payload_size_kb: 1024
  Values,      \* the JSON values there are
  ParsesTo(_), \* the values the JSON in a text may parse to
  ToonSizes    \* the lengths an encoding may have, that of {} apart

(* A percentage may be negative, and so may a threshold: nothing in        *)
(* internal/config/config.go refuses them.                                 *)
ASSUME TextAssumption ==
  /\ KB \in Nat \ {0}
  /\ ToonSizes \subseteq Nat \ {0}
  /\ \A c \in Configs : /\ c.minSavings \in Int
                        /\ c.minArray \in Int
                        /\ c.threshold \in [n : Int, d : Nat \ {0}]

(* A decoded document is a scalar, or it has finitely many parts, each one *)
(* again a JSON value.                                                     *)
Documents(V) ==
  \A v \in V :
    \/ v.kind = "scalar" /\ v = Scalar(v.shown)
    \/ v.kind = "array" /\ v = Array(v.items) /\ v.items \in Seq(V)
    \/ /\ v.kind = "object" /\ v = Object(v.fields)
       /\ IsFiniteSet(DOMAIN v.fields)
       /\ v.fields \in [DOMAIN v.fields -> V]

ASSUME ValuesAssumption ==
  /\ Documents(Values)
  /\ UNION {ParsesTo(t) : t \in Texts} \subseteq Values

VARIABLES
  config,    \* OptimizerConfig and ClassifierConfig
  values,    \* what each JSON interval of the text parses to
  phase,     \* "classify", "scan", "mixed" or "done"
  result,    \* the text as it is so far
  rest,      \* how many blobs are not replaced yet
  spliced,   \* what each blob was replaced by; <<>> if it was not
  strategy   \* the strategy the report names

outputVars == <<phase, result, rest, spliced, strategy>>
textVars == <<scanVars, config, values, outputVars>>

EmptyObject == Object(<<>>)
EmptyArray == Array(<<>>)

(* What the first bracket and the characters inside say of the value. *)
Fits(v, b) ==
  /\ v.kind = IF text[b.from] = "{" THEN "object" ELSE "array"
  /\ v \in {EmptyObject, EmptyArray} <=>
       \A k \in b.from + 1 .. b.to - 1 : text[k] \in Blank

TextInit ==
  /\ ScanInit
  /\ config \in Configs
  /\ values \in [json -> ParsesTo(text)]
  /\ \A b \in json : Fits(values[b], b)
  /\ phase = "classify"
  /\ result = <<>>
  /\ rest = 0
  /\ spliced = <<>>
  /\ strategy = "none"

-----------------------------------------------------------------------------
(* json.Compact: the blanks outside strings go. *)
Compact(t) ==
  LET after[k \in 0 .. Len(t)] == IF k = 0 THEN Outside ELSE Read(after[k - 1], t[k], t[1])
      kept == {k \in DOMAIN t : t[k] \notin Blank \/ after[k - 1].inString}
  IN [j \in 1 .. Cardinality(kept) |-> t[CHOOSE k \in kept : Cardinality(kept \cap 1 .. k) = j]]

Lines(t) ==
  FoldLeft(LAMBDA ls, c : IF c = "newline" THEN Append(ls, <<>>)
                          ELSE ReplaceAt(ls, Len(ls), Append(Last(ls), c)),
           << <<>> >>, t)

TrimRight(line) == SubSeq(line, 1, SelectLastInSeq(line, LAMBDA c : c # "space"))

Join(lines) ==
  FoldLeft(LAMBDA t, l : t \o <<"newline">> \o l, Head(lines), Tail(lines))

-----------------------------------------------------------------------------
(* Mutants of the definitions that follow, one plausible bug each. *)

MutKeepLine(kept, line) == TRUE
MutMeetsSavings(e) == Len(e) * 100 >= config.minSavings * Len(text)
MutBlobNow == Len(blobs) + 1 - rest
MutSplicedIn(b, r) ==
  SubSeq(result, 1, b.from - 1) \o r \o SubSeq(result, b.to + 1, Len(result))

-----------------------------------------------------------------------------
(* A blank line stays unless the one before it was blank as well. *)
KeepLine(kept, line) == line # <<>> \/ kept = <<>> \/ Last(kept) # <<>>

StripExcessWhitespace(t) ==
  Join(FoldLeft(LAMBDA kept, l : IF KeepLine(kept, TrimRight(l))
                                 THEN Append(kept, TrimRight(l)) ELSE kept,
                <<>>, Lines(t)))

(* minimalTOONEncode: only the object without fields is written as "". *)
Encoded(v) ==
  IF v = EmptyObject THEN {<<>>} ELSE {[k \in 1 .. n |-> "toon"] : n \in ToonSizes}

MeetsSavings(e) ==
  config.minSavings = 0 \/ (Len(text) - Len(e)) * 100 >= config.minSavings * Len(text)

Oversized == config.maxPayload > 0 /\ Len(text) > config.maxPayload * KB

(* isTopLevelJSON: the text is one JSON value and blanks around it. *)
IsWhole(b) ==
  b \in json /\ \A k \in DOMAIN text : text[k] \in Blank \/ k \in b.from .. b.to

TabularEligibility(b) == AnalyzeValue(values[b], MinArrayLength(config))

Eligible(b) == AtLeast(TabularEligibility(b), UniformityThreshold(config))

(* The encoding is tried where the blob's eligibility is at least that of  *)
(* the same blob classified again: never for NaN, always otherwise.        *)
WorthEncoding(b) == AtLeast(TabularEligibility(b), TabularEligibility(b))

(* What optimizeMixed may put in the place of a blob; <<>> leaves it. *)
Replacements(b) ==
  LET encodings == IF config.toon /\ WorthEncoding(b) THEN Encoded(values[b]) ELSE {<<>>}
      compacted == IF config.compact THEN Compact(Raw(b)) ELSE <<>>
  IN {IF e = <<>> THEN compacted ELSE e : e \in encodings}

BlobNow == rest

SplicedIn(b, r) ==
  IF r = <<>> THEN result
  ELSE SubSeq(result, 1, b.from - 1) \o r \o SubSeq(result, b.to + 1, Len(result))

-----------------------------------------------------------------------------
Finish(t, s) ==
  /\ phase' = "done"
  /\ result' = t
  /\ strategy' = s
  /\ UNCHANGED <<scanVars, config, values, rest, spliced>>

TooLarge ==
  /\ phase = "classify"
  /\ Oversized
  /\ Finish(text, "passthrough:too_large")

Classifying == phase = "classify" /\ ~Oversized

EncodeWhole ==
  /\ Classifying
  /\ \E b \in json :
       /\ IsWhole(b) /\ Eligible(b) /\ config.toon
       /\ \E e \in Encoded(values[b]) : MeetsSavings(e) /\ Finish(e, "toon")

NotEncoded ==
  /\ Classifying
  /\ \E b \in json :
       /\ IsWhole(b)
       /\ Eligible(b) /\ config.toon => \E e \in Encoded(values[b]) : ~MeetsSavings(e)

CompactWhole == NotEncoded /\ config.compact /\ Finish(Compact(text), "compact_json")

KeepWhole == NotEncoded /\ ~config.compact /\ Finish(text, "passthrough")

NotWhole == Classifying /\ \A b \in json : ~IsWhole(b)

StartScan ==
  /\ NotWhole /\ config.detection
  /\ phase' = "scan"
  /\ UNCHANGED <<scanVars, config, values, result, rest, spliced, strategy>>

ScanOn ==
  /\ phase = "scan"
  /\ Scan
  /\ UNCHANGED <<config, values, outputVars>>

Scanned == phase = "scan" /\ ~Scanning

IsPlainText ==
  \/ NotWhole /\ ~config.detection
  \/ Scanned /\ blobs = <<>>

StripPlain ==
  /\ IsPlainText /\ config.strip
  /\ LET t == StripExcessWhitespace(text)
     IN Finish(t, IF Len(t) < Len(text) THEN "whitespace_strip" ELSE "passthrough")

KeepPlain == IsPlainText /\ ~config.strip /\ Finish(text, "passthrough")

IsMixed == Scanned /\ blobs # <<>>

KeepMixed == IsMixed /\ ~config.toon /\ ~config.compact /\ Finish(text, "passthrough")

StartMixed ==
  /\ IsMixed
  /\ config.toon \/ config.compact
  /\ phase' = "mixed"
  /\ result' = text
  /\ rest' = Len(blobs)
  /\ spliced' = [k \in DOMAIN blobs |-> <<>>]
  /\ UNCHANGED <<scanVars, config, values, strategy>>

ReplaceBlob ==
  /\ phase = "mixed" /\ rest > 0
  /\ \E r \in Replacements(blobs[BlobNow]) :
       /\ result' = SplicedIn(blobs[BlobNow], r)
       /\ spliced' = [spliced EXCEPT ![BlobNow] = r]
  /\ rest' = rest - 1
  /\ UNCHANGED <<scanVars, config, values, phase, strategy>>

FinishMixed == phase = "mixed" /\ rest = 0 /\ Finish(result, "mixed")

TextNext ==
  \/ TooLarge
  \/ EncodeWhole \/ CompactWhole \/ KeepWhole
  \/ StartScan \/ ScanOn
  \/ StripPlain \/ KeepPlain
  \/ StartMixed \/ KeepMixed \/ ReplaceBlob \/ FinishMixed

TextSpec == TextInit /\ [][TextNext]_textVars

-----------------------------------------------------------------------------
(* Properties *)

Strategies == {"none", "passthrough:too_large", "toon", "compact_json",
               "passthrough", "whitespace_strip", "mixed"}

TextTypeOK ==
  /\ ScannerTypeOK
  /\ config \in Configs
  /\ DOMAIN values = json
  /\ phase \in {"classify", "scan", "mixed", "done"}
  /\ result \in Seq(Chars \cup {"toon"})
  /\ rest \in 0 .. Len(blobs)
  /\ spliced \in Seq(Seq(Chars \cup {"toon"}))
  /\ strategy \in Strategies

Before(k) == IF k = 1 THEN 1 ELSE blobs[k - 1].to + 1
Piece(k) == IF k <= rest \/ spliced[k] = <<>> THEN Raw(blobs[k]) ELSE spliced[k]

(* optimizer.go:453, "in reverse order to preserve indices": at every step *)
(* of optimizeMixed the text is the original one with each blob dealt with *)
(* so far replaced by its own replacement, and every character between the *)
(* blobs in its place, though the offsets are those of the original text.  *)
SplicedInPlace ==
  phase = "mixed" \/ strategy = "mixed" =>
    result = FlattenSeq([k \in DOMAIN blobs |->
                           SubSeq(text, Before(k), blobs[k].from - 1) \o Piece(k)])
               \o SubSeq(text, Last(blobs).to + 1, Len(text))

(* optimizer.go:501, "saves enough to be worth it": a text gets longer     *)
(* only where nothing asks what was saved, in a text with embedded JSON or *)
(* with a minimum of 0 or less (this is the growth that makes              *)
(* RecordRequest panic).                                                   *)
GrowsOnlyWhereUnchecked ==
  phase = "done" /\ Len(result) > Len(text) =>
    \/ strategy = "mixed" /\ config.toon
    \/ strategy = "toon" /\ config.minSavings <= 0

HasInk(t) == \E k \in DOMAIN t : t[k] \notin Blank

(* No path erases a text: not the encoding of {}, which is "", nor the     *)
(* replacement of a blob that nothing was found for.  (With a negative     *)
(* uniformity_threshold {} is eligible, and is erased.)                    *)
NeverErased ==
  phase = "done" /\ config.threshold.n >= 0 /\ HasInk(text) => HasInk(result)

(* The lines that are not blank, without the blanks at their ends. *)
Written(t) ==
  FoldLeft(LAMBDA ls, l : IF TrimRight(l) = <<>> THEN ls ELSE Append(ls, TrimRight(l)),
           <<>>, Lines(t))

(* optimizer.go:480, "Collapse multiple blank lines into one": a plain     *)
(* text keeps its lines, indentation included, in their order, has no two  *)
(* blank lines in a row, would not change if it came back, and is called   *)
(* "passthrough" exactly when it did not change.                           *)
PlainTextKept ==
  phase = "done" /\ config.strip /\ blobs = <<>> /\ strategy \in {"whitespace_strip", "passthrough"}
      /\ (\A b \in json : ~IsWhole(b)) =>
    /\ Written(result) = Written(text)
    /\ \A k \in 1 .. Len(Lines(result)) - 1 :
         Lines(result)[k] # <<>> \/ Lines(result)[k + 1] # <<>>
    /\ StripExcessWhitespace(result) = result
    /\ (strategy = "passthrough") = (result = text)

(* classifier.go:24, "0.0 - 1.0": eligibility is a number from 0 to 1,     *)
(* except for an array of one object where min_array_length lets one       *)
(* through: that is 0 / 0, which the comment does not expect.              *)
EligibilityInRange ==
  phase = "classify" =>
    \A b \in json :
      IF IsNaN(TabularEligibility(b))
      THEN values[b].kind = "array" /\ Len(values[b].items) = 1
             /\ IsObject(values[b].items[1]) /\ MinArrayLength(config) <= 1
      ELSE TabularEligibility(b).n <= TabularEligibility(b).d

AllScalars(o) == \A f \in FieldsOf(o) : IsScalar(o.fields[f])

(* classifier.go:198, "TOON tabular format requires primitive values": two *)
(* pieces of code decide what a table is, one to choose the strategy and   *)
(* one to write it.  Among arrays of two or more objects with fields, long *)
(* enough, the classifier gives 1 exactly to those that the encoder writes *)
(* as a table of scalars.                                                  *)
ClassifierAndEncoderAgree ==
  phase = "classify" =>
    \A b \in json :
      LET arr == values[b].items
      IN values[b].kind = "array" /\ Len(arr) >= Max({2, MinArrayLength(config)})
           /\ (\A k \in DOMAIN arr : IsObject(arr[k]) /\ FieldsOf(arr[k]) # {})
         => (IsOne(TabularEligibility(b)) <=> HasUniformFields(arr) /\ AllScalars(arr[1]))

=============================================================================
