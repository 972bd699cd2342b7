------------------------ MODULE TextOptimizerProofs ------------------------
(***************************************************************************)
(* Proofs about the search for embedded JSON, about the replacement of     *)
(* what it finds and about the stripping of a plain text, for every set of *)
(* texts and of configurations, every answer of the JSON parser and every  *)
(* length of an encoding.                                                  *)
(*                                                                         *)
(* In this order: the scanner, the order of what it finds and that it      *)
(* misses nothing; the folds of stripExcessWhitespace, as runs of their    *)
(* bodies (FoldLemmas), and what they keep; the types of Compact and of a  *)
(* spliced text; the invariant of optimizeText; the offsets; the plain     *)
(* text; what is never erased; what may grow; and that the spliced text is *)
(* the pieces of the original one with the replacements between.           *)
(***************************************************************************)
EXTENDS TextOptimizer, FoldLemmas

(* A bracket's partner is looked for from the bracket on, inside the text. *)
LEMMA ReturnsInside ==
  ASSUME NEW start \in Nat, NEW end \in Returns(start), text \in Seq(Chars)
  PROVE  /\ end \in Nat
         /\ start <= end
         /\ end <= Len(text)
  BY DEF Returns

(* The scanner starts in its types,                                        *)
LEMMA InitialTypes == ScanInit => ScannerTypeOK
<1> SUFFICES ASSUME ScanInit PROVE ScannerTypeOK
  OBVIOUS
<1>1. text \in Seq(Chars)
  BY ScannerAssumption DEF ScanInit
<1>2. json \subseteq Interval
  BY <1>1 DEF ScanInit, Candidates, Interval
<1> QED
  BY <1>1, <1>2 DEF ScanInit, ScannerTypeOK

(* A step that finds a blob, with the blob and its end named. *)
LEMMA Found ==
  ASSUME ScannerTypeOK, Find
  PROVE  \E b \in Interval :
           /\ IsBlob(b)
           /\ b.from = pos /\ pos <= b.to /\ b.to <= Len(text)
           /\ blobs' = Append(blobs, b)
           /\ pos' = b.to + 1
           /\ UNCHANGED <<text, json>>
<1>1. PICK end \in Returns(pos) :
        /\ IsBlob([from |-> pos, to |-> end])
        /\ blobs' = Append(blobs, [from |-> pos, to |-> end])
        /\ pos' = end + 1
  BY DEF Find, AfterBlob
<1>2. pos \in Nat /\ end \in Nat /\ pos <= end /\ end <= Len(text)
  BY ReturnsInside DEF ScannerTypeOK
<1>3. [from |-> pos, to |-> end] \in Interval
  BY <1>2 DEF Interval
<1> QED
  BY <1>1, <1>2, <1>3 DEF Find

(* A step that finds nothing moves one character on. *)
LEMMA NotFound ==
  ASSUME PassBy \/ Reject
  PROVE  /\ pos' = pos + 1
         /\ pos \in DOMAIN text
         /\ UNCHANGED <<text, json, blobs>>
  BY DEF PassBy, Reject, AtBracket, Scanning, AfterReject

(* and every step of it keeps them.                                        *)
LEMMA StepTypes == ScannerTypeOK /\ [Scan]_scanVars => ScannerTypeOK'
<1> SUFFICES ASSUME ScannerTypeOK, [Scan]_scanVars PROVE ScannerTypeOK'
  OBVIOUS
<1>1. CASE PassBy \/ Reject
  BY <1>1, NotFound DEF ScannerTypeOK
<1>2. CASE Find
  <2>1. PICK b \in Interval :
          /\ b.from = pos /\ pos <= b.to /\ b.to <= Len(text)
          /\ blobs' = Append(blobs, b)
          /\ pos' = b.to + 1
          /\ UNCHANGED <<text, json>>
    BY <1>2, Found
  <2>2. b.to \in Nat /\ pos \in Nat \ {0} /\ Len(text) \in Nat
    BY DEF ScannerTypeOK, Interval
  <2>3. pos' \in 1 .. Len(text) + 1
    BY <2>1, <2>2
  <2>4. blobs' \in Seq(Interval)
    BY <2>1 DEF ScannerTypeOK
  <2> QED
    BY <2>1, <2>3, <2>4 DEF ScannerTypeOK
<1>3. CASE UNCHANGED scanVars
  BY <1>3 DEF ScannerTypeOK, scanVars
<1> QED
  BY <1>1, <1>2, <1>3 DEF Scan

(* The scanner's state is well typed: every blob is an interval and the    *)
(* position never leaves the text by more than one.                        *)
THEOREM ScannerTypeCorrect == ScanSpec => []ScannerTypeOK
<1> QED
  BY InitialTypes, StepTypes, PTL DEF ScanSpec

(* Every step of the scanner keeps its blobs in order.                     *)
LEMMA StepOrder ==
  ScannerTypeOK /\ BlobsInOrder /\ [Scan]_scanVars => BlobsInOrder'
<1> SUFFICES ASSUME ScannerTypeOK, BlobsInOrder, [Scan]_scanVars
             PROVE  BlobsInOrder'
  OBVIOUS
<1>1. CASE PassBy \/ Reject
  BY <1>1, NotFound DEF ScannerTypeOK, BlobsInOrder, IsBlob, Size, Interval
<1>2. CASE Find
  <2>1. PICK b \in Interval :
          /\ IsBlob(b)
          /\ b.from = pos /\ pos <= b.to /\ b.to <= Len(text)
          /\ blobs' = Append(blobs, b)
          /\ pos' = b.to + 1
          /\ UNCHANGED <<text, json>>
    BY <1>2, Found
  <2>2. /\ blobs \in Seq(Interval)
        /\ DOMAIN blobs' = 1 .. Len(blobs) + 1
        /\ blobs'[Len(blobs) + 1] = b
        /\ \A k \in DOMAIN blobs : blobs'[k] = blobs[k] /\ blobs[k] \in Interval
    BY <2>1 DEF ScannerTypeOK
  <2>3. pos \in Nat \ {0} /\ b.from \in Nat /\ b.to \in Nat
    BY DEF ScannerTypeOK, Interval
  <2>4. ASSUME NEW k \in DOMAIN blobs'
        PROVE  /\ IsBlob(blobs[k])'
               /\ blobs'[k].from \in 1 .. blobs'[k].to
               /\ blobs'[k].to < pos'
    <3>1. CASE k \in DOMAIN blobs
      BY <2>1, <2>2, <2>3, <3>1, SMTT(30) DEF BlobsInOrder, IsBlob, Size, Interval
    <3>2. CASE k = Len(blobs) + 1
      BY <2>1, <2>2, <2>3, <3>2 DEF IsBlob, Size, Interval
    <3> QED
      BY <2>2, <2>4, <3>1, <3>2 DEF ScannerTypeOK
  <2>5. ASSUME NEW k \in DOMAIN blobs', NEW l \in DOMAIN blobs', k < l
        PROVE  blobs'[k].to < blobs'[l].from
    <3>1. k \in DOMAIN blobs
      BY <2>2, <2>5
    <3>2. CASE l \in DOMAIN blobs
      BY <2>2, <2>5, <3>1, <3>2 DEF BlobsInOrder
    <3>3. CASE l = Len(blobs) + 1
      BY <2>1, <2>2, <3>1, <3>3 DEF BlobsInOrder
    <3> QED
      BY <2>2, <2>5, <3>2, <3>3
  <2> QED
    BY <2>4, <2>5 DEF BlobsInOrder
<1>3. CASE UNCHANGED scanVars
  BY <1>3 DEF BlobsInOrder, IsBlob, Size, scanVars
<1> QED
  BY <1>1, <1>2, <1>3 DEF Scan

(* For every text the blobs are found in order, do not overlap, are JSON   *)
(* values of at least the least length and lie behind the scanner: cutting *)
(* at their offsets from the last to the first is right.                   *)
THEOREM BlobsAlwaysInOrder == ScanSpec => []BlobsInOrder
<1>1. ScanInit => BlobsInOrder
  BY DEF ScanInit, BlobsInOrder
<1> QED
  BY <1>1, InitialTypes, StepTypes, StepOrder, PTL DEF ScanSpec

-----------------------------------------------------------------------------
(* Counting one kind of bracket against keeping a stack: why the scanner   *)
(* finds the end of every JSON value.  First, what Nest, the reference,    *)
(* and Read, the scanner, do with one character.                           *)
NestStates ==
  [open : Seq(Closing), inString : BOOLEAN, escaped : BOOLEAN, wrong : BOOLEAN, done : BOOLEAN]

ReadStates == [depth : Int, inString : BOOLEAN, escaped : BOOLEAN]

Unread ==
  [open |-> <<>>, inString |-> FALSE, escaped |-> FALSE, wrong |-> FALSE, done |-> FALSE]

NewOpen(s, c) ==
  CASE c \in Opening -> Append(s.open, Partner(c))
    [] c \in Closing /\ s.open # <<>> -> Front(s.open)
    [] OTHER -> s.open

(* Wrong outside a string, behind the outermost bracket, or closing what   *)
(* was not opened.                                                         *)
Misplaced(s, c) ==
  c = "backslash" \/ s.done \/ (c \in Closing /\ (s.open = <<>> \/ Last(s.open) # c))

(* The reference one character on, field by field: behind a backslash,     *)
LEMMA NestEscaped ==
  ASSUME NEW s \in NestStates, NEW c \in Chars, s.escaped
  PROVE  /\ Nest(s, c) \in NestStates
         /\ Nest(s, c).open = s.open /\ Nest(s, c).inString = s.inString
         /\ Nest(s, c).escaped = FALSE
         /\ Nest(s, c).wrong = s.wrong /\ Nest(s, c).done = s.done
<1>1. Nest(s, c) = [s EXCEPT !.escaped = FALSE]
  BY DEF Nest
<1>2. [s EXCEPT !.escaped = FALSE] \in NestStates
  BY DEF NestStates
<1> QED
  BY <1>1, <1>2 DEF NestStates

(* in a string,                                                            *)
LEMMA NestInString ==
  ASSUME NEW s \in NestStates, NEW c \in Chars, ~s.escaped, s.inString
  PROVE  /\ Nest(s, c) \in NestStates
         /\ Nest(s, c).open = s.open /\ Nest(s, c).inString = (c # "quote")
         /\ Nest(s, c).escaped = (c = "backslash")
         /\ Nest(s, c).wrong = (s.wrong \/ c = "newline") /\ Nest(s, c).done = s.done
<1> DEFINE n == [s EXCEPT !.inString = c # "quote", !.escaped = c = "backslash",
                          !.wrong = s.wrong \/ c = "newline"]
<1>1. Nest(s, c) = n
  BY DEF Nest
<1>2. n \in NestStates
  BY DEF NestStates
<1>3. /\ n.open = s.open /\ n.inString = (c # "quote")
      /\ n.escaped = (c = "backslash")
      /\ n.wrong = (s.wrong \/ c = "newline") /\ n.done = s.done
  BY Zenon DEF NestStates
<1> QED
  BY <1>1, <1>2, <1>3, Zenon

(* What the brackets do to the stack,                                      *)
LEMMA NewOpenCases ==
  ASSUME NEW s \in NestStates, NEW c \in Chars
  PROVE  /\ NewOpen(s, c) \in Seq(Closing)
         /\ c \in Opening => NewOpen(s, c) = Append(s.open, Partner(c))
         /\ c \in Closing /\ s.open # <<>> => NewOpen(s, c) = Front(s.open)
         /\ c \notin Opening /\ c \notin Closing => NewOpen(s, c) = s.open
<1>1. s.open \in Seq(Closing) /\ \A x \in Opening : x \notin Closing
  BY DEF NestStates, Opening, Closing
<1>2. Partner(c) \in Closing
  BY DEF Partner, Closing
<1>3. Append(s.open, Partner(c)) \in Seq(Closing)
  BY <1>1, <1>2
<1>4. s.open # <<>> => Front(s.open) \in Seq(Closing)
  BY <1>1 DEF Front
<1>5. CASE c \in Opening
  <2>1. NewOpen(s, c) = Append(s.open, Partner(c)) /\ c \notin Closing
    BY <1>1, <1>5, Zenon DEF NewOpen
  <2> QED
    BY <1>3, <1>5, <2>1, Zenon
<1>6. CASE c \notin Opening /\ c \in Closing /\ s.open # <<>>
  <2>1. NewOpen(s, c) = Front(s.open)
    BY <1>6, Zenon DEF NewOpen
  <2> QED
    BY <1>4, <1>6, <2>1, Zenon
<1>7. CASE c \notin Opening /\ ~(c \in Closing /\ s.open # <<>>)
  <2>1. NewOpen(s, c) = s.open
    BY <1>7, Zenon DEF NewOpen
  <2> QED
    BY <1>1, <1>7, <2>1, Zenon
<1> QED
  BY <1>5, <1>6, <1>7, Zenon

(* and everything else outside a string.                                   *)
LEMMA NestOutside ==
  ASSUME NEW s \in NestStates, NEW c \in Chars, ~s.escaped, ~s.inString
  PROVE  /\ Nest(s, c) \in NestStates
         /\ Nest(s, c).open = NewOpen(s, c) /\ Nest(s, c).inString = (c = "quote")
         /\ Nest(s, c).escaped = s.escaped
         /\ Nest(s, c).wrong = (s.wrong \/ Misplaced(s, c))
         /\ Nest(s, c).done = (c \in Closing /\ Len(s.open) = 1)
<1> DEFINE w == s.wrong \/ Misplaced(s, c)
           d == c \in Closing /\ Len(s.open) = 1
           o == NewOpen(s, c)
           n == [s EXCEPT !.inString = c = "quote", !.open = o, !.wrong = w, !.done = d]
<1>1. Nest(s, c) = n
  BY DEF Nest, NewOpen, Misplaced
<1>2. o \in Seq(Closing)
  BY NewOpenCases
<1>3. w \in BOOLEAN /\ d \in BOOLEAN /\ (c = "quote") \in BOOLEAN
  BY DEF NestStates, Misplaced
<1> HIDE DEF w, d, o
<1>4. n \in NestStates
  BY <1>2, <1>3 DEF NestStates
<1>5. /\ n.open = o /\ n.inString = (c = "quote")
      /\ n.escaped = s.escaped /\ n.wrong = w /\ n.done = d
  BY Zenon DEF NestStates
<1> QED
  BY <1>1, <1>4, <1>5, Zenon DEF w, d, o
(* The scanner one character on, field by field: behind a backslash,       *)
LEMMA ReadEscaped ==
  ASSUME NEW r \in ReadStates, NEW c, NEW open, r.escaped
  PROVE  /\ Read(r, c, open) \in ReadStates
         /\ Read(r, c, open).depth = r.depth /\ Read(r, c, open).inString = r.inString
         /\ Read(r, c, open).escaped = FALSE
<1>1. Read(r, c, open) = [r EXCEPT !.escaped = FALSE]
  BY DEF Read
<1>2. [r EXCEPT !.escaped = FALSE] \in ReadStates
  BY DEF ReadStates
<1> QED
  BY <1>1, <1>2 DEF ReadStates

(* in a string,                                                            *)
LEMMA ReadInString ==
  ASSUME NEW r \in ReadStates, NEW c, NEW open, ~r.escaped, r.inString
  PROVE  /\ Read(r, c, open) \in ReadStates
         /\ Read(r, c, open).depth = r.depth /\ Read(r, c, open).inString = (c # "quote")
         /\ Read(r, c, open).escaped = (c = "backslash")
<1>1. CASE c = "backslash"
  <2>1. Read(r, c, open) = [r EXCEPT !.escaped = TRUE]
    BY <1>1, Zenon DEF Read
  <2>2. [r EXCEPT !.escaped = TRUE] \in ReadStates
    BY DEF ReadStates
  <2>3. /\ [r EXCEPT !.escaped = TRUE].depth = r.depth
        /\ [r EXCEPT !.escaped = TRUE].inString = r.inString
        /\ [r EXCEPT !.escaped = TRUE].escaped = TRUE
    BY DEF ReadStates
  <2>4. r.inString = TRUE /\ (c # "quote") = TRUE /\ (c = "backslash") = TRUE
    BY <1>1 DEF ReadStates
  <2> QED
    BY <2>1, <2>2, <2>3, <2>4, Zenon
<1>2. CASE c = "quote"
  <2>1. Read(r, c, open) = [r EXCEPT !.inString = ~r.inString]
    BY <1>2 DEF Read
  <2>2. [r EXCEPT !.inString = ~r.inString] \in ReadStates
    BY DEF ReadStates
  <2>3. /\ [r EXCEPT !.inString = ~r.inString].depth = r.depth
        /\ [r EXCEPT !.inString = ~r.inString].inString = ~r.inString
        /\ [r EXCEPT !.inString = ~r.inString].escaped = r.escaped
    BY Zenon DEF ReadStates
  <2>4. r.inString = TRUE /\ r.escaped = FALSE
        /\ (c # "quote") = FALSE /\ (c = "backslash") = FALSE
    BY <1>2 DEF ReadStates
  <2>5. (~r.inString) = FALSE
    BY <2>4
  <2> QED
    BY <2>1, <2>2, <2>3, <2>4, <2>5, Zenon
<1>3. CASE c # "backslash" /\ c # "quote"
  <2>1. Read(r, c, open) = r
    BY <1>3 DEF Read
  <2>2. r.inString = TRUE /\ r.escaped = FALSE
        /\ (c # "quote") = TRUE /\ (c = "backslash") = FALSE
    BY <1>3 DEF ReadStates
  <2> QED
    BY <2>1, <2>2, Zenon
<1> QED
  BY <1>1, <1>2, <1>3, Zenon

(* The depth, one character on.                                            *)
NewDepth(d, c, open) == IF c = open THEN d + 1 ELSE IF c = Partner(open) THEN d - 1 ELSE d

(* and outside one, where a backslash would be looked at as text;          *)
LEMMA ReadOutside ==
  ASSUME NEW r \in ReadStates, NEW c, NEW open \in Opening,
         ~r.escaped, ~r.inString, c # "backslash"
  PROVE  /\ Read(r, c, open) \in ReadStates
         /\ Read(r, c, open).depth = NewDepth(r.depth, c, open)
         /\ Read(r, c, open).inString = (c = "quote")
         /\ Read(r, c, open).escaped = r.escaped
<1>0. open # "quote" /\ Partner(open) # "quote" /\ open # Partner(open)
  BY DEF Partner, Opening
<1>1. CASE c = "quote"
  <2>1. Read(r, c, open) = [r EXCEPT !.inString = ~r.inString]
    BY <1>1 DEF Read
  <2>2. [r EXCEPT !.inString = ~r.inString] \in ReadStates
    BY DEF ReadStates
  <2>3. /\ [r EXCEPT !.inString = ~r.inString].depth = r.depth
        /\ [r EXCEPT !.inString = ~r.inString].inString = ~r.inString
        /\ [r EXCEPT !.inString = ~r.inString].escaped = r.escaped
    BY Zenon DEF ReadStates
  <2>4. (~r.inString) = TRUE /\ (c = "quote") = TRUE
    BY <1>1
  <2>5. NewDepth(r.depth, c, open) = r.depth
    BY <1>0, <1>1 DEF NewDepth
  <2> QED
    BY <2>1, <2>2, <2>3, <2>4, <2>5, Zenon
<1>2. CASE c # "quote"
  <2> DEFINE n == NewDepth(r.depth, c, open)
  <2>1. Read(r, c, open) = [r EXCEPT !.depth = n]
    BY <1>0, <1>2 DEF Read, NewDepth
  <2>2. n \in Int
    BY DEF NewDepth, ReadStates
  <2> HIDE DEF n
  <2>3. [r EXCEPT !.depth = n] \in ReadStates
    BY <2>2 DEF ReadStates
  <2>4. /\ [r EXCEPT !.depth = n].depth = n
        /\ [r EXCEPT !.depth = n].inString = r.inString
        /\ [r EXCEPT !.depth = n].escaped = r.escaped
    BY DEF ReadStates
  <2>5. r.inString = FALSE /\ (c = "quote") = FALSE
    BY <1>2 DEF ReadStates
  <2> QED
    BY <2>1, <2>3, <2>4, <2>5, Zenon DEF n
<1> QED
  BY <1>1, <1>2

(* in every case it stays in its states.                                   *)
LEMMA ReadType ==
  ASSUME NEW r \in ReadStates, NEW c, NEW open \in Opening
  PROVE  Read(r, c, open) \in ReadStates
<1>1. CASE c # "backslash" \/ r.escaped \/ r.inString
  BY <1>1, ReadEscaped, ReadInString, ReadOutside
<1>2. CASE c = "backslash" /\ ~r.escaped /\ ~r.inString
  <2>1. Partner(open) # "backslash" /\ open # "backslash"
    BY DEF Partner, Opening
  <2>2. Read(r, c, open) = [r EXCEPT !.depth = r.depth]
    BY <1>2, <2>1 DEF Read
  <2> QED
    BY <2>2 DEF ReadStates
<1> QED
  BY <1>1, <1>2

(* How often a bracket is among the open ones.                             *)
Count(o, p) == Cardinality({j \in 1 .. Len(o) : o[j] = p})

(* One more at the end counts if it is that bracket,                       *)
LEMMA CountAppend ==
  ASSUME NEW o \in Seq(Closing), NEW x \in Closing, NEW p
  PROVE  /\ Count(o, p) \in Nat
         /\ Count(Append(o, x), p) = IF x = p THEN Count(o, p) + 1 ELSE Count(o, p)
<1> DEFINE n == Len(o)
           S == {j \in 1 .. n : o[j] = p}
           R == {j \in 1 .. Len(Append(o, x)) : Append(o, x)[j] = p}
<1>1. n \in Nat /\ Len(Append(o, x)) = n + 1
  OBVIOUS
<1>2. /\ \A j \in 1 .. n : Append(o, x)[j] = o[j]
      /\ Append(o, x)[n + 1] = x
  OBVIOUS
<1>3. IsFiniteSet(S)
  <2> HIDE DEF n
  <2>1. IsFiniteSet(1 .. n)
    BY <1>1, FS_Interval
  <2> QED
    BY <2>1, FS_Subset
<1>4. n + 1 \notin S
  BY <1>1
<1>5. R = IF x = p THEN S \cup {n + 1} ELSE S
  BY <1>1, <1>2
<1> HIDE DEF S, R
<1>6. Cardinality(S) \in Nat
  BY <1>3, FS_CardinalityType
<1>7. Cardinality(R) = IF x = p THEN Cardinality(S) + 1 ELSE Cardinality(S)
  <2>1. Cardinality(S \cup {n + 1}) = Cardinality(S) + 1
    BY <1>3, <1>4, FS_AddElement
  <2> QED
    BY <1>5, <2>1
<1> QED
  BY <1>6, <1>7 DEF S, R, Count

(* one less likewise,                                                      *)
LEMMA CountFront ==
  ASSUME NEW o \in Seq(Closing), o # <<>>, NEW p
  PROVE  /\ Count(Front(o), p) \in Nat
         /\ Count(o, p) = IF Last(o) = p THEN Count(Front(o), p) + 1 ELSE Count(Front(o), p)
<1>1. Front(o) \in Seq(Closing) /\ Last(o) \in Closing /\ o = Append(Front(o), Last(o))
  BY DEF Front, Last
<1>2. PICK f \in Seq(Closing), x \in Closing : f = Front(o) /\ x = Last(o)
  BY <1>1
<1>3. /\ Count(f, p) \in Nat
      /\ Count(Append(f, x), p) = IF x = p THEN Count(f, p) + 1 ELSE Count(f, p)
  BY CountAppend
<1>4. o = Append(f, x)
  BY <1>1, <1>2
<1> QED
  BY <1>2, <1>3, <1>4, Zenon

(* and none is counted in an empty stack only.                             *)
LEMMA CountNone ==
  ASSUME NEW o \in Seq(Closing), NEW p
  PROVE  /\ o = <<>> => Count(o, p) = 0
         /\ o # <<>> /\ o[1] = p => Count(o, p) # 0
<1> DEFINE S == {j \in 1 .. Len(o) : o[j] = p}
<1>1. IsFiniteSet(S) /\ Len(o) \in Nat
  BY FS_Interval, FS_Subset
<1>2. o = <<>> => S = {}
  OBVIOUS
<1>3. o # <<>> /\ o[1] = p => 1 \in S
  OBVIOUS
<1> HIDE DEF S
<1> QED
  BY <1>1, <1>2, <1>3, FS_EmptySet DEF Count, S

(* The scanner counts what the reference keeps on its stack, as long as    *)
(* nothing is wrong.                                                       *)
InStep(s, r, p) ==
  ~s.wrong => /\ s.inString = r.inString /\ s.escaped = r.escaped
              /\ r.depth = Count(s.open, p)

(* In its right place, a bracket moves the depth as it moves the count.    *)
LEMMA DepthIsCount ==
  ASSUME NEW s \in NestStates, NEW c \in Chars, NEW open \in Opening, ~Misplaced(s, c)
  PROVE  Count(NewOpen(s, c), Partner(open)) = NewDepth(Count(s.open, Partner(open)), c, open)
<1> DEFINE p == Partner(open)
<1>1. p \in Closing /\ open \notin Closing /\ p \notin Opening
  BY DEF Partner, Opening, Closing
<1>2. PICK o \in Seq(Closing) : o = s.open
  BY DEF NestStates
<1>3. \A q \in Closing : Count(o, q) \in Nat
  BY CountAppend
<1>4. CASE c \in Opening
  <2>1. PICK x \in Closing : x = Partner(c)
    BY DEF Partner, Closing
  <2>2. x = p <=> c = open
    BY <1>4, <2>1 DEF Partner, Opening
  <2>3. NewOpen(s, c) = Append(o, x)
    BY <1>2, <1>4, <2>1, NewOpenCases
  <2>4. Count(Append(o, x), p) = IF x = p THEN Count(o, p) + 1 ELSE Count(o, p)
    BY CountAppend
  <2>5. c # p
    BY <1>1, <1>4
  <2> HIDE DEF p
  <2> QED
    BY <1>2, <2>2, <2>3, <2>4, <2>5 DEF NewDepth, p
<1>5. CASE c \in Closing
  <2>1. o # <<>> /\ Last(o) = c
    BY <1>2, <1>5 DEF Misplaced
  <2>2. NewOpen(s, c) = Front(o) /\ c # open
    BY <1>1, <1>2, <1>5, <2>1, NewOpenCases
  <2>3. /\ Count(Front(o), p) \in Nat
        /\ Count(o, p) = IF c = p THEN Count(Front(o), p) + 1 ELSE Count(Front(o), p)
    BY <2>1, CountFront
  <2> HIDE DEF p
  <2> QED
    BY <1>2, <2>2, <2>3 DEF NewDepth, p
<1>6. CASE c \notin Opening /\ c \notin Closing
  <2>1. NewOpen(s, c) = s.open
    BY <1>6, NewOpenCases
  <2> QED
    BY <1>1, <1>6, <2>1 DEF NewDepth
<1> QED
  BY <1>4, <1>5, <1>6

(* The step lemma: one character on, they are still in step.               *)
LEMMA StaysInStep ==
  ASSUME NEW s \in NestStates, NEW r \in ReadStates, NEW c \in Chars, NEW open \in Opening,
         InStep(s, r, Partner(open))
  PROVE  InStep(Nest(s, c), Read(r, c, open), Partner(open))
<1> DEFINE p == Partner(open)
           n == Nest(s, c)
           m == Read(r, c, open)
<1> SUFFICES ASSUME ~n.wrong
             PROVE  n.inString = m.inString /\ n.escaped = m.escaped /\ m.depth = Count(n.open, p)
  BY DEF InStep
<1>1. CASE s.escaped
  <2>1. n.open = s.open /\ n.inString = s.inString /\ n.escaped = FALSE /\ n.wrong = s.wrong
    BY <1>1, NestEscaped
  <2>2. s.inString = r.inString /\ s.escaped = r.escaped /\ r.depth = Count(s.open, p)
    BY <2>1 DEF InStep
  <2>3. m.depth = r.depth /\ m.inString = r.inString /\ m.escaped = FALSE
    BY <1>1, <2>2, ReadEscaped
  <2> HIDE DEF n, m, p
  <2> QED
    BY <2>1, <2>2, <2>3, Zenon
<1>2. CASE ~s.escaped /\ s.inString
  <2>1. /\ n.open = s.open /\ n.inString = (c # "quote") /\ n.escaped = (c = "backslash")
        /\ n.wrong = (s.wrong \/ c = "newline")
    BY <1>2, NestInString
  <2>2. s.inString = r.inString /\ s.escaped = r.escaped /\ r.depth = Count(s.open, p)
    BY <2>1 DEF InStep
  <2>3. m.depth = r.depth /\ m.inString = (c # "quote") /\ m.escaped = (c = "backslash")
    BY <1>2, <2>2, ReadInString
  <2> HIDE DEF n, m, p
  <2> QED
    BY <2>1, <2>2, <2>3, Zenon
<1>3. CASE ~s.escaped /\ ~s.inString
  <2>1. /\ n.open = NewOpen(s, c) /\ n.inString = (c = "quote") /\ n.escaped = s.escaped
        /\ n.wrong = (s.wrong \/ Misplaced(s, c))
    BY <1>3, NestOutside
  <2>2. ~s.wrong /\ ~Misplaced(s, c)
    BY <2>1
  <2>3. s.inString = r.inString /\ s.escaped = r.escaped /\ r.depth = Count(s.open, p)
    BY <2>2 DEF InStep
  <2>4. c # "backslash"
    BY <2>2 DEF Misplaced
  <2>5. m.depth = NewDepth(r.depth, c, open) /\ m.inString = (c = "quote") /\ m.escaped = r.escaped
    BY <1>3, <2>3, <2>4, ReadOutside
  <2>6. Count(NewOpen(s, c), p) = NewDepth(Count(s.open, p), c, open)
    BY <2>2, DepthIsCount
  <2> HIDE DEF n, m, p
  <2> QED
    BY <2>1, <2>3, <2>5, <2>6, Zenon
<1> QED
  BY <1>1, <1>2, <1>3

(* Once the outermost bracket is closed anything more is wrong; until then *)
(* it stays at the bottom of the stack.                                    *)
Bottom(s, p) ==
  ~s.wrong => IF s.done THEN s.open = <<>> /\ ~s.inString /\ ~s.escaped
              ELSE s.open # <<>> /\ s.open[1] = p

(* What is wrong stays so.                                                 *)
LEMMA WrongStays ==
  ASSUME NEW s \in NestStates, NEW c \in Chars, s.wrong
  PROVE  Nest(s, c).wrong
<1>1. CASE s.escaped
  BY <1>1, NestEscaped
<1>2. CASE ~s.escaped /\ s.inString
  BY <1>2, NestInString
<1>3. CASE ~s.escaped /\ ~s.inString
  BY <1>3, NestOutside
<1> QED
  BY <1>1, <1>2, <1>3

(* The bottom of the stack, one character on.                              *)
LEMMA BottomStays ==
  ASSUME NEW s \in NestStates, NEW c \in Chars, NEW p, Bottom(s, p)
  PROVE  /\ Bottom(Nest(s, c), p)
         /\ s.done => Nest(s, c).wrong
<1> DEFINE n == Nest(s, c)
<1>1. CASE s.wrong
  <2>1. n.wrong
    BY <1>1, WrongStays
  <2> QED
    BY <2>1 DEF Bottom
<1>2. CASE ~s.wrong /\ s.done
  <2>1. ~s.inString /\ ~s.escaped
    BY <1>2 DEF Bottom
  <2>2. n.wrong = (s.wrong \/ Misplaced(s, c))
    BY <2>1, NestOutside
  <2>3. n.wrong
    BY <1>2, <2>2 DEF Misplaced
  <2> HIDE DEF n
  <2> QED
    BY <2>3, Zenon DEF Bottom, n
<1>3. ASSUME ~s.wrong, ~s.done
      PROVE  Bottom(n, p)
  <2>1. PICK o \in Seq(Closing) : o = s.open
    BY DEF NestStates
  <2>2. o # <<>> /\ o[1] = p
    BY <1>3, <2>1 DEF Bottom
  <2>3. CASE s.escaped
    <3>1. n.open = s.open /\ n.wrong = s.wrong /\ n.done = s.done
      BY <2>3, NestEscaped
    <3> HIDE DEF n
    <3> QED
      BY <1>3, <2>1, <2>2, <3>1, Zenon DEF Bottom, n
  <2>4. CASE ~s.escaped /\ s.inString
    <3>1. n.open = s.open /\ n.done = s.done
      BY <2>4, NestInString
    <3> HIDE DEF n
    <3> QED
      BY <1>3, <2>1, <2>2, <3>1, Zenon DEF Bottom, n
  <2>5. CASE ~s.escaped /\ ~s.inString
    <3>1. /\ n.open = NewOpen(s, c) /\ n.inString = (c = "quote") /\ n.escaped = s.escaped
          /\ n.done = (c \in Closing /\ Len(s.open) = 1)
      BY <2>5, NestOutside
    <3>2. CASE c \in Opening
      <4>1. PICK x \in Closing : x = Partner(c)
        BY DEF Partner, Closing
      <4>2. NewOpen(s, c) = Append(o, x) /\ c \notin Closing
        BY <2>1, <3>2, <4>1, NewOpenCases DEF Opening, Closing
      <4>3. Append(o, x) # <<>> /\ Append(o, x)[1] = p
        BY <2>2
      <4>4. ~n.done /\ n.open # <<>> /\ n.open[1] = p
        BY <3>1, <4>2, <4>3
      <4> HIDE DEF n
      <4> QED
        BY <4>4, Zenon DEF Bottom
    <3>3. CASE c \in Closing
      <4>1. NewOpen(s, c) = Front(o) /\ c # "quote"
        BY <2>1, <2>2, <3>3, NewOpenCases DEF Closing
      <4>2. CASE Len(o) = 1
        <5>1. Front(o) = <<>>
          BY <4>2 DEF Front
        <5>2. n.open = <<>> /\ ~n.inString /\ ~n.escaped
          BY <2>5, <3>1, <4>1, <5>1
        <5>3. n.done = TRUE
          BY <2>1, <3>1, <3>3, <4>2
        <5> HIDE DEF n
        <5> QED
          BY <5>2, <5>3, Zenon DEF Bottom
      <4>3. CASE Len(o) # 1
        <5>1. PICK k \in Nat : k = Len(o) - 1 /\ k # 0
          <6>1. Len(o) \in Nat /\ Len(o) # 0
            BY <2>2
          <6>2. Len(o) - 1 \in Nat /\ Len(o) - 1 # 0
            BY <4>3, <6>1
          <6> QED
            BY <6>2
        <5>4. Front(o) = SubSeq(o, 1, k) /\ k <= Len(o)
          BY <5>1 DEF Front
        <5>5. Len(SubSeq(o, 1, k)) = k /\ SubSeq(o, 1, k)[1] = o[1]
          BY <5>1, <5>4
        <5>6. Front(o) # <<>> /\ Front(o)[1] = p
          <6>1. SubSeq(o, 1, k) # <<>>
            BY <5>1, <5>5
          <6> QED
            BY <2>2, <5>4, <5>5, <6>1
        <5>2. n.open # <<>> /\ n.open[1] = p
          BY <3>1, <4>1, <5>6
        <5>3. n.done = FALSE
          BY <2>1, <3>1, <3>3, <4>3
        <5> HIDE DEF n
        <5> QED
          BY <5>2, <5>3, Zenon DEF Bottom
      <4> QED
        BY <4>2, <4>3
    <3>4. CASE c \notin Opening /\ c \notin Closing
      <4>1. n.open = o
        BY <2>1, <3>1, <3>4, NewOpenCases
      <4>2. n.done = FALSE
        BY <3>1, <3>4
      <4> HIDE DEF n
      <4> QED
        BY <2>2, <4>1, <4>2, Zenon DEF Bottom
    <3> QED
      BY <3>2, <3>3, <3>4
  <2> QED
    BY <2>3, <2>4, <2>5
<1> QED
  <2>1. s.wrong \in BOOLEAN /\ s.done \in BOOLEAN
    BY DEF NestStates
  <2>2. s.wrong => n.wrong
    BY WrongStays
  <2> HIDE DEF n
  <2> QED
    BY <1>1, <1>2, <1>3, <2>1, <2>2, Zenon DEF n

-----------------------------------------------------------------------------
(* The reference after each character of a text, and the scanner after     *)
(* each character from a bracket on.                                       *)
NestOp == [p \in NestStates \X Chars |-> Nest(p[1], p[2])]

NestTrail(g, t) ==
  /\ g \in [0 .. Len(t) -> NestStates]
  /\ g[0] = Unread
  /\ \A k \in 1 .. Len(t) : g[k] = Nest(g[k - 1], t[k])

(* A nested text has a trail that ends well.                               *)
LEMMA NestedByTrail ==
  ASSUME NEW t \in Seq(Chars), Nested(t)
  PROVE  /\ Head(t) \in Opening
         /\ \E g : NestTrail(g, t) /\ g[Len(t)].done /\ ~g[Len(t)].wrong
<1> DEFINE Eq(F) == F = [s \in SUBSET (1 .. Len(t)) |->
                           IF s = {} THEN Unread ELSE Nest(F[s \ {Max(s)}], t[Max(s)])]
           G == CHOOSE F : Eq(F)
           end == FoldLeft(Nest, Unread, t)
<1>1. end = G[1 .. Len(t)]
  <2>1. DOMAIN t = 1 .. Len(t)
    OBVIOUS
  <2> QED
    BY <2>1 DEF FoldLeft, MapThenFoldSet
<1>2. Running(NestOp, Unread, t, NestStates, Chars)
  <2>1. Unread \in NestStates
    BY DEF Unread, NestStates
  <2>2. NestOp \in [NestStates \X Chars -> NestStates]
    <3>1. \A s \in NestStates : \A c \in Chars : Nest(s, c) \in NestStates
      <4> SUFFICES ASSUME NEW s \in NestStates, NEW c \in Chars
                   PROVE  Nest(s, c) \in NestStates
        OBVIOUS
      <4> QED
        BY NestEscaped, NestInString, NestOutside
    <3> QED
      BY <3>1 DEF NestOp
  <2> QED
    BY <2>1, <2>2 DEF Running
<1>3. PICK F : LeftFold(F, NestOp, Unread, t, NestStates)
  BY <1>2, LeftFoldSolved
<1>4. \A s \in SUBSET (1 .. Len(t)) : s # {} => t[Max(s)] \in Chars
  BY ElementIn
<1>5. \A v \in NestStates : \A x \in Chars : NestOp[<<v, x>>] = Nest(v, x)
  BY DEF NestOp
<1>6. Eq(F)
  <2>1. \A s \in SUBSET (1 .. Len(t)) : F[s \ {Max(s)}] \in NestStates
    BY <1>3 DEF LeftFold
  <2>2. \A s \in SUBSET (1 .. Len(t)) :
          F[s] = IF s = {} THEN Unread ELSE Nest(F[s \ {Max(s)}], t[Max(s)])
    BY <1>3, <1>4, <1>5, <2>1 DEF LeftFold
  <2>3. F = [s \in SUBSET (1 .. Len(t)) |-> F[s]]
    BY <1>3 DEF LeftFold
  <2> QED
    BY <2>2, <2>3
<1>7. Eq(G)
  <2> HIDE DEF Eq
  <2> QED
    BY <1>6
<1> HIDE DEF G
<1>8. FoldsLeft(G, NestOp, Unread, t, NestStates)
  BY <1>4, <1>5, <1>7 DEF FoldsLeft
<1>9. G[1 .. Len(t)] = Run(NestOp, Unread, t)
  BY <1>2, <1>8, LeftFoldRuns
<1>10. PICK g \in [0 .. Len(t) -> NestStates] :
         /\ g[0] = Unread
         /\ \A k \in 1 .. Len(t) : g[k] = NestOp[<<g[k - 1], t[k]>>]
         /\ Run(NestOp, Unread, t) = g[Len(t)]
  BY <1>2, RunTrail
<1>11. NestTrail(g, t)
  <2> SUFFICES ASSUME NEW k \in 1 .. Len(t)
               PROVE  g[k] = Nest(g[k - 1], t[k])
    BY <1>10 DEF NestTrail
  <2>1. g[k - 1] \in NestStates /\ t[k] \in Chars
    OBVIOUS
  <2> QED
    BY <1>5, <1>10, <2>1
<1>12. Head(t) \in Opening /\ end.done /\ ~end.wrong
  BY DEF Nested, Unread
<1>13. end = g[Len(t)]
  BY <1>1, <1>9, <1>10
<1> HIDE DEF end
<1> QED
  BY <1>11, <1>12, <1>13

ReadTrail(a, start) ==
  /\ a \in [start - 1 .. Len(text) -> ReadStates]
  /\ a[start - 1] = Outside
  /\ \A k \in start .. Len(text) : a[k] = Read(a[k - 1], text[k], text[start])

(* Reading is the scanner's.                                               *)
LEMMA ReadingByTrail ==
  ASSUME text \in Seq(Chars), NEW start \in 1 .. Len(text), text[start] \in Opening
  PROVE  ReadTrail(Reading(start), start)
<1> DEFINE n == Len(text)
           m == start - 1
           open == text[start]
           h == [p \in (m .. n) \X ReadStates |-> Read(p[2], text[p[1]], open)]
           Eq(f) == f = [k \in m .. n |-> IF k < start THEN Outside
                                          ELSE Read(f[k - 1], text[k], open)]
           a == CHOOSE f : Eq(f)
<1>1. n \in Nat /\ m \in Int /\ m <= n /\ start \in Int
  OBVIOUS
<1>2. Outside \in ReadStates
  BY DEF Outside, ReadStates
<1>3. \A k \in m .. n : \A v \in ReadStates : h[<<k, v>>] = Read(v, text[k], open)
  OBVIOUS
<1>4. \A k \in m .. n : \A v \in ReadStates : Read(v, text[k], open) \in ReadStates
  BY ReadType
<1>5. Stepping(h, m, n, Outside, ReadStates)
  <2> HIDE DEF h, m, n, open
  <2> QED
    BY <1>1, <1>2, <1>3, <1>4 DEF Stepping
<1>6. PICK g \in [m .. n -> ReadStates] : Trail(g, m, n, Outside, h)
  <2> HIDE DEF h, m, n, open
  <2> QED
    BY <1>1, <1>5, TrailExists
<1>7. \A k \in m .. n : g[k] = IF k < start THEN Outside ELSE Read(g[k - 1], text[k], open)
  <2> SUFFICES ASSUME NEW k \in m .. n
               PROVE  g[k] = IF k < start THEN Outside ELSE Read(g[k - 1], text[k], open)
    OBVIOUS
  <2>1. g[k] = IF k = m THEN Outside ELSE h[<<k, g[k - 1]>>]
    BY <1>6 DEF Trail
  <2>2. k = m <=> k < start
    BY <1>1
  <2>3. k # m => k - 1 \in m .. n
    BY <1>1
  <2> HIDE DEF h, m, n, open
  <2> QED
    BY <1>3, <1>6, <2>1, <2>2, <2>3
<1>8. Eq(g)
  BY <1>7
<1>9. Eq(a)
  <2> HIDE DEF Eq
  <2> QED
    BY <1>8
<1>10. Reading(start) = a
  BY DEF Reading
<1> HIDE DEF a
<1>11. /\ a[m] = Outside
       /\ \A k \in start .. n : a[k] = Read(a[k - 1], text[k], open)
  <2>1. m \in m .. n /\ m < start /\ \A k \in start .. n : k \in m .. n /\ ~(k < start)
    BY <1>1
  <2> HIDE DEF m, n, open
  <2>2. \A k \in m .. n : a[k] = IF k < start THEN Outside ELSE Read(a[k - 1], text[k], open)
    BY <1>9
  <2> QED
    BY <2>1, <2>2
<1> DEFINE T == {d \in Nat : m + d <= n => a[m + d] \in ReadStates}
<1>12. 0 \in T
  BY <1>1, <1>2, <1>11
<1>13. ASSUME NEW d \in Nat, d \in T
       PROVE  d + 1 \in T
  <2> SUFFICES ASSUME m + (d + 1) <= n
               PROVE  a[m + (d + 1)] \in ReadStates
    OBVIOUS
  <2>1. PICK k \in start .. n : k = m + (d + 1) /\ k - 1 = m + d /\ k \in m .. n
    BY <1>1
  <2>2. a[k - 1] \in ReadStates
    BY <1>1, <1>13, <2>1
  <2>3. Read(a[k - 1], text[k], open) \in ReadStates
    BY <1>4, <2>1, <2>2
  <2> QED
    BY <1>11, <2>1, <2>3
<1> HIDE DEF T
<1>14. Nat \subseteq T
  BY <1>12, <1>13, NaturalInduction
<1>15. ASSUME NEW k \in m .. n
       PROVE  a[k] \in ReadStates
  <2>1. PICK d \in Nat : m + d = k /\ m + d <= n
    <3>1. k - m \in Nat /\ m + (k - m) = k /\ k <= n
      BY <1>1
    <3> QED
      BY <3>1
  <2>2. d \in T
    BY <1>14
  <2> QED
    BY <2>1, <2>2 DEF T
<1>16. a \in [m .. n -> ReadStates]
  <2> HIDE DEF m, n, open
  <2> QED
    BY <1>9, <1>15
<1> QED
  BY <1>10, <1>11, <1>16 DEF ReadTrail

-----------------------------------------------------------------------------
(* A candidate side by side with the scanner from its bracket on: f and e  *)
(* are its ends, g and a the two trails.                                   *)
SideBySide(f, e, g, a) ==
  /\ text \in Seq(Chars)
  /\ f \in 1 .. Len(text) /\ e \in 1 .. Len(text) /\ f < e
  /\ text[f] \in Opening
  /\ g \in [0 .. e + 1 - f -> NestStates]
  /\ g[0] = Unread
  /\ \A k \in 1 .. e + 1 - f : g[k] = Nest(g[k - 1], text[f + k - 1])
  /\ g[e + 1 - f].done /\ ~g[e + 1 - f].wrong
  /\ ReadTrail(a, f)

(* Every JSON value the parser may accept has them.                        *)
LEMMA CandidateTrails ==
  ASSUME text \in Seq(Chars), NEW b \in Candidates(text)
  PROVE  /\ \E g : SideBySide(b.from, b.to, g, Reading(b.from))
<1>1. PICK f \in 1 .. Len(text), e \in 1 .. Len(text) :
        /\ f = b.from /\ e = b.to /\ f < e /\ text[f] \in Opening
        /\ Nested(SubSeq(text, f, e))
  BY DEF Candidates
<1> DEFINE t == SubSeq(text, f, e)
<1>2. t \in Seq(Chars) /\ Len(t) = e + 1 - f
  BY <1>1
<1>3. \A k \in 1 .. e + 1 - f : t[k] = text[f + k - 1]
  BY <1>1
<1> HIDE DEF t
<1>4. PICK g : NestTrail(g, t) /\ g[Len(t)].done /\ ~g[Len(t)].wrong
  BY <1>1, <1>2, NestedByTrail DEF t
<1>5. ReadTrail(Reading(f), f)
  BY <1>1, ReadingByTrail
<1>6. SideBySide(f, e, g, Reading(f))
  <2>1. \A k \in 1 .. e + 1 - f : g[k] = Nest(g[k - 1], text[f + k - 1])
    BY <1>2, <1>3, <1>4 DEF NestTrail
  <2>2. g \in [0 .. e + 1 - f -> NestStates] /\ g[0] = Unread
    BY <1>2, <1>4 DEF NestTrail
  <2>3. g[e + 1 - f].done /\ ~g[e + 1 - f].wrong
    BY <1>2, <1>4
  <2> QED
    BY <1>1, <1>5, <2>1, <2>2, <2>3 DEF SideBySide
<1> QED
  BY <1>1, <1>6

(* One character further, both move on.                                    *)
LEMMA BothMove ==
  ASSUME NEW f, NEW e, NEW g, NEW a, SideBySide(f, e, g, a),
         NEW k \in Nat, k < e + 1 - f
  PROVE  /\ g[k] \in NestStates /\ a[f - 1 + k] \in ReadStates
         /\ text[f + k] \in Chars
         /\ g[k + 1] = Nest(g[k], text[f + k])
         /\ a[f - 1 + (k + 1)] = Read(a[f - 1 + k], text[f + k], text[f])
<1>1. /\ f \in 1 .. Len(text) /\ e \in 1 .. Len(text) /\ Len(text) \in Nat
      /\ text \in Seq(Chars)
  BY DEF SideBySide
<1>2. PICK i \in f .. e : i = f + k
  BY <1>1
<1>3. /\ k \in 0 .. e + 1 - f /\ k + 1 \in 1 .. e + 1 - f
      /\ f + (k + 1) - 1 = i /\ (k + 1) - 1 = k
      /\ f - 1 + k = i - 1 /\ f - 1 + (k + 1) = i
      /\ i - 1 \in f - 1 .. Len(text) /\ i \in f .. Len(text) /\ i \in 1 .. Len(text)
  BY <1>1, <1>2
<1>4. g[k] \in NestStates /\ g[k + 1] = Nest(g[k], text[i])
  BY <1>3 DEF SideBySide
<1>5. a[i - 1] \in ReadStates /\ a[i] = Read(a[i - 1], text[i], text[f])
  BY <1>3 DEF SideBySide, ReadTrail
<1>6. text[i] \in Chars
  BY <1>1, <1>3
<1> QED
  BY <1>2, <1>3, <1>4, <1>5, <1>6

(* The reference ends with nothing wrong, so nothing was wrong before;     *)
LEMMA NeverWrong ==
  ASSUME NEW f, NEW e, NEW g, NEW a, SideBySide(f, e, g, a),
         NEW k \in Nat, k <= e + 1 - f
  PROVE  ~g[k].wrong
<1> DEFINE n == e + 1 - f
           T == {d \in Nat : d <= n => ~g[n - d].wrong}
<1>1. n \in Nat /\ ~g[n].wrong
  BY DEF SideBySide
<1>2. 0 \in T
  BY <1>1
<1>3. ASSUME NEW d \in Nat, d \in T
      PROVE  d + 1 \in T
  <2> SUFFICES ASSUME d + 1 <= n
               PROVE  ~g[n - (d + 1)].wrong
    OBVIOUS
  <2>1. PICK j \in Nat : j = n - (d + 1) /\ j + 1 = n - d /\ j < n
    BY <1>1
  <2>2. g[j] \in NestStates /\ text[f + j] \in Chars /\ g[j + 1] = Nest(g[j], text[f + j])
    BY <2>1, BothMove
  <2>3. ~g[j + 1].wrong
    BY <1>1, <1>3, <2>1
  <2>4. ~g[j].wrong
    BY <2>2, <2>3, WrongStays
  <2> QED
    BY <2>1, <2>4
<1> HIDE DEF T
<1>4. Nat \subseteq T
  BY <1>2, <1>3, NaturalInduction
<1>5. PICK d \in Nat : d = n - k
  BY <1>1
<1>6. d \in T /\ d <= n /\ n - d = k
  BY <1>1, <1>4, <1>5
<1> QED
  BY <1>6 DEF T

(* the scanner is in step with it from the start,                          *)
LEMMA AlwaysInStep ==
  ASSUME NEW f, NEW e, NEW g, NEW a, SideBySide(f, e, g, a),
         NEW k \in Nat, k <= e + 1 - f
  PROVE  InStep(g[k], a[f - 1 + k], Partner(text[f]))
<1> DEFINE n == e + 1 - f
           p == Partner(text[f])
           T == {j \in Nat : j <= n => InStep(g[j], a[f - 1 + j], p)}
<1>1. n \in Nat /\ f \in Int /\ text[f] \in Opening /\ p \in Closing
  BY DEF SideBySide, Partner, Closing
<1>2. 0 \in T
  <2>1. g[0] = Unread /\ a[f - 1 + 0] = Outside
    BY <1>1 DEF SideBySide, ReadTrail
  <2>2. Count(<<>>, p) = 0
    <3>1. PICK o \in Seq(Closing) : o = <<>>
      <4>1. <<>> \in Seq(Closing)
        OBVIOUS
      <4> QED
        BY <4>1, Zenon
    <3>2. Count(o, p) = 0
      BY <3>1, CountNone
    <3> QED
      BY <3>1, <3>2
  <2>3. InStep(Unread, Outside, p)
    BY <2>2 DEF InStep, Unread, Outside
  <2> QED
    BY <2>1, <2>3
<1>3. ASSUME NEW j \in Nat, j \in T
      PROVE  j + 1 \in T
  <2> SUFFICES ASSUME j + 1 <= n
               PROVE  InStep(g[j + 1], a[f - 1 + (j + 1)], p)
    OBVIOUS
  <2>1. j < e + 1 - f /\ InStep(g[j], a[f - 1 + j], p)
    BY <1>1, <1>3
  <2>2. /\ g[j] \in NestStates /\ a[f - 1 + j] \in ReadStates
        /\ text[f + j] \in Chars
        /\ g[j + 1] = Nest(g[j], text[f + j])
        /\ a[f - 1 + (j + 1)] = Read(a[f - 1 + j], text[f + j], text[f])
    BY <2>1, BothMove
  <2>3. PICK s \in NestStates, r \in ReadStates, c \in Chars, open \in Opening :
          s = g[j] /\ r = a[f - 1 + j] /\ c = text[f + j] /\ open = text[f]
    BY <1>1, <2>2
  <2>4. InStep(Nest(s, c), Read(r, c, open), Partner(open))
    BY <2>1, <2>3, StaysInStep
  <2> QED
    BY <2>2, <2>3, <2>4
<1> HIDE DEF T
<1>4. Nat \subseteq T
  BY <1>2, <1>3, NaturalInduction
<1> QED
  BY <1>4 DEF T

(* and the first bracket stays at the bottom of the stack till the end.    *)
LEMMA BottomAlways ==
  ASSUME NEW f, NEW e, NEW g, NEW a, SideBySide(f, e, g, a),
         NEW k \in Nat, k # 0, k <= e + 1 - f
  PROVE  Bottom(g[k], Partner(text[f]))
<1> DEFINE n == e + 1 - f
           p == Partner(text[f])
           T == {j \in Nat : j + 1 <= n => Bottom(g[j + 1], p)}
<1>1. /\ n \in Nat /\ 0 < n /\ f \in 1 .. Len(text) /\ f + 0 = f
      /\ text[f] \in Opening /\ p \in Closing
  BY DEF SideBySide, Partner, Closing
<1>2. 0 \in T
  <2>1. g[0] = Unread /\ g[0] \in NestStates /\ text[f] \in Chars
        /\ g[0 + 1] = Nest(Unread, text[f])
    <3>1. g[0] = Unread
      BY DEF SideBySide
    <3> QED
      BY <1>1, <3>1, BothMove
  <2>2. /\ Unread.open = <<>> /\ ~Unread.inString /\ ~Unread.escaped
        /\ Unread.wrong = FALSE /\ Unread.done = FALSE
    BY DEF Unread
  <2>3. PICK s \in NestStates, c \in Chars : s = Unread /\ c = text[f]
    BY <2>1
  <2>4. Nest(s, c).open = NewOpen(s, c) /\ Nest(s, c).done = (c \in Closing /\ Len(s.open) = 1)
    BY <2>2, <2>3, NestOutside
  <2>5. NewOpen(s, c) = Append(s.open, p) /\ c \notin Closing
    BY <1>1, <2>3, NewOpenCases DEF Opening, Closing
  <2>6. Append(<<>>, p) # <<>> /\ Append(<<>>, p)[1] = p
    OBVIOUS
  <2>7. Nest(s, c).done = FALSE /\ Nest(s, c).open # <<>> /\ Nest(s, c).open[1] = p
    BY <2>2, <2>3, <2>4, <2>5, <2>6
  <2>8. Bottom(Nest(s, c), p)
    <3> HIDE DEF p
    <3> QED
      BY <2>7, Zenon DEF Bottom
  <2>9. Bottom(g[0 + 1], p)
    BY <2>1, <2>3, <2>8
  <2> QED
    BY <2>9
<1>3. ASSUME NEW j \in Nat, j \in T
      PROVE  j + 1 \in T
  <2> SUFFICES ASSUME (j + 1) + 1 <= n
               PROVE  Bottom(g[(j + 1) + 1], p)
    OBVIOUS
  <2>1. PICK i \in Nat : i = j + 1 /\ i < n /\ Bottom(g[i], p)
    BY <1>1, <1>3
  <2>2. g[i] \in NestStates /\ text[f + i] \in Chars /\ g[i + 1] = Nest(g[i], text[f + i])
    BY <2>1, BothMove
  <2>3. Bottom(Nest(g[i], text[f + i]), p)
    <3> HIDE DEF p
    <3> QED
      BY <2>1, <2>2, BottomStays
  <2> QED
    BY <2>1, <2>2, <2>3
<1> HIDE DEF T
<1>4. Nat \subseteq T
  BY <1>2, <1>3, NaturalInduction
<1>5. PICK j \in Nat : k = j + 1
  <2>1. k - 1 \in Nat /\ k = (k - 1) + 1
    OBVIOUS
  <2> QED
    BY <2>1
<1> QED
  BY <1>4, <1>5 DEF T

(* While the first bracket is open the depth is not 0; when the candidate  *)
(* ends it is, at a closing bracket.                                       *)
LEMMA OpenTillTheEnd ==
  ASSUME NEW f, NEW e, NEW g, NEW a, SideBySide(f, e, g, a)
  PROVE  /\ \A i \in f .. e - 1 : a[i].depth # 0
         /\ a[e].depth = 0
         /\ text[e] \in Closing
<1> DEFINE n == e + 1 - f
           p == Partner(text[f])
<1>1. /\ f \in Nat /\ e \in Nat /\ f < e /\ n \in Nat /\ n # 0
      /\ g \in [0 .. n -> NestStates]
      /\ g[n].done /\ ~g[n].wrong /\ f - 1 + n = e
  BY DEF SideBySide
<1>2. ASSUME NEW k \in Nat, k # 0, k <= n
      PROVE  /\ g[k] \in NestStates /\ ~g[k].wrong
             /\ a[f - 1 + k].depth = Count(g[k].open, p)
             /\ IF g[k].done THEN g[k].open = <<>> ELSE g[k].open # <<>> /\ g[k].open[1] = p
  <2>1. ~g[k].wrong
    BY <1>2, NeverWrong
  <2>2. InStep(g[k], a[f - 1 + k], p)
    BY <1>2, AlwaysInStep
  <2>3. Bottom(g[k], p)
    BY <1>2, BottomAlways
  <2>4. g[k] \in NestStates
    BY <1>1, <1>2
  <2>5. a[f - 1 + k].depth = Count(g[k].open, p)
    BY <2>1, <2>2 DEF InStep
  <2>6. IF g[k].done THEN g[k].open = <<>> ELSE g[k].open # <<>> /\ g[k].open[1] = p
    <3> HIDE DEF p
    <3> QED
      BY <2>1, <2>3, Zenon DEF Bottom
  <2> QED
    BY <2>1, <2>4, <2>5, <2>6
<1>3. ASSUME NEW k \in Nat, k < n
      PROVE  ~g[k].done
  <2>1. g[k] \in NestStates /\ text[f + k] \in Chars /\ g[k + 1] = Nest(g[k], text[f + k])
    BY <1>3, BothMove
  <2>2. ~g[k + 1].wrong
    BY <1>1, <1>2, <1>3
  <2>3. CASE k = 0
    BY <2>3 DEF SideBySide, Unread
  <2>4. CASE k # 0
    <3>1. Bottom(g[k], p)
      BY <1>1, <1>3, <2>4, BottomAlways
    <3> HIDE DEF p
    <3>2. g[k].done => Nest(g[k], text[f + k]).wrong
      BY <2>1, <3>1, BottomStays
    <3> QED
      BY <2>1, <2>2, <3>2
  <2> QED
    BY <2>3, <2>4
<1>4. ASSUME NEW i \in f .. e - 1
      PROVE  a[i].depth # 0
  <2>1. PICK k \in Nat : k # 0 /\ k < n /\ i = f - 1 + k
    <3>1. i + 1 - f \in Nat /\ i + 1 - f # 0 /\ i + 1 - f < n /\ i = f - 1 + (i + 1 - f)
      BY <1>1
    <3> QED
      BY <3>1
  <2>2. ~g[k].done
    BY <1>3, <2>1
  <2>3. k <= n
    BY <1>1, <2>1
  <2>4. PICK o \in Seq(Closing) : o = g[k].open
    BY <1>2, <2>1, <2>3 DEF NestStates
  <2>5. a[i].depth = Count(o, p) /\ o # <<>> /\ o[1] = p
    <3> HIDE DEF p, n
    <3> QED
      BY <1>2, <2>1, <2>2, <2>3, <2>4, Zenon
  <2>6. Count(o, p) # 0
    BY <2>5, CountNone
  <2> QED
    BY <2>5, <2>6
<1>5. a[e].depth = 0
  <2>1. PICK o \in Seq(Closing) : o = g[n].open
    BY <1>1 DEF NestStates
  <2>2. n <= n
    BY <1>1
  <2>3. a[e].depth = Count(o, p) /\ o = <<>>
    <3> HIDE DEF p, n
    <3> QED
      BY <1>1, <1>2, <2>1, <2>2
  <2> QED
    BY <2>3, CountNone
<1>6. text[e] \in Closing
  <2>1. PICK k \in Nat : k < n /\ k + 1 = n /\ f + k = e
    <3>1. n - 1 \in Nat /\ n - 1 < n /\ (n - 1) + 1 = n /\ f + (n - 1) = e
      BY <1>1
    <3> QED
      BY <3>1
  <2>2. PICK s \in NestStates, c \in Chars : s = g[k] /\ c = text[e]
    BY <2>1, BothMove
  <2>3. g[n] = Nest(s, c)
    BY <2>1, <2>2, BothMove
  <2>4. ~s.done /\ Nest(s, c).done
    BY <1>1, <1>3, <2>1, <2>2, <2>3
  <2>5. CASE s.escaped
    BY <2>4, <2>5, NestEscaped
  <2>6. CASE ~s.escaped /\ s.inString
    BY <2>4, <2>6, NestInString
  <2>7. CASE ~s.escaped /\ ~s.inString
    BY <2>2, <2>4, <2>7, NestOutside
  <2> QED
    BY <2>5, <2>6, <2>7
<1> QED
  BY <1>4, <1>5, <1>6

(* So counting one kind of bracket finds the end of every JSON value.      *)
LEMMA CandidateMatches ==
  ASSUME text \in Seq(Chars), NEW b \in Candidates(text)
  PROVE  /\ text[b.from] \in Opening /\ text[b.to] \in Closing
         /\ b.to \in Returns(b.from) /\ Matches(b.from, b.to)
<1> DEFINE f == b.from
           e == b.to
           a == Reading(f)
<1>1. PICK g : SideBySide(f, e, g, a)
  BY CandidateTrails
<1>2. /\ f \in 1 .. Len(text) /\ e \in 1 .. Len(text) /\ f < e /\ Len(text) \in Nat
      /\ text[f] \in Opening
  BY <1>1 DEF SideBySide
<1> HIDE DEF f, e, a
<1>3. /\ \A i \in f .. e - 1 : a[i].depth # 0
      /\ a[e].depth = 0 /\ text[e] \in Closing
  BY <1>1, OpenTillTheEnd
<1>4. Returns(f) = {k \in f .. Len(text) : a[k].depth = 0}
  BY DEF Returns, a
<1>5. e \in Returns(f)
  BY <1>2, <1>3, <1>4
<1>6. ASSUME NEW k \in Returns(f), ~(e <= k)
      PROVE  FALSE
  <2>1. k \in f .. e - 1 /\ a[k].depth = 0
    BY <1>2, <1>4, <1>6
  <2> QED
    BY <1>3, <2>1
<1>7. Matches(f, e)
  BY <1>5, <1>6 DEF Matches
<1> QED
  BY <1>2, <1>3, <1>5, <1>7 DEF f, e

-----------------------------------------------------------------------------
(* What begins behind the scanner is found or begins inside what is.       *)
FoundOrInside(b) ==
  \E k \in DOMAIN blobs :
    \/ blobs[k] = b
    \/ blobs[k].from < b.from /\ b.from < blobs[k].to

NoneBehind ==
  /\ json \subseteq Candidates(text)
  /\ \A b \in json : Size(b) >= MinBlob /\ b.from < pos => FoundOrInside(b)

(* Where a candidate lies.                                                 *)
LEMMA CandidateType ==
  ASSUME text \in Seq(Chars), NEW b \in Candidates(text)
  PROVE  /\ b = [from |-> b.from, to |-> b.to]
         /\ b.from \in Nat \ {0} /\ b.to \in Nat /\ b.from < b.to /\ b.to <= Len(text)
BY DEF Candidates

(* The scanner leaves nothing behind, whatever it does next:               *)
LEMMA StepMissesNothing ==
  ScannerTypeOK /\ NoneBehind /\ [Scan]_scanVars => NoneBehind'
<1> SUFFICES ASSUME ScannerTypeOK, NoneBehind, [Scan]_scanVars
             PROVE  NoneBehind'
  OBVIOUS
<1>1. /\ text' = text /\ json' = json
  BY DEF Scan, PassBy, Reject, Find, scanVars
<1>2. json' \subseteq Candidates(text')
  BY <1>1 DEF NoneBehind
<1>3. text \in Seq(Chars) /\ pos \in Nat /\ json \subseteq Candidates(text)
  BY DEF ScannerTypeOK, NoneBehind
<1> SUFFICES ASSUME NEW b \in json, Size(b) >= MinBlob, b.from < pos'
             PROVE  FoundOrInside(b)'
  BY <1>1, <1>2 DEF NoneBehind, Size
<1>4. /\ b = [from |-> b.from, to |-> b.to]
      /\ b.from \in Nat \ {0} /\ b.to \in Nat /\ b.from < b.to /\ b.to <= Len(text)
  BY <1>3, CandidateType
<1>5. /\ text[b.from] \in Opening /\ text[b.to] \in Closing
      /\ b.to \in Returns(b.from) /\ Matches(b.from, b.to)
  BY <1>3, CandidateMatches
<1>6. IsBlob(b)
  BY DEF IsBlob
<1>7. b.from < pos => FoundOrInside(b)
  BY DEF NoneBehind
<1>8. CASE PassBy
  <2>1. b.from # pos
    BY <1>5, <1>8 DEF PassBy
  <2>2. b.from < pos /\ blobs' = blobs
    BY <1>3, <1>4, <1>8, <2>1 DEF PassBy
  <2> QED
    BY <1>7, <2>2 DEF FoundOrInside
<1>9. CASE Reject
  <2>1. PICK end \in Returns(pos) :
          Matches(pos, end) /\ ~IsBlob([from |-> pos, to |-> end])
    BY <1>9 DEF Reject
  <2>2. end \in Nat
    BY <1>3, ReturnsInside
  <2>3. b.from # pos
    <3> SUFFICES ASSUME b.from = pos
                 PROVE  FALSE
      OBVIOUS
    <3>1. end <= b.to /\ b.to <= end
      BY <1>5, <2>1 DEF Matches
    <3>2. b.to = end
      BY <1>4, <2>2, <3>1
    <3> QED
      BY <1>4, <1>6, <2>1, <3>2
  <2>4. pos' = pos + 1 /\ blobs' = blobs
    BY <1>9 DEF Reject, AfterReject
  <2>5. b.from < pos
    BY <1>3, <1>4, <2>3, <2>4
  <2> QED
    BY <1>7, <2>4, <2>5 DEF FoundOrInside
<1>10. CASE Find
  <2>1. PICK end \in Returns(pos) :
          /\ Matches(pos, end) /\ IsBlob([from |-> pos, to |-> end])
          /\ blobs' = Append(blobs, [from |-> pos, to |-> end])
          /\ pos' = end + 1
    BY <1>10 DEF Find, AfterBlob
  <2>2. end \in Nat
    BY <1>3, ReturnsInside
  <2> DEFINE new == [from |-> pos, to |-> end]
             m == Len(blobs) + 1
  <2>3. /\ m \in DOMAIN blobs' /\ blobs'[m] = new
        /\ \A k \in DOMAIN blobs : k \in DOMAIN blobs' /\ blobs'[k] = blobs[k]
    BY <2>1 DEF ScannerTypeOK
  <2>4. text[end] \in Closing
    <3>1. new \in Candidates(text) /\ new.to = end
      BY <1>3, <2>1 DEF IsBlob
    <3> QED
      BY <1>3, <3>1, CandidateMatches
  <2>5. b.from # end
    BY <1>5, <2>4 DEF Opening, Closing
  <2>6. CASE b.from < pos
    BY <1>7, <2>3, <2>6 DEF FoundOrInside
  <2>7. CASE b.from = pos
    <3>1. end <= b.to /\ b.to <= end
      BY <1>5, <2>1, <2>7 DEF Matches
    <3>2. b.to = end
      BY <1>4, <2>2, <3>1
    <3>3. blobs'[m] = b
      BY <1>4, <2>3, <2>7, <3>2
    <3> QED
      BY <2>3, <3>3 DEF FoundOrInside
  <2>8. CASE pos < b.from
    <3>1. pos < b.from /\ b.from < end
      BY <1>4, <2>1, <2>2, <2>5, <2>8
    <3>2. blobs'[m].from = pos /\ blobs'[m].to = end
      BY <2>3
    <3> QED
      BY <2>3, <3>1, <3>2 DEF FoundOrInside
  <2> QED
    BY <1>3, <1>4, <2>6, <2>7, <2>8
<1>11. CASE UNCHANGED scanVars
  BY <1>7, <1>11 DEF FoundOrInside, scanVars
<1> QED
  BY <1>8, <1>9, <1>10, <1>11 DEF Scan

(* it starts with nothing behind it,                                       *)
LEMMA NoneBehindYet == ScanInit => NoneBehind
<1> SUFFICES ASSUME ScanInit PROVE NoneBehind
  OBVIOUS
<1>1. text \in Seq(Chars) /\ json \subseteq Candidates(text) /\ pos = 1
  BY ScannerAssumption DEF ScanInit
<1>2. \A b \in json : ~(b.from < pos)
  <2> SUFFICES ASSUME NEW b \in json
               PROVE  ~(b.from < pos)
    OBVIOUS
  <2>1. b.from \in Nat \ {0}
    BY <1>1, CandidateType
  <2> QED
    BY <1>1, <2>1
<1> QED
  BY <1>1, <1>2 DEF NoneBehind

(* and when it is done all of the text is behind it.                       *)
LEMMA NoneLeft == ScannerTypeOK /\ NoneBehind => NothingMissed
<1> SUFFICES ASSUME ScannerTypeOK, NoneBehind, ~Scanning,
                    NEW b \in json, Size(b) >= MinBlob
             PROVE  FoundOrInside(b)
  BY DEF NothingMissed, FoundOrInside
<1>1. text \in Seq(Chars) /\ pos = Len(text) + 1
  BY DEF ScannerTypeOK, Scanning
<1>2. b.from \in Nat /\ b.to \in Nat /\ b.from < b.to /\ b.to <= Len(text) /\ Len(text) \in Nat
  BY <1>1, CandidateType DEF NoneBehind
<1>3. b.from < pos
  BY <1>1, <1>2
<1> QED
  BY <1>3 DEF NoneBehind

(* classifier.go:260 is right, for every text and whatever of it the JSON  *)
(* parser accepts.  Such a value's brackets are in order (NeverWrong), the *)
(* scanner is in step with them (AlwaysInStep) and its own bracket is the  *)
(* last to be closed (BottomAlways), so the scanner returns at its end and *)
(* nowhere before (CandidateMatches): when the scanner passes a bracket,   *)
(* it has found the value that begins there, if there is one.              *)
THEOREM ScannerMissesNothing == ScanSpec => []NothingMissed
BY InitialTypes, StepTypes, NoneBehindYet, StepMissesNothing, NoneLeft, PTL DEF ScanSpec

-----------------------------------------------------------------------------
(* The optimizer moves the scanner as the scanner moves by itself.         *)
LEMMA TextStepScans == [TextNext]_textVars => [Scan]_scanVars
<1> SUFFICES ASSUME [TextNext]_textVars PROVE [Scan]_scanVars
  OBVIOUS
<1>1. CASE EncodeWhole
  BY <1>1 DEF EncodeWhole, Finish
<1>2. CASE TooLarge \/ CompactWhole \/ KeepWhole
  BY <1>2 DEF TooLarge, CompactWhole, KeepWhole, Finish
<1>3. CASE StripPlain \/ KeepPlain \/ KeepMixed \/ FinishMixed
  BY <1>3 DEF StripPlain, KeepPlain, KeepMixed, FinishMixed, Finish
<1>4. CASE StartScan \/ StartMixed \/ ReplaceBlob
  BY <1>4 DEF StartScan, StartMixed, ReplaceBlob
<1>5. CASE ScanOn
  BY <1>5 DEF ScanOn
<1>6. CASE UNCHANGED textVars
  BY <1>6 DEF textVars
<1> QED
  BY <1>1, <1>2, <1>3, <1>4, <1>5, <1>6 DEF TextNext

(* optimizeText implements detectJSONBlobs: its steps are the scanner's or *)
(* leave the scanner alone.                                                *)
THEOREM TextImplementsScan == TextSpec => ScanSpec
<1>1. TextInit => ScanInit
  BY DEF TextInit
<1> QED
  BY <1>1, TextStepScans, PTL DEF TextSpec, ScanSpec

(* The blobs that optimizeMixed is given are in order.                     *)
THEOREM MixedBlobsInOrder == TextSpec => [](ScannerTypeOK /\ BlobsInOrder)
BY TextImplementsScan, ScannerTypeCorrect, BlobsAlwaysInOrder, PTL

(* classifier.go:260, "bracket matching for more reliable detection": of a *)
(* mixed text, optimizeText is given every JSON value that is long enough, *)
(* but for those inside another: NothingMissed, for every set of texts and *)
(* every answer of the parser.                                             *)
THEOREM MixedMissesNothing == TextSpec => []NothingMissed
BY TextImplementsScan, ScannerMissesNothing, PTL

-----------------------------------------------------------------------------

NL == "newline"
LineChars == (Chars \cup {"toon"}) \ {NL}
TextChars == Chars \cup {"toon"}
Line == Seq(LineChars)
LineSeq == Seq(Line)

(* The bodies of the folds of TextOptimizer, by name, and as functions.    *)
Split(ls, c) ==
  IF c = NL THEN Append(ls, <<>>) ELSE ReplaceAt(ls, Len(ls), Append(Last(ls), c))
Glue(t, l) == t \o <<NL>> \o l
Keep(kept, l) == IF KeepLine(kept, TrimRight(l)) THEN Append(kept, TrimRight(l)) ELSE kept
Write(ls, l) == IF TrimRight(l) = <<>> THEN ls ELSE Append(ls, TrimRight(l))

Kept(ls) ==
  FoldLeft(LAMBDA kept, l : IF KeepLine(kept, TrimRight(l))
                            THEN Append(kept, TrimRight(l)) ELSE kept,
           <<>>, ls)
WrittenOf(ls) ==
  FoldLeft(LAMBDA w, l : IF TrimRight(l) = <<>> THEN w ELSE Append(w, TrimRight(l)),
           <<>>, ls)
Glued(t, ls) == FoldLeft(LAMBDA u, l : u \o <<"newline">> \o l, t, ls)

Document == LineSeq \ {<<>>}
SplitOp == [p \in Document \X TextChars |-> Split(p[1], p[2])]
GlueOp == [p \in Seq(TextChars) \X Line |-> Glue(p[1], p[2])]
KeepOp == [p \in LineSeq \X Line |-> Keep(p[1], p[2])]
WriteOp == [p \in LineSeq \X Line |-> Write(p[1], p[2])]

(* Trimming takes blanks off the end of a line, and nothing else.          *)
LEMMA TrimCuts ==
  ASSUME NEW S, NEW l \in Seq(S)
  PROVE  \E n \in 0 .. Len(l) :
           /\ TrimRight(l) = SubSeq(l, 1, n)
           /\ n = 0 \/ l[n] # "space"
           /\ \A k \in n + 1 .. Len(l) : l[k] = "space"
<1> DEFINE I == {k \in 1 .. Len(l) : l[k] # "space"}
           n == IF I # {} THEN Max(I) ELSE 0
<1>1. TrimRight(l) = SubSeq(l, 1, n)
  BY DEF TrimRight, SelectLastInSeq
<1>2. Len(l) \in Nat /\ I \in SUBSET (1 .. Len(l))
  OBVIOUS
<1>3. I # {} => Max(I) \in I /\ \A k \in I : k <= Max(I)
  <2> HIDE DEF I
  <2> QED
    BY <1>2, MaxIn
<1>4. n \in 0 .. Len(l) /\ (n = 0 \/ l[n] # "space") /\ \A k \in n + 1 .. Len(l) : k \notin I
  <2>1. CASE I = {}
    BY <1>2, <2>1
  <2>2. CASE I # {}
    <3> DEFINE m == Max(I)
    <3>1. n = m
      BY <2>2
    <3>2. m \in 1 .. Len(l) /\ l[m] # "space"
      <4> HIDE DEF m
      <4> QED
        BY <1>3, <2>2 DEF m
    <3>3. \A k \in m + 1 .. Len(l) : k \notin I
      <4>1. \A k \in I : k <= m
        BY <1>3, <2>2
      <4> HIDE DEF m, I
      <4> QED
        BY <1>2, <3>2, <4>1
    <3> HIDE DEF m, n, I
    <3> QED
      BY <1>2, <3>1, <3>2, <3>3
  <2> QED
    BY <2>1, <2>2
<1> HIDE DEF n
<1> QED
  BY <1>1, <1>4

(* so that trimming twice is trimming once, and only what is trimmed gets  *)
(* shorter.                                                                *)
LEMMA Trimmed ==
  ASSUME NEW S, NEW l \in Seq(S)
  PROVE  /\ TrimRight(l) \in Seq(S)
         /\ Len(TrimRight(l)) <= Len(l)
         /\ Len(TrimRight(l)) = Len(l) => TrimRight(l) = l
         /\ TrimRight(TrimRight(l)) = TrimRight(l)
<1>1. PICK n \in 0 .. Len(l) :
        /\ TrimRight(l) = SubSeq(l, 1, n)
        /\ n = 0 \/ l[n] # "space"
        /\ \A k \in n + 1 .. Len(l) : l[k] = "space"
  BY TrimCuts
<1> DEFINE t == TrimRight(l)
<1>2. /\ t \in Seq(S) /\ Len(t) = n /\ Len(t) <= Len(l)
      /\ n = 0 \/ t[n] # "space"
      /\ n = Len(l) => t = l
  BY <1>1
<1>3. PICK m \in 0 .. Len(t) :
        /\ TrimRight(t) = SubSeq(t, 1, m)
        /\ m = 0 \/ t[m] # "space"
        /\ \A k \in m + 1 .. Len(t) : t[k] = "space"
  <2> HIDE DEF t
  <2> QED
    BY <1>2, TrimCuts
<1>4. m = n
  <2> HIDE DEF t
  <2>1. CASE m # n
    <3>1. n \in m + 1 .. Len(t) /\ n # 0
      BY <1>2, <1>3, <2>1
    <3> QED
      BY <1>2, <1>3, <3>1
  <2> QED
    BY <2>1
<1>5. SubSeq(t, 1, n) = t
  <2> HIDE DEF t
  <2> QED
    BY <1>2
<1> QED
  BY <1>2, <1>3, <1>4, <1>5

-----------------------------------------------------------------------------
(* The folds stay among lines and texts.                                   *)
LEMMA SplitType ==
  ASSUME NEW ls \in Document, NEW c \in TextChars
  PROVE  Split(ls, c) \in Document
<1>1. Len(ls) \in 1 .. Len(ls) /\ Last(ls) \in Line
  BY DEF Document, LineSeq, Last
<1>2. Append(ls, <<>>) \in Document
  BY DEF Document, LineSeq, Line
<1>3. ASSUME c # NL
      PROVE  ReplaceAt(ls, Len(ls), Append(Last(ls), c)) \in Document
  <2>1. Append(Last(ls), c) \in Line
    BY <1>1, <1>3 DEF Line, LineChars, TextChars
  <2> QED
    BY <1>1, <2>1 DEF Document, LineSeq, ReplaceAt
<1> QED
  BY <1>2, <1>3 DEF Split

(* A line loses blanks and stays a line,                                   *)
LEMMA TrimType == ASSUME NEW l \in Line PROVE TrimRight(l) \in Line
BY Trimmed DEF Line

(* a line is kept or dropped,                                              *)
LEMMA KeepType ==
  ASSUME NEW ls \in LineSeq, NEW l \in Line
  PROVE  Keep(ls, l) \in LineSeq /\ Write(ls, l) \in LineSeq
BY TrimType DEF Keep, Write, LineSeq

(* and lines are glued together into a text.                               *)
LEMMA GlueType ==
  ASSUME NEW t \in Seq(TextChars), NEW l \in Line
  PROVE  Glue(t, l) \in Seq(TextChars)
<1>1. l \in Seq(TextChars) /\ <<NL>> \in Seq(TextChars)
  <2>1. LineChars \subseteq TextChars /\ NL \in TextChars
    BY DEF LineChars, TextChars, NL, Chars, Blank
  <2> QED
    BY <2>1 DEF Line
<1> QED
  BY <1>1 DEF Glue

(* The three folds of stripExcessWhitespace stay in their types.           *)
LEMMA FoldTypes ==
  /\ << <<>> >> \in Document /\ SplitOp \in [Document \X TextChars -> Document]
  /\ GlueOp \in [Seq(TextChars) \X Line -> Seq(TextChars)]
  /\ <<>> \in LineSeq /\ KeepOp \in [LineSeq \X Line -> LineSeq]
  /\ WriteOp \in [LineSeq \X Line -> LineSeq]
<1>1. << <<>> >> \in Document /\ <<>> \in LineSeq
  BY DEF Document, LineSeq, Line
<1>2. \A p \in Document \X TextChars : Split(p[1], p[2]) \in Document
  BY SplitType
<1>3. \A p \in Seq(TextChars) \X Line : Glue(p[1], p[2]) \in Seq(TextChars)
  BY GlueType
<1>4. \A p \in LineSeq \X Line : Keep(p[1], p[2]) \in LineSeq /\ Write(p[1], p[2]) \in LineSeq
  BY KeepType
<1> QED
  BY <1>1, <1>2, <1>3, <1>4 DEF SplitOp, GlueOp, KeepOp, WriteOp

(* Each of the folds is a run of its body.                                 *)
LEMMA LinesRun ==
  ASSUME NEW t \in Seq(TextChars)
  PROVE  Lines(t) = Run(SplitOp, << <<>> >>, t)
<1> DEFINE Eq(F) == F = [s \in SUBSET (1 .. Len(t)) |->
                           IF s = {} THEN << <<>> >> ELSE Split(F[s \ {Max(s)}], t[Max(s)])]
           G == CHOOSE F : Eq(F)
<1>1. Lines(t) = G[1 .. Len(t)]
  <2>1. DOMAIN t = 1 .. Len(t)
    OBVIOUS
  <2> QED
    BY <2>1 DEF Lines, NL, Split, FoldLeft, MapThenFoldSet
<1>2. Running(SplitOp, << <<>> >>, t, Document, TextChars)
  BY FoldTypes DEF Running
<1>3. PICK F : LeftFold(F, SplitOp, << <<>> >>, t, Document)
  BY <1>2, LeftFoldSolved
<1>4. \A s \in SUBSET (1 .. Len(t)) : s # {} => t[Max(s)] \in TextChars
  BY ElementIn
<1>5. \A v \in Document : \A x \in TextChars : SplitOp[<<v, x>>] = Split(v, x)
  BY DEF SplitOp
<1>6. Eq(F)
  <2>1. \A s \in SUBSET (1 .. Len(t)) : F[s \ {Max(s)}] \in Document
    BY <1>3 DEF LeftFold
  <2>2. \A s \in SUBSET (1 .. Len(t)) :
          F[s] = IF s = {} THEN << <<>> >> ELSE Split(F[s \ {Max(s)}], t[Max(s)])
    BY <1>3, <1>4, <1>5, <2>1 DEF LeftFold
  <2>3. F = [s \in SUBSET (1 .. Len(t)) |-> F[s]]
    BY <1>3 DEF LeftFold
  <2> QED
    BY <2>2, <2>3
<1>7. Eq(G)
  <2> HIDE DEF Eq
  <2> QED
    BY <1>6
<1> HIDE DEF G
<1>8. FoldsLeft(G, SplitOp, << <<>> >>, t, Document)
  BY <1>4, <1>5, <1>7 DEF FoldsLeft
<1> QED
  BY <1>1, <1>2, <1>8, LeftFoldRuns

(* Each fold is a run of its step function: the lines kept,                *)
LEMMA KeptRun ==
  ASSUME NEW ls \in Seq(Line)
  PROVE  Kept(ls) = Run(KeepOp, <<>>, ls)
<1> DEFINE Eq(F) == F = [s \in SUBSET (1 .. Len(ls)) |->
                           IF s = {} THEN <<>> ELSE Keep(F[s \ {Max(s)}], ls[Max(s)])]
           G == CHOOSE F : Eq(F)
<1>1. Kept(ls) = G[1 .. Len(ls)]
  <2>1. DOMAIN ls = 1 .. Len(ls)
    OBVIOUS
  <2> QED
    BY <2>1 DEF Kept, Keep, FoldLeft, MapThenFoldSet
<1>2. Running(KeepOp, <<>>, ls, LineSeq, Line)
  BY FoldTypes DEF Running
<1>3. PICK F : LeftFold(F, KeepOp, <<>>, ls, LineSeq)
  BY <1>2, LeftFoldSolved
<1>4. \A s \in SUBSET (1 .. Len(ls)) : s # {} => ls[Max(s)] \in Line
  BY ElementIn
<1>5. \A v \in LineSeq : \A x \in Line : KeepOp[<<v, x>>] = Keep(v, x)
  BY DEF KeepOp
<1>6. Eq(F)
  <2>1. \A s \in SUBSET (1 .. Len(ls)) : F[s \ {Max(s)}] \in LineSeq
    BY <1>3 DEF LeftFold
  <2>2. \A s \in SUBSET (1 .. Len(ls)) :
          F[s] = IF s = {} THEN <<>> ELSE Keep(F[s \ {Max(s)}], ls[Max(s)])
    BY <1>3, <1>4, <1>5, <2>1 DEF LeftFold
  <2>3. F = [s \in SUBSET (1 .. Len(ls)) |-> F[s]]
    BY <1>3 DEF LeftFold
  <2> QED
    BY <2>2, <2>3
<1>7. Eq(G)
  <2> HIDE DEF Eq
  <2> QED
    BY <1>6
<1> HIDE DEF G
<1>8. FoldsLeft(G, KeepOp, <<>>, ls, LineSeq)
  BY <1>4, <1>5, <1>7 DEF FoldsLeft
<1> QED
  BY <1>1, <1>2, <1>8, LeftFoldRuns

(* the lines written,                                                      *)
LEMMA WrittenRun ==
  ASSUME NEW ls \in Seq(Line)
  PROVE  WrittenOf(ls) = Run(WriteOp, <<>>, ls)
<1> DEFINE Eq(F) == F = [s \in SUBSET (1 .. Len(ls)) |->
                           IF s = {} THEN <<>> ELSE Write(F[s \ {Max(s)}], ls[Max(s)])]
           G == CHOOSE F : Eq(F)
<1>1. WrittenOf(ls) = G[1 .. Len(ls)]
  <2>1. DOMAIN ls = 1 .. Len(ls)
    OBVIOUS
  <2> QED
    BY <2>1 DEF WrittenOf, Write, FoldLeft, MapThenFoldSet
<1>2. Running(WriteOp, <<>>, ls, LineSeq, Line)
  BY FoldTypes DEF Running
<1>3. PICK F : LeftFold(F, WriteOp, <<>>, ls, LineSeq)
  BY <1>2, LeftFoldSolved
<1>4. \A s \in SUBSET (1 .. Len(ls)) : s # {} => ls[Max(s)] \in Line
  BY ElementIn
<1>5. \A v \in LineSeq : \A x \in Line : WriteOp[<<v, x>>] = Write(v, x)
  BY DEF WriteOp
<1>6. Eq(F)
  <2>1. \A s \in SUBSET (1 .. Len(ls)) : F[s \ {Max(s)}] \in LineSeq
    BY <1>3 DEF LeftFold
  <2>2. \A s \in SUBSET (1 .. Len(ls)) :
          F[s] = IF s = {} THEN <<>> ELSE Write(F[s \ {Max(s)}], ls[Max(s)])
    BY <1>3, <1>4, <1>5, <2>1 DEF LeftFold
  <2>3. F = [s \in SUBSET (1 .. Len(ls)) |-> F[s]]
    BY <1>3 DEF LeftFold
  <2> QED
    BY <2>2, <2>3
<1>7. Eq(G)
  <2> HIDE DEF Eq
  <2> QED
    BY <1>6
<1> HIDE DEF G
<1>8. FoldsLeft(G, WriteOp, <<>>, ls, LineSeq)
  BY <1>4, <1>5, <1>7 DEF FoldsLeft
<1> QED
  BY <1>1, <1>2, <1>8, LeftFoldRuns

(* and the lines joined.                                                   *)
LEMMA GlueRun ==
  ASSUME NEW t \in Seq(TextChars), NEW ls \in Seq(Line)
  PROVE  Glued(t, ls) = Run(GlueOp, t, ls)
<1> DEFINE Eq(F) == F = [s \in SUBSET (1 .. Len(ls)) |->
                           IF s = {} THEN t ELSE Glue(F[s \ {Max(s)}], ls[Max(s)])]
           G == CHOOSE F : Eq(F)
<1>1. Glued(t, ls) = G[1 .. Len(ls)]
  <2>1. DOMAIN ls = 1 .. Len(ls)
    OBVIOUS
  <2> QED
    BY <2>1 DEF Glued, Glue, NL, FoldLeft, MapThenFoldSet
<1>2. Running(GlueOp, t, ls, Seq(TextChars), Line)
  BY FoldTypes DEF Running
<1>3. PICK F : LeftFold(F, GlueOp, t, ls, Seq(TextChars))
  BY <1>2, LeftFoldSolved
<1>4. \A s \in SUBSET (1 .. Len(ls)) : s # {} => ls[Max(s)] \in Line
  BY ElementIn
<1>5. \A v \in Seq(TextChars) : \A x \in Line : GlueOp[<<v, x>>] = Glue(v, x)
  BY DEF GlueOp
<1>6. Eq(F)
  <2>1. \A s \in SUBSET (1 .. Len(ls)) : F[s \ {Max(s)}] \in Seq(TextChars)
    BY <1>3 DEF LeftFold
  <2>2. \A s \in SUBSET (1 .. Len(ls)) :
          F[s] = IF s = {} THEN t ELSE Glue(F[s \ {Max(s)}], ls[Max(s)])
    BY <1>3, <1>4, <1>5, <2>1 DEF LeftFold
  <2>3. F = [s \in SUBSET (1 .. Len(ls)) |-> F[s]]
    BY <1>3 DEF LeftFold
  <2> QED
    BY <2>2, <2>3
<1>7. Eq(G)
  <2> HIDE DEF Eq
  <2> QED
    BY <1>6
<1> HIDE DEF G
<1>8. FoldsLeft(G, GlueOp, t, ls, Seq(TextChars))
  BY <1>4, <1>5, <1>7 DEF FoldsLeft
<1> QED
  BY <1>1, <1>2, <1>8, LeftFoldRuns

(* So each goes on with the last character, or line, alone.                *)
LEMMA LinesGoOn ==
  /\ Lines(<<>>) = << <<>> >>
  /\ \A t \in Seq(TextChars) : Lines(t) \in Document
  /\ \A t \in Seq(TextChars) : \A c \in TextChars : Lines(Append(t, c)) = Split(Lines(t), c)
<1>1. <<>> \in Seq(TextChars)
  OBVIOUS
<1>2. \A t \in Seq(TextChars) : Running(SplitOp, << <<>> >>, t, Document, TextChars)
  BY FoldTypes DEF Running
<1>3. \A t \in Seq(TextChars) : Lines(t) \in Document
  BY <1>2, LinesRun, RunType
<1>4. ASSUME NEW t \in Seq(TextChars), NEW c \in TextChars
      PROVE  Lines(Append(t, c)) = Split(Lines(t), c)
  <2>1. Append(t, c) \in Seq(TextChars)
    OBVIOUS
  <2>2. Run(SplitOp, << <<>> >>, Append(t, c)) = SplitOp[<<Run(SplitOp, << <<>> >>, t), c>>]
    BY <1>2, RunGoesOn
  <2>3. Lines(Append(t, c)) = SplitOp[<<Lines(t), c>>]
    BY <2>1, <2>2, LinesRun
  <2> QED
    BY <1>3, <2>3 DEF SplitOp
<1>5. Lines(<<>>) = << <<>> >>
  BY <1>1, LinesRun, RunStarts
<1> QED
  BY <1>3, <1>4, <1>5

(* With one line more each fold takes one step more.                       *)
LEMMA KeptGoesOn ==
  /\ Kept(<<>>) = <<>>
  /\ \A ls \in LineSeq : Kept(ls) \in LineSeq
  /\ \A ls \in LineSeq : \A l \in Line : Kept(Append(ls, l)) = Keep(Kept(ls), l)
<1>1. <<>> \in LineSeq
  BY FoldTypes
<1>2. \A ls \in LineSeq : Running(KeepOp, <<>>, ls, LineSeq, Line)
  BY FoldTypes DEF Running, LineSeq
<1>3. \A ls \in LineSeq : Kept(ls) = Run(KeepOp, <<>>, ls)
  BY KeptRun DEF LineSeq
<1>4. \A ls \in LineSeq : Kept(ls) \in LineSeq
  BY <1>2, <1>3, RunType
<1>5. ASSUME NEW ls \in LineSeq, NEW l \in Line
      PROVE  Kept(Append(ls, l)) = Keep(Kept(ls), l)
  <2>1. Append(ls, l) \in LineSeq
    BY DEF LineSeq
  <2>2. Run(KeepOp, <<>>, Append(ls, l)) = KeepOp[<<Run(KeepOp, <<>>, ls), l>>]
    BY <1>2, RunGoesOn
  <2>3. Kept(Append(ls, l)) = KeepOp[<<Kept(ls), l>>]
    BY <1>3, <2>1, <2>2
  <2> QED
    BY <1>4, <2>3 DEF KeepOp
<1>6. Kept(<<>>) = <<>>
  BY <1>1, <1>3, RunStarts
<1> QED
  BY <1>4, <1>5, <1>6

(* Likewise for the lines written,                                         *)
LEMMA WrittenGoesOn ==
  /\ WrittenOf(<<>>) = <<>>
  /\ \A ls \in LineSeq : WrittenOf(ls) \in LineSeq
  /\ \A ls \in LineSeq : \A l \in Line : WrittenOf(Append(ls, l)) = Write(WrittenOf(ls), l)
<1>1. <<>> \in LineSeq
  BY FoldTypes
<1>2. \A ls \in LineSeq : Running(WriteOp, <<>>, ls, LineSeq, Line)
  BY FoldTypes DEF Running, LineSeq
<1>3. \A ls \in LineSeq : WrittenOf(ls) = Run(WriteOp, <<>>, ls)
  BY WrittenRun DEF LineSeq
<1>4. \A ls \in LineSeq : WrittenOf(ls) \in LineSeq
  BY <1>2, <1>3, RunType
<1>5. ASSUME NEW ls \in LineSeq, NEW l \in Line
      PROVE  WrittenOf(Append(ls, l)) = Write(WrittenOf(ls), l)
  <2>1. Append(ls, l) \in LineSeq
    BY DEF LineSeq
  <2>2. Run(WriteOp, <<>>, Append(ls, l)) = WriteOp[<<Run(WriteOp, <<>>, ls), l>>]
    BY <1>2, RunGoesOn
  <2>3. WrittenOf(Append(ls, l)) = WriteOp[<<WrittenOf(ls), l>>]
    BY <1>3, <2>1, <2>2
  <2> QED
    BY <1>4, <2>3 DEF WriteOp
<1>6. WrittenOf(<<>>) = <<>>
  BY <1>1, <1>3, RunStarts
<1> QED
  BY <1>4, <1>5, <1>6

(* and for the lines joined.                                               *)
LEMMA JoinGoesOn ==
  /\ \A l \in Line : Join(<<l>>) = l
  /\ \A ls \in Document : Join(ls) \in Seq(TextChars)
  /\ \A ls \in Document : \A l \in Line : Join(Append(ls, l)) = Join(ls) \o <<NL>> \o l
<1>1. Line \subseteq Seq(TextChars)
  <2>1. LineChars \subseteq TextChars
    BY DEF LineChars, TextChars
  <2> QED
    BY <2>1 DEF Line
<1>2. \A t \in Seq(TextChars) : \A ls \in Seq(Line) : Running(GlueOp, t, ls, Seq(TextChars), Line)
  BY FoldTypes DEF Running
<1>3. \A ls : Join(ls) = Glued(Head(ls), Tail(ls))
  BY DEF Join, Glued
<1>4. \A ls \in Document : Head(ls) \in Line /\ Tail(ls) \in Seq(Line) /\ Head(ls) \in Seq(TextChars)
  BY <1>1 DEF Document, LineSeq
<1>5. \A ls \in Document : Join(ls) = Run(GlueOp, Head(ls), Tail(ls))
  BY <1>3, <1>4, GlueRun
<1>6. ASSUME NEW ls \in Document
      PROVE  Join(ls) \in Seq(TextChars)
  <2>1. PICK h \in Seq(TextChars), r \in Seq(Line) : h = Head(ls) /\ r = Tail(ls)
    BY <1>4
  <2>2. Run(GlueOp, h, r) \in Seq(TextChars)
    BY <1>2, RunType
  <2> QED
    BY <1>5, <2>1, <2>2
<1>7. ASSUME NEW ls \in Document, NEW l \in Line
      PROVE  Join(Append(ls, l)) = Join(ls) \o <<NL>> \o l
  <2>1. /\ Append(ls, l) \in Document
        /\ Head(Append(ls, l)) = Head(ls) /\ Tail(Append(ls, l)) = Append(Tail(ls), l)
    BY DEF Document, LineSeq
  <2>2. Run(GlueOp, Head(ls), Append(Tail(ls), l)) = GlueOp[<<Run(GlueOp, Head(ls), Tail(ls)), l>>]
    <3>1. PICK h \in Seq(TextChars), r \in Seq(Line) : h = Head(ls) /\ r = Tail(ls)
      BY <1>4
    <3>2. Run(GlueOp, h, Append(r, l)) = GlueOp[<<Run(GlueOp, h, r), l>>]
      BY <1>2, RunGoesOn
    <3> QED
      BY <3>1, <3>2
  <2>3. Join(Append(ls, l)) = GlueOp[<<Join(ls), l>>]
    BY <1>5, <2>1, <2>2
  <2> QED
    BY <1>6, <2>3 DEF GlueOp, Glue
<1>8. ASSUME NEW l \in Line
      PROVE  Join(<<l>>) = l
  <2>1. <<l>> \in Document /\ Head(<<l>>) = l /\ Tail(<<l>>) = <<>>
    BY DEF Document, LineSeq
  <2>2. Run(GlueOp, l, <<>>) = l
    BY RunStarts
  <2> QED
    BY <1>5, <2>1, <2>2
<1> QED
  BY <1>6, <1>7, <1>8

-----------------------------------------------------------------------------
(* A text and its lines: splitting what was joined gives the lines back,   *)
(* and joining what was split the text.                                    *)
LEMMA DocumentEnds ==
  ASSUME NEW ls \in Document
  PROVE  \E f \in LineSeq : \E l \in Line : ls = Append(f, l)
<1> DEFINE f == SubSeq(ls, 1, Len(ls) - 1)
           l == ls[Len(ls)]
<1>1. f \in LineSeq /\ l \in Line
  BY DEF Document, LineSeq
<1>2. ls = Append(f, l)
  BY DEF Document, LineSeq
<1> QED
  BY <1>1, <1>2

(* Splitting into lines stays in its types.                                *)
LEMMA SplitInside ==
  ASSUME NEW f \in LineSeq, NEW l \in Line, NEW c \in LineChars
  PROVE  Split(Append(f, l), c) = Append(f, Append(l, c)) /\ Append(l, c) \in Line
<1>1. c # NL /\ Append(l, c) \in Line
  BY DEF LineChars, Line
<1>2. PICK x \in Line : x = Append(l, c)
  BY <1>1
<1>3. Last(Append(f, l)) = l /\ Len(Append(f, l)) = Len(f) + 1
  BY DEF LineSeq, Last
<1>4. ReplaceAt(Append(f, l), Len(f) + 1, x) = Append(f, x)
  <2> DEFINE n == Len(f)
             d == Append(f, l)
             e == Append(f, x)
  <2>1. /\ n \in Nat /\ DOMAIN d = 1 .. n + 1 /\ DOMAIN e = 1 .. n + 1
        /\ \A k \in 1 .. n : d[k] = e[k]
        /\ e[n + 1] = x
        /\ e = [k \in 1 .. n + 1 |-> e[k]]
    <3>1. n \in Nat /\ Len(d) = n + 1 /\ Len(e) = n + 1 /\ d \in LineSeq /\ e \in LineSeq
      BY DEF LineSeq
    <3>2. DOMAIN d = 1 .. n + 1 /\ DOMAIN e = 1 .. n + 1
      BY <3>1 DEF LineSeq
    <3>3. e = [k \in 1 .. n + 1 |-> e[k]]
      <4> HIDE DEF e
      <4> QED
        BY <3>1, <3>2 DEF LineSeq
    <3>4. e[n + 1] = x
      BY DEF LineSeq
    <3>5. \A k \in 1 .. n : d[k] = f[k] /\ e[k] = f[k]
      BY DEF LineSeq
    <3> QED
      BY <3>1, <3>2, <3>3, <3>4, <3>5
  <2>2. ReplaceAt(d, n + 1, x) = [k \in 1 .. n + 1 |-> IF k = n + 1 THEN x ELSE d[k]]
    <3> HIDE DEF d, n
    <3> QED
      BY <2>1 DEF ReplaceAt
  <2> HIDE DEF d, e, n
  <2>3. [k \in 1 .. n + 1 |-> IF k = n + 1 THEN x ELSE d[k]] = [k \in 1 .. n + 1 |-> e[k]]
    <3>1. \A k \in 1 .. n + 1 : k = n + 1 \/ k \in 1 .. n
      BY <2>1
    <3>2. \A k \in 1 .. n + 1 : (IF k = n + 1 THEN x ELSE d[k]) = e[k]
      BY <2>1, <3>1
    <3> QED
      BY <3>2, Zenon
  <2>4. ReplaceAt(d, n + 1, x) = e
    BY <2>1, <2>2, <2>3
  <2> QED
    BY <2>4 DEF d, e, n
<1> QED
  BY <1>1, <1>2, <1>3, <1>4 DEF Split

(* With one character more, the last line grows or a new one begins.       *)
LEMMA LinesExtend ==
  ASSUME NEW t \in Seq(TextChars), NEW f \in LineSeq, NEW x \in Line, Lines(t) = Append(f, x),
         NEW l \in Line
  PROVE  Lines(t \o l) = Append(f, x \o l)
<1> DEFINE T == {m \in Line : Lines(t \o m) = Append(f, x \o m)}
<1>1. LineChars \subseteq TextChars
  BY DEF LineChars, TextChars
<1>2. <<>> \in T
  <2>1. t \o <<>> = t /\ x \o <<>> = x /\ <<>> \in Line
    BY DEF Line
  <2> QED
    BY <2>1
<1>3. ASSUME NEW m \in Seq(LineChars), NEW c \in LineChars, m \in T
      PROVE  Append(m, c) \in T
  <2>1. t \o Append(m, c) = Append(t \o m, c) /\ t \o m \in Seq(TextChars)
    BY <1>1
  <2>2. x \o Append(m, c) = Append(x \o m, c) /\ x \o m \in Line /\ Append(m, c) \in Line
    BY DEF Line
  <2>3. Lines(Append(t \o m, c)) = Split(Append(f, x \o m), c)
    BY <1>1, <1>3, <2>1, LinesGoOn
  <2>4. Split(Append(f, x \o m), c) = Append(f, Append(x \o m, c))
    BY <2>2, SplitInside
  <2> QED
    BY <2>1, <2>2, <2>3, <2>4
<1> HIDE DEF T
<1>4. Seq(LineChars) \subseteq T
  BY <1>2, <1>3, SequenceInduction
<1>5. l \in T
  BY <1>4 DEF Line
<1> QED
  BY <1>5 DEF T

(* Joined lines split into what they were,                                 *)
LEMMA LinesOfJoin == ASSUME NEW ls \in Document PROVE Lines(Join(ls)) = ls
<1> DEFINE T == {d \in LineSeq : d # <<>> => Lines(Join(d)) = d}
<1>1. <<>> \in T
  BY FoldTypes
<1>2. ASSUME NEW d \in Seq(Line), NEW l \in Line, d \in T
      PROVE  Append(d, l) \in T
  <2>1. Append(d, l) \in LineSeq /\ d \in LineSeq
    BY DEF LineSeq
  <2>2. CASE d = <<>>
    <3>1. Append(d, l) = <<l>> /\ Join(<<l>>) = l /\ <<>> \o l = l
      BY <2>2, JoinGoesOn DEF Line
    <3>2. Lines(<<>>) = Append(<<>>, <<>>) /\ <<>> \in LineSeq /\ <<>> \in Line /\ <<>> \in Seq(TextChars)
      BY LinesGoOn, FoldTypes DEF Line
    <3>3. Lines(<<>> \o l) = Append(<<>>, <<>> \o l)
      BY <3>2, LinesExtend
    <3> QED
      BY <2>1, <2>2, <3>1, <3>3
  <2>3. CASE d # <<>>
    <3>1. d \in Document /\ Lines(Join(d)) = d /\ Join(d) \in Seq(TextChars)
      BY <1>2, <2>1, <2>3, JoinGoesOn DEF Document
    <3> DEFINE u == Append(Join(d), NL)
    <3>2. NL \in TextChars /\ u \in Seq(TextChars)
      BY <3>1 DEF TextChars, NL, Chars, Blank
    <3>3. Lines(u) = Append(d, <<>>)
      BY <3>1, <3>2, LinesGoOn DEF Split
    <3>4. Join(Append(d, l)) = Join(d) \o <<NL>> \o l
      BY <3>1, JoinGoesOn
    <3>5. Join(d) \o <<NL>> = u
      BY <3>1, <3>2
    <3> HIDE DEF u
    <3>6. <<>> \in Line /\ <<>> \o l = l
      BY DEF Line
    <3>7. Lines(u \o l) = Append(d, <<>> \o l)
      BY <2>1, <3>2, <3>3, <3>6, LinesExtend
    <3> QED
      BY <2>1, <3>4, <3>5, <3>6, <3>7
  <2> QED
    BY <2>2, <2>3
<1> HIDE DEF T
<1>3. Seq(Line) \subseteq T
  BY <1>1, <1>2, SequenceInduction
<1>4. ls \in T
  BY <1>3 DEF Document, LineSeq
<1> QED
  BY <1>4 DEF T, Document

(* a line joined at the end is the last line,                              *)
LEMMA JoinExtend ==
  ASSUME NEW f \in LineSeq, NEW l \in Line, NEW c \in LineChars
  PROVE  Join(Append(f, Append(l, c))) = Append(Join(Append(f, l)), c)
<1>1. Append(l, c) \in Line
  BY DEF Line
<1>2. CASE f = <<>>
  <2>1. Append(f, Append(l, c)) = <<Append(l, c)>> /\ Append(f, l) = <<l>>
    BY <1>1, <1>2
  <2> QED
    BY <1>1, <2>1, JoinGoesOn
<1>3. CASE f # <<>>
  <2>1. f \in Document
    BY <1>3 DEF Document
  <2>2. /\ Join(Append(f, Append(l, c))) = Join(f) \o <<NL>> \o Append(l, c)
        /\ Join(Append(f, l)) = Join(f) \o <<NL>> \o l
        /\ Join(f) \in Seq(TextChars)
    BY <1>1, <2>1, JoinGoesOn
  <2>3. /\ l \in Seq(TextChars) /\ c \in TextChars /\ NL \in TextChars
    <3>1. LineChars \subseteq TextChars
      BY DEF LineChars, TextChars
    <3> QED
      BY <3>1 DEF Line, TextChars, NL, Chars, Blank
  <2>4. Join(f) \o <<NL>> \in Seq(TextChars)
    BY <2>2, <2>3
  <2>5. (Join(f) \o <<NL>>) \o Append(l, c) = Append((Join(f) \o <<NL>>) \o l, c)
    BY <2>3, <2>4
  <2> QED
    BY <2>2, <2>5
<1> QED
  BY <1>2, <1>3

(* and split lines join into the text they came from.                      *)
LEMMA JoinOfLines == ASSUME NEW t \in Seq(TextChars) PROVE Join(Lines(t)) = t
<1> DEFINE T == {u \in Seq(TextChars) : Join(Lines(u)) = u}
<1>1. <<>> \in T
  <2>1. <<>> \in Line /\ <<>> \in Seq(TextChars)
    BY DEF Line
  <2> QED
    BY <2>1, LinesGoOn, JoinGoesOn
<1>2. ASSUME NEW u \in Seq(TextChars), NEW c \in TextChars, u \in T
      PROVE  Append(u, c) \in T
  <2>1. Lines(u) \in Document /\ Lines(Append(u, c)) = Split(Lines(u), c)
    BY LinesGoOn
  <2>2. CASE c = NL
    <3>1. Lines(Append(u, c)) = Append(Lines(u), <<>>)
      BY <2>1, <2>2 DEF Split
    <3>2. <<>> \in Line
      BY DEF Line
    <3>3. Join(Append(Lines(u), <<>>)) = Join(Lines(u)) \o <<NL>> \o <<>>
      BY <2>1, <3>2, JoinGoesOn
    <3>4. u \o <<NL>> \o <<>> = Append(u, c)
      BY <2>2
    <3>5. Append(u, c) \in Seq(TextChars) /\ Join(Lines(u)) = u
      BY <1>2
    <3> QED
      BY <3>1, <3>3, <3>4, <3>5
  <2>3. CASE c # NL
    <3>1. c \in LineChars
      BY <2>3 DEF LineChars, TextChars
    <3>2. PICK f \in LineSeq : \E l \in Line : Lines(u) = Append(f, l)
      BY <2>1, DocumentEnds
    <3>3. PICK l \in Line : Lines(u) = Append(f, l)
      BY <3>2
    <3>4. Lines(Append(u, c)) = Append(f, Append(l, c))
      BY <2>1, <3>1, <3>3, SplitInside
    <3>5. Join(Append(f, Append(l, c))) = Append(Join(Append(f, l)), c)
      BY <3>1, JoinExtend
    <3>6. Append(u, c) \in Seq(TextChars) /\ Join(Lines(u)) = u
      BY <1>2
    <3> QED
      BY <3>3, <3>4, <3>5, <3>6
  <2> QED
    BY <2>2, <2>3
<1> HIDE DEF T
<1>3. Seq(TextChars) \subseteq T
  BY <1>1, <1>2, SequenceInduction
<1>4. t \in T
  BY <1>3
<1> QED
  BY <1>4 DEF T

-----------------------------------------------------------------------------
(* Lines as stripExcessWhitespace leaves them: without blanks at their     *)
(* ends, and with no two empty ones in a row.                              *)
Clean(ls) ==
  /\ \A k \in 1 .. Len(ls) : TrimRight(ls[k]) = ls[k]
  /\ \A k \in 1 .. Len(ls) - 1 : ls[k] # <<>> \/ ls[k + 1] # <<>>

(* A clean document stays clean when a line is kept.                       *)
LEMMA CleanAppend ==
  ASSUME NEW d \in LineSeq, NEW l \in Line
  PROVE  Clean(Append(d, l)) <=> Clean(d) /\ TrimRight(l) = l /\ KeepLine(d, l)
<1> DEFINE n == Len(d)
           e == Append(d, l)
<1>1. /\ n \in Nat /\ Len(e) = n + 1
      /\ e[n + 1] = l
      /\ \A k \in 1 .. n : e[k] = d[k]
      /\ d = <<>> <=> n = 0
      /\ n # 0 => Last(d) = d[n]
  BY DEF LineSeq, Last
<1>2. KeepLine(d, l) <=> l # <<>> \/ n = 0 \/ d[n] # <<>>
  BY <1>1 DEF KeepLine
<1> HIDE DEF n, e
<1>3. \A k \in 1 .. n + 1 : k = n + 1 \/ k \in 1 .. n
  BY <1>1
<1>4. (\A k \in 1 .. n + 1 : TrimRight(e[k]) = e[k])
        <=> (\A k \in 1 .. n : TrimRight(d[k]) = d[k]) /\ TrimRight(l) = l
  <2>1. ASSUME \A k \in 1 .. n + 1 : TrimRight(e[k]) = e[k]
        PROVE  (\A k \in 1 .. n : TrimRight(d[k]) = d[k]) /\ TrimRight(l) = l
    <3>1. n + 1 \in 1 .. n + 1 /\ \A k \in 1 .. n : k \in 1 .. n + 1
      BY <1>1
    <3> QED
      BY <1>1, <2>1, <3>1
  <2>2. ASSUME \A k \in 1 .. n : TrimRight(d[k]) = d[k], TrimRight(l) = l
        PROVE  \A k \in 1 .. n + 1 : TrimRight(e[k]) = e[k]
    BY <1>1, <1>3, <2>2
  <2> QED
    BY <2>1, <2>2
<1>5. (\A k \in 1 .. n : e[k] # <<>> \/ e[k + 1] # <<>>)
        <=> (\A k \in 1 .. n - 1 : d[k] # <<>> \/ d[k + 1] # <<>>) /\ KeepLine(d, l)
  <2>1. \A k \in 1 .. n - 1 : k \in 1 .. n /\ k + 1 \in 1 .. n
    BY <1>1
  <2>2. n = 0 \/ n \in 1 .. n
    BY <1>1
  <2>3. \A k \in 1 .. n : k \in 1 .. n - 1 \/ k = n
    BY <1>1
  <2>4. ASSUME \A k \in 1 .. n : e[k] # <<>> \/ e[k + 1] # <<>>
        PROVE  (\A k \in 1 .. n - 1 : d[k] # <<>> \/ d[k + 1] # <<>>) /\ KeepLine(d, l)
    BY <1>1, <1>2, <2>1, <2>2, <2>4
  <2>5. ASSUME \A k \in 1 .. n - 1 : d[k] # <<>> \/ d[k + 1] # <<>>, KeepLine(d, l)
        PROVE  \A k \in 1 .. n : e[k] # <<>> \/ e[k + 1] # <<>>
    BY <1>1, <1>2, <2>1, <2>3, <2>5
  <2> QED
    BY <2>4, <2>5
<1>6. Clean(d) <=> /\ \A k \in 1 .. n : TrimRight(d[k]) = d[k]
                   /\ \A k \in 1 .. n - 1 : d[k] # <<>> \/ d[k + 1] # <<>>
  BY DEF Clean, n
<1>7. Clean(e) <=> /\ \A k \in 1 .. n + 1 : TrimRight(e[k]) = e[k]
                   /\ \A k \in 1 .. n : e[k] # <<>> \/ e[k + 1] # <<>>
  <2>1. Len(e) - 1 = n
    BY <1>1
  <2> QED
    BY <1>1, <2>1 DEF Clean
<1>8. Clean(e) <=> Clean(d) /\ TrimRight(l) = l /\ KeepLine(d, l)
  BY <1>4, <1>5, <1>6, <1>7
<1> QED
  BY <1>8 DEF e

(* There is nothing left to trim on a trimmed line.                        *)
LEMMA TrimTwice == ASSUME NEW l \in Line PROVE TrimRight(TrimRight(l)) = TrimRight(l)
BY Trimmed DEF Line

(* The document without lines is clean.                                    *)
LEMMA CleanEmpty == Clean(<<>>)
BY DEF Clean

(* What is kept is clean,                                                  *)
LEMMA KeptIsClean == ASSUME NEW ls \in LineSeq PROVE Clean(Kept(ls))
<1> DEFINE T == {d \in LineSeq : Clean(Kept(d))}
<1>1. <<>> \in T
  BY KeptGoesOn, FoldTypes, CleanEmpty
<1>2. ASSUME NEW d \in Seq(Line), NEW l \in Line, d \in T
      PROVE  Append(d, l) \in T
  <2>1. Append(d, l) \in LineSeq /\ Kept(Append(d, l)) = Keep(Kept(d), l)
    BY KeptGoesOn DEF LineSeq
  <2>2. PICK k \in LineSeq : k = Kept(d) /\ Clean(k)
    BY <1>2, KeptGoesOn
  <2>3. PICK m \in Line : m = TrimRight(l) /\ TrimRight(m) = m
    BY TrimType, TrimTwice
  <2>4. Clean(Keep(k, l))
    BY <2>2, <2>3, CleanAppend DEF Keep
  <2> QED
    BY <2>1, <2>2, <2>4
<1> HIDE DEF T
<1>3. Seq(Line) \subseteq T
  BY <1>1, <1>2, SequenceInduction
<1>4. ls \in T
  BY <1>3 DEF LineSeq
<1> QED
  BY <1>4 DEF T

(* clean lines are all kept,                                               *)
LEMMA CleanIsKept == ASSUME NEW ls \in LineSeq, Clean(ls) PROVE Kept(ls) = ls
<1> DEFINE T == {d \in LineSeq : Clean(d) => Kept(d) = d}
<1>1. <<>> \in T
  BY KeptGoesOn, FoldTypes
<1>2. ASSUME NEW d \in Seq(Line), NEW l \in Line, d \in T
      PROVE  Append(d, l) \in T
  <2>1. d \in LineSeq /\ Append(d, l) \in LineSeq
    BY DEF LineSeq
  <2>2. ASSUME Clean(Append(d, l))
        PROVE  Kept(Append(d, l)) = Append(d, l)
    <3>1. Clean(d) /\ TrimRight(l) = l /\ KeepLine(d, l)
      BY <2>1, <2>2, CleanAppend
    <3>2. Kept(d) = d /\ Kept(Append(d, l)) = Keep(d, l)
      BY <1>2, <2>1, <3>1, KeptGoesOn
    <3> QED
      BY <3>1, <3>2 DEF Keep
  <2> QED
    BY <2>1, <2>2
<1> HIDE DEF T
<1>3. Seq(Line) \subseteq T
  BY <1>1, <1>2, SequenceInduction
<1>4. ls \in T
  BY <1>3 DEF LineSeq
<1> QED
  BY <1>4 DEF T

(* no line with something on it is lost,                                   *)
LEMMA KeptIsWritten == ASSUME NEW ls \in LineSeq PROVE WrittenOf(Kept(ls)) = WrittenOf(ls)
<1> DEFINE T == {d \in LineSeq : WrittenOf(Kept(d)) = WrittenOf(d)}
<1>1. <<>> \in T
  BY KeptGoesOn, FoldTypes
<1>2. ASSUME NEW d \in Seq(Line), NEW l \in Line, d \in T
      PROVE  Append(d, l) \in T
  <2>1. d \in LineSeq /\ Append(d, l) \in LineSeq
    BY DEF LineSeq
  <2>2. Kept(Append(d, l)) = Keep(Kept(d), l) /\ WrittenOf(Append(d, l)) = Write(WrittenOf(d), l)
    BY <2>1, KeptGoesOn, WrittenGoesOn
  <2>3. PICK k \in LineSeq : k = Kept(d) /\ WrittenOf(k) = WrittenOf(d)
    BY <1>2, KeptGoesOn
  <2>4. PICK m \in Line : m = TrimRight(l) /\ TrimRight(m) = m
    BY TrimType, TrimTwice
  <2>5. WrittenOf(Append(k, m)) = Write(WrittenOf(k), m)
    BY WrittenGoesOn
  <2>6. Write(WrittenOf(k), m) = Write(WrittenOf(k), l)
    BY <2>4 DEF Write
  <2>7. ~KeepLine(k, m) => Write(WrittenOf(k), l) = WrittenOf(k)
    BY <2>4 DEF KeepLine, Write
  <2>8. WrittenOf(Keep(k, l)) = Write(WrittenOf(k), l)
    BY <2>4, <2>5, <2>6, <2>7 DEF Keep
  <2> QED
    BY <2>1, <2>2, <2>3, <2>8
<1> HIDE DEF T
<1>3. Seq(Line) \subseteq T
  BY <1>1, <1>2, SequenceInduction
<1>4. ls \in T
  BY <1>3 DEF LineSeq
<1> QED
  BY <1>4 DEF T

(* the first line stays, and the text gets shorter if anything changes.    *)
Shorter(k, d) ==
  /\ k # <<>>
  /\ Len(Join(k)) <= Len(Join(d))
  /\ Len(Join(k)) = Len(Join(d)) => k = d

(* How long a joined text is: its lines, and a newline between them.       *)
LEMMA JoinLength ==
  ASSUME NEW d \in Document, NEW l \in Line
  PROVE  /\ Len(Join(d)) \in Nat /\ Len(l) \in Nat
         /\ Len(Join(Append(d, l))) = Len(Join(d)) + 1 + Len(l)
<1>1. PICK j \in Seq(TextChars) : j = Join(d)
  BY JoinGoesOn
<1>2. Join(Append(d, l)) = j \o <<NL>> \o l
  BY <1>1, JoinGoesOn
<1>3. Len(j \o <<NL>> \o l) = Len(j) + 1 + Len(l)
  <2>1. LineChars \subseteq TextChars /\ NL \in TextChars
    BY DEF LineChars, TextChars, NL, Chars, Blank
  <2>2. l \in Seq(TextChars) /\ <<NL>> \in Seq(TextChars) /\ Len(<<NL>>) = 1
    BY <2>1 DEF Line
  <2>3. j \o <<NL>> \in Seq(TextChars) /\ Len(j \o <<NL>>) = Len(j) + 1
    BY <2>2
  <2> QED
    BY <2>2, <2>3
<1> QED
  BY <1>1, <1>2, <1>3 DEF Line

(* The lines kept are no longer than the lines there were.                 *)
LEMMA KeptIsShorter == ASSUME NEW ls \in Document PROVE Shorter(Kept(ls), ls)
<1> DEFINE T == {d \in LineSeq : d # <<>> => Shorter(Kept(d), d)}
<1>1. <<>> \in T
  BY FoldTypes
<1>2. ASSUME NEW d \in Seq(Line), NEW l \in Line, d \in T
      PROVE  Append(d, l) \in T
  <2>1. d \in LineSeq /\ Append(d, l) \in LineSeq
    BY DEF LineSeq
  <2>2. Kept(Append(d, l)) = Keep(Kept(d), l)
    BY <2>1, KeptGoesOn
  <2>3. PICK m \in Line : m = TrimRight(l) /\ Len(m) <= Len(l) /\ (Len(m) = Len(l) => m = l)
    BY TrimType, Trimmed DEF Line
  <2>4. Len(l) \in Nat /\ Len(m) \in Nat
    BY DEF Line
  <2>5. CASE d = <<>>
    <3>1. Append(d, l) = <<l>> /\ Kept(d) = <<>> /\ Keep(<<>>, l) = <<m>>
      BY <2>3, <2>5, KeptGoesOn DEF Keep, KeepLine
    <3>2. Join(<<l>>) = l /\ Join(<<m>>) = m
      BY JoinGoesOn
    <3>3. Shorter(<<m>>, <<l>>)
      BY <2>3, <3>2 DEF Shorter
    <3> QED
      BY <2>1, <2>2, <3>1, <3>3
  <2>6. CASE d # <<>>
    <3>1. PICK k \in LineSeq : k = Kept(d)
      BY <2>1, KeptGoesOn
    <3>2. Shorter(k, d)
      BY <1>2, <2>6, <3>1
    <3>3. k \in Document /\ d \in Document
      BY <2>1, <2>6, <3>2 DEF Document, Shorter
    <3>4. /\ Len(Join(d)) \in Nat /\ Len(Join(k)) \in Nat
          /\ Len(Join(Append(d, l))) = Len(Join(d)) + 1 + Len(l)
          /\ Len(Join(Append(k, m))) = Len(Join(k)) + 1 + Len(m)
      BY <3>3, JoinLength
    <3>5. CASE KeepLine(k, m)
      <4>1. Keep(k, l) = Append(k, m) /\ Append(k, m) # <<>>
        BY <2>3, <3>5 DEF Keep, LineSeq
      <4>2. Len(Join(Append(k, m))) <= Len(Join(Append(d, l)))
        BY <2>3, <2>4, <3>2, <3>4 DEF Shorter
      <4>3. Len(Join(Append(k, m))) = Len(Join(Append(d, l))) => k = d /\ m = l
        <5>1. Len(Join(Append(k, m))) = Len(Join(Append(d, l)))
                => Len(Join(k)) = Len(Join(d)) /\ Len(m) = Len(l)
          BY <2>3, <2>4, <3>2, <3>4 DEF Shorter
        <5> QED
          BY <5>1, <2>3, <3>2 DEF Shorter
      <4>4. Shorter(Append(k, m), Append(d, l))
        BY <4>1, <4>2, <4>3 DEF Shorter
      <4> QED
        BY <2>1, <2>2, <3>1, <4>1, <4>4
    <3>6. CASE ~KeepLine(k, m)
      <4>1. Keep(k, l) = k
        BY <2>3, <3>6 DEF Keep
      <4>2. Len(Join(k)) < Len(Join(Append(d, l)))
        BY <2>4, <3>2, <3>4 DEF Shorter
      <4>3. Shorter(k, Append(d, l))
        <5>1. Len(Join(Append(d, l))) \in Nat
          BY <2>4, <3>4
        <5> QED
          BY <3>2, <3>4, <4>2, <5>1 DEF Shorter
      <4> QED
        BY <2>1, <2>2, <3>1, <4>1, <4>3
    <3> QED
      BY <3>5, <3>6
  <2> QED
    BY <2>5, <2>6
<1> HIDE DEF T
<1>3. Seq(Line) \subseteq T
  BY <1>1, <1>2, SequenceInduction
<1>4. ls \in T
  BY <1>3 DEF Document, LineSeq
<1> QED
  BY <1>4 DEF T, Document

-----------------------------------------------------------------------------
(* What stripExcessWhitespace does to a text.                              *)
LEMMA Stripped ==
  ASSUME NEW t \in Seq(TextChars)
  PROVE  /\ StripExcessWhitespace(t) \in Seq(TextChars)
         /\ Lines(StripExcessWhitespace(t)) = Kept(Lines(t))
         /\ Len(StripExcessWhitespace(t)) <= Len(t)
         /\ Len(StripExcessWhitespace(t)) = Len(t) => StripExcessWhitespace(t) = t
<1>1. PICK d \in Document : d = Lines(t)
  BY LinesGoOn
<1>2. d \in LineSeq /\ Join(d) = t
  BY <1>1, JoinOfLines DEF Document
<1>3. PICK k \in LineSeq : k = Kept(d)
  BY <1>2, KeptGoesOn
<1>4. Shorter(k, d)
  BY <1>3, KeptIsShorter
<1>5. k \in Document
  BY <1>4 DEF Shorter, Document
<1>6. StripExcessWhitespace(t) = Join(k)
  BY <1>1, <1>3 DEF StripExcessWhitespace, Kept
<1>7. Join(k) \in Seq(TextChars) /\ Lines(Join(k)) = k
  BY <1>5, JoinGoesOn, LinesOfJoin
<1>8. Len(Join(k)) <= Len(t) /\ (Len(Join(k)) = Len(t) => Join(k) = t)
  BY <1>2, <1>4 DEF Shorter
<1> QED
  BY <1>1, <1>3, <1>6, <1>7, <1>8

(* Stripping keeps what is written, and a second time it does nothing.     *)
LEMMA StrippedKeeps ==
  ASSUME NEW t \in Seq(TextChars)
  PROVE  /\ Written(StripExcessWhitespace(t)) = Written(t)
         /\ Clean(Lines(StripExcessWhitespace(t)))
         /\ StripExcessWhitespace(StripExcessWhitespace(t)) = StripExcessWhitespace(t)
<1>1. PICK s \in Seq(TextChars) : s = StripExcessWhitespace(t) /\ Lines(s) = Kept(Lines(t))
  BY Stripped
<1>2. Lines(t) \in LineSeq /\ Lines(s) \in LineSeq
  BY LinesGoOn DEF Document
<1>3. Written(s) = Written(t)
  BY <1>1, <1>2, KeptIsWritten DEF Written, WrittenOf
<1>4. Clean(Lines(s))
  BY <1>1, <1>2, KeptIsClean
<1>5. Kept(Lines(s)) = Lines(s)
  BY <1>2, <1>4, CleanIsKept
<1>6. StripExcessWhitespace(s) = Join(Lines(s))
  BY <1>5 DEF StripExcessWhitespace, Kept
<1>7. StripExcessWhitespace(s) = s
  BY <1>6, JoinOfLines
<1> QED
  BY <1>1, <1>3, <1>4, <1>7

-----------------------------------------------------------------------------
(* The elements of a set of positions, counted from the front.             *)
Rank(K, k) == Cardinality(K \cap 1 .. k)

(* The elements of a finite set of positions have ranks without a gap.     *)
LEMMA Ranks ==
  ASSUME NEW n \in Nat, NEW K \in SUBSET (1 .. n)
  PROVE  /\ Cardinality(K) \in 0 .. n
         /\ \A k \in K : Rank(K, k) \in 1 .. Cardinality(K)
         /\ \A j \in 1 .. Cardinality(K) : \E k \in K : Rank(K, k) = j
         /\ \A k, l \in K : Rank(K, k) = Rank(K, l) => k = l
<1>1. IsFiniteSet(1 .. n) /\ Cardinality(1 .. n) = n
  BY FS_Interval
<1>2. IsFiniteSet(K) /\ Cardinality(K) \in Nat /\ Cardinality(K) <= n
  BY <1>1, FS_Subset, FS_CardinalityType
<1>3. ASSUME NEW k \in K
      PROVE  Rank(K, k) \in 1 .. Cardinality(K)
  <2> DEFINE R == K \cap 1 .. k
  <2>1. R \in SUBSET K /\ k \in R
    OBVIOUS
  <2> HIDE DEF R
  <2>2. IsFiniteSet(R) /\ Cardinality(R) <= Cardinality(K) /\ Cardinality(R) \in Nat
    BY <1>2, <2>1, FS_Subset, FS_CardinalityType
  <2>3. Cardinality(R) # 0
    BY <2>1, <2>2, FS_EmptySet
  <2> QED
    BY <1>2, <2>2, <2>3 DEF R, Rank
<1>4. ASSUME NEW k \in K, NEW l \in K, k < l
      PROVE  Rank(K, k) # Rank(K, l)
  <2> DEFINE R == K \cap 1 .. k
             Q == K \cap 1 .. l
  <2>1. R \in SUBSET Q /\ l \in Q /\ l \notin R /\ Q \in SUBSET K
    BY <1>4
  <2> HIDE DEF R, Q
  <2>2. IsFiniteSet(Q)
    BY <1>2, <2>1, FS_Subset
  <2>3. Cardinality(Q) = Cardinality(R) => Q = R
    BY <2>1, <2>2, FS_Subset
  <2>4. Cardinality(R) # Cardinality(Q)
    BY <2>1, <2>3
  <2> QED
    BY <2>4 DEF R, Q, Rank
<1>5. \A k, l \in K : Rank(K, k) = Rank(K, l) => k = l
  <2>1. \A k, l \in K : k < l \/ l < k \/ k = l
    OBVIOUS
  <2> QED
    BY <1>4, <2>1
<1>6. \A j \in 1 .. Cardinality(K) : \E k \in K : Rank(K, k) = j
  <2> DEFINE J == 1 .. Cardinality(K)
             f == [k \in K |-> Rank(K, k)]
  <2>1. f \in Injection(K, J)
    <3>1. f \in [K -> J]
      BY <1>3
    <3>2. \A k, l \in K : f[k] = f[l] => k = l
      BY <1>5
    <3> QED
      BY <3>1, <3>2 DEF Injection, IsInjective
  <2>2. IsFiniteSet(J) /\ Cardinality(J) = Cardinality(K)
    BY <1>2, FS_Interval
  <2> HIDE DEF f, J
  <2>3. f \in Surjection(K, J)
    BY <2>1, <2>2, FS_Injection
  <2>4. \A j \in J : \E k \in K : f[k] = j
    BY <2>3 DEF Surjection
  <2> QED
    BY <2>4 DEF f, J
<1> QED
  BY <1>2, <1>3, <1>5, <1>6

(* json.Compact takes blanks out of a text: what it leaves are characters  *)
(* of the text, no more than there were, and all that are not blank.       *)
LEMMA Compacted ==
  ASSUME NEW t \in Seq(Chars)
  PROVE  /\ Compact(t) \in Seq(Chars)
         /\ Len(Compact(t)) <= Len(t)
         /\ HasInk(t) => HasInk(Compact(t))
<1> DEFINE after[k \in 0 .. Len(t)] == IF k = 0 THEN Outside ELSE Read(after[k - 1], t[k], t[1])
           kept == {k \in DOMAIN t : t[k] \notin Blank \/ after[k - 1].inString}
           at(j) == CHOOSE k \in kept : Cardinality(kept \cap 1 .. k) = j
<1>1. Compact(t) = [j \in 1 .. Cardinality(kept) |-> t[at(j)]]
  BY DEF Compact
<1>2. kept \in SUBSET (1 .. Len(t)) /\ Len(t) \in Nat
  OBVIOUS
<1>3. \A k \in 1 .. Len(t) : t[k] \notin Blank => k \in kept
  OBVIOUS
<1> HIDE DEF kept
<1>5. /\ Cardinality(kept) \in 0 .. Len(t)
      /\ \A k \in kept : Rank(kept, k) \in 1 .. Cardinality(kept)
      /\ \A j \in 1 .. Cardinality(kept) : \E k \in kept : Rank(kept, k) = j
      /\ \A k, l \in kept : Rank(kept, k) = Rank(kept, l) => k = l
  BY <1>2, Ranks
<1>6. \A j \in 1 .. Cardinality(kept) : at(j) \in kept /\ Rank(kept, at(j)) = j
  BY <1>5 DEF Rank
<1> HIDE DEF at
<1>7. \A k \in kept : at(Rank(kept, k)) = k
  <2> SUFFICES ASSUME NEW k \in kept
               PROVE  at(Rank(kept, k)) = k
    OBVIOUS
  <2>1. PICK r \in 1 .. Cardinality(kept) : r = Rank(kept, k)
    BY <1>5
  <2>2. at(r) \in kept /\ Rank(kept, at(r)) = Rank(kept, k)
    BY <1>6, <2>1
  <2> QED
    BY <1>5, <2>1, <2>2
<1> DEFINE c == [j \in 1 .. Cardinality(kept) |-> t[at(j)]]
<1>8. \A j \in 1 .. Cardinality(kept) : t[at(j)] \in Chars
  <2>1. \A k \in 1 .. Len(t) : t[k] \in Chars
    OBVIOUS
  <2>2. \A j \in 1 .. Cardinality(kept) : at(j) \in 1 .. Len(t)
    BY <1>2, <1>6
  <2> QED
    BY <2>1, <2>2
<1>9. c \in Seq(Chars) /\ Len(c) = Cardinality(kept)
  BY <1>5, <1>8
<1>10. ASSUME NEW k \in 1 .. Len(t), t[k] \notin Blank
       PROVE  \E j \in 1 .. Cardinality(kept) : c[j] \notin Blank
  <2>1. k \in kept
    BY <1>3, <1>10
  <2>2. Rank(kept, k) \in 1 .. Cardinality(kept) /\ at(Rank(kept, k)) = k
    BY <1>5, <1>7, <2>1
  <2> QED
    BY <1>10, <2>2
<1>11. HasInk(t) => HasInk(c)
  BY <1>10 DEF HasInk
<1> HIDE DEF c
<1>12. Len(c) <= Len(t)
  BY <1>2, <1>5, <1>9
<1>13. Compact(t) = c
  BY <1>1 DEF c
<1> QED
  BY <1>9, <1>11, <1>12, <1>13

-----------------------------------------------------------------------------
(* What a blob is replaced by is a text, and not an empty one if anything. *)
LEMMA EncodedType ==
  ASSUME NEW v, NEW e \in Encoded(v)
  PROVE  /\ e \in Seq(TextChars)
         /\ e # <<>> => HasInk(e)
         /\ v # EmptyObject => e # <<>>
<1>1. CASE v = EmptyObject
  BY <1>1 DEF Encoded
<1>2. CASE v # EmptyObject
  <2>1. PICK n \in Nat : n # 0 /\ e = [k \in 1 .. n |-> "toon"]
    BY <1>2, TextAssumption DEF Encoded
  <2>2. e \in Seq(TextChars) /\ Len(e) = n /\ DOMAIN e = 1 .. n
    BY <2>1 DEF TextChars
  <2>3. 1 \in 1 .. n /\ e[1] = "toon"
    BY <2>1
  <2>4. HasInk(e) /\ e # <<>>
    BY <2>1, <2>2, <2>3 DEF HasInk, Blank
  <2> QED
    BY <1>2, <2>2, <2>4
<1> QED
  BY <1>1, <1>2

(* A blob lies in the text and begins with a bracket. *)
InText(b) ==
  /\ b \in Interval
  /\ b.from \in 1 .. b.to
  /\ b.to \in 1 .. Len(text)
  /\ text[b.from] \in Opening

(* A stretch of the text is a text,                                        *)
LEMMA RawType ==
  ASSUME ScannerTypeOK, NEW b, InText(b)
  PROVE  /\ Raw(b) \in Seq(Chars)
         /\ Raw(b) # <<>>
         /\ Len(Raw(b)) = b.to - b.from + 1
         /\ HasInk(Raw(b))
<1>1. PICK f \in Nat, t \in Nat : f = b.from /\ t = b.to
  BY DEF InText, Interval
<1>2. text \in Seq(Chars) /\ 1 <= f /\ f <= t /\ t <= Len(text)
  BY <1>1 DEF ScannerTypeOK, InText
<1> DEFINE s == SubSeq(text, f, t)
<1>3. s \in Seq(Chars) /\ Len(s) = t - f + 1 /\ s[1] = text[f] /\ 1 \in DOMAIN s
  BY <1>2
<1>4. text[f] \notin Blank
  BY <1>1 DEF InText, Opening, Blank
<1>5. s = Raw(b)
  BY <1>1 DEF Raw
<1> HIDE DEF s
<1>6. HasInk(s) /\ s # <<>>
  BY <1>3, <1>4 DEF HasInk
<1> QED
  BY <1>1, <1>3, <1>5, <1>6

(* so is everything optimizeMixed may put in its place,                    *)
LEMMA ReplacementType ==
  ASSUME ScannerTypeOK, NEW b, InText(b), NEW r \in Replacements(b)
  PROVE  /\ r \in Seq(TextChars)
         /\ r # <<>> => HasInk(r)
         /\ ~config.toon => Len(r) <= b.to - b.from + 1
<1> DEFINE c == IF config.compact THEN Compact(Raw(b)) ELSE <<>>
<1>1. /\ c \in Seq(Chars)
      /\ c # <<>> => HasInk(c)
      /\ Len(c) <= b.to - b.from + 1
  <2>1. PICK w \in Seq(Chars) : w = Raw(b) /\ Len(w) = b.to - b.from + 1 /\ HasInk(w)
    BY RawType
  <2>2. Compact(w) \in Seq(Chars) /\ Len(Compact(w)) <= Len(w) /\ HasInk(Compact(w))
    BY <2>1, Compacted
  <2>3. b.to \in Nat /\ b.from \in Nat /\ b.from <= b.to
    BY DEF InText, Interval
  <2>4. CASE config.compact
    BY <2>1, <2>2, <2>4
  <2>5. CASE ~config.compact
    BY <2>3, <2>5
  <2> QED
    BY <2>4, <2>5
<1>2. c \in Seq(TextChars)
  <2>1. Chars \subseteq TextChars
    BY DEF TextChars
  <2> HIDE DEF c
  <2> QED
    BY <1>1, <2>1
<1>3. r = c \/ (config.toon /\ \E v : r \in Encoded(v) /\ r # <<>>)
  BY DEF Replacements
<1> HIDE DEF c
<1> QED
  BY <1>1, <1>2, <1>3, EncodedType

(* One text after another.                                                 *)
Follows(t, a, b) ==
  /\ t \in Seq(TextChars)
  /\ Len(t) = Len(a) + Len(b)
  /\ \A j \in 1 .. Len(a) : t[j] = a[j]
  /\ \A j \in 1 .. Len(b) : t[Len(a) + j] = b[j]

(* the texts put together,                                                 *)
LEMMA Concat ==
  ASSUME NEW a \in Seq(TextChars), NEW b \in Seq(TextChars)
  PROVE  Follows(a \o b, a, b)
<1>1. a \o b \in Seq(TextChars) /\ Len(a \o b) = Len(a) + Len(b) /\ Len(a) \in Nat /\ Len(b) \in Nat
  OBVIOUS
<1>2. ASSUME NEW j \in 1 .. Len(a)
      PROVE  (a \o b)[j] = a[j]
  BY <1>1
<1>3. ASSUME NEW j \in 1 .. Len(b)
      PROVE  (a \o b)[Len(a) + j] = b[j]
  <2>1. PICK k \in Nat : k = Len(a) + j /\ k > Len(a) /\ k <= Len(a) + Len(b) /\ k - Len(a) = j
    BY <1>1
  <2>2. (a \o b)[k] = b[k - Len(a)]
    BY <1>1, <2>1
  <2> QED
    BY <2>1, <2>2
<1> QED
  BY <1>1, <1>2, <1>3 DEF Follows

Splice(s, from, to, r) == SubSeq(s, 1, from - 1) \o r \o SubSeq(s, to + 1, Len(s))

(* A piece cut out of a text and another put in its place.                 *)
Cuttable(s, from, to) ==
  s \in Seq(TextChars) /\ from \in Nat /\ to \in Nat /\ 1 <= from /\ from <= to /\ to <= Len(s)

IsSplice(t, s, from, to, r) ==
  /\ t \in Seq(TextChars)
  /\ Len(t) = Len(s) + Len(r) - (to - from + 1)
  /\ HasInk(r) => HasInk(t)
  /\ \A j \in 1 .. from - 1 : t[j] = s[j]

(* and the text with a blob replaced.                                      *)
LEMMA Spliced ==
  ASSUME NEW s, NEW from, NEW to, Cuttable(s, from, to), NEW r \in Seq(TextChars)
  PROVE  IsSplice(Splice(s, from, to, r), s, from, to, r)
<1>0. /\ s \in Seq(TextChars) /\ from \in Nat /\ to \in Nat
      /\ 1 <= from /\ from <= to /\ to <= Len(s)
  BY DEF Cuttable
<1> DEFINE a == SubSeq(s, 1, from - 1)
           c == SubSeq(s, to + 1, Len(s))
<1>1. a \in Seq(TextChars) /\ Len(a) = from - 1 /\ \A j \in 1 .. from - 1 : a[j] = s[j]
  BY <1>0
<1>2. c \in Seq(TextChars) /\ Len(c) = Len(s) - to
  BY <1>0
<1> HIDE DEF a, c
<1> DEFINE d == a \o r
<1>3. Follows(d, a, r)
  BY <1>1, Concat
<1> HIDE DEF d
<1> DEFINE e == d \o c
<1>4. Follows(e, d, c)
  <2>1. d \in Seq(TextChars)
    BY <1>3 DEF Follows
  <2> QED
    BY <1>2, <2>1, Concat
<1> HIDE DEF e
<1>5. Splice(s, from, to, r) = e
  BY DEF Splice, a, c, d, e
<1>6. Len(s) \in Nat /\ Len(r) \in Nat
  BY <1>0
<1>7. HasInk(r) => HasInk(e)
  <2> SUFFICES ASSUME HasInk(r) PROVE HasInk(e)
    OBVIOUS
  <2>1. PICK j \in 1 .. Len(r) : r[j] \notin Blank
    BY DEF HasInk
  <2>2. Len(a) + j \in 1 .. Len(d) /\ Len(a) + j \in 1 .. Len(e)
    BY <1>1, <1>2, <1>3, <1>4, <1>6 DEF Follows
  <2>3. e[Len(a) + j] = r[j]
    BY <1>3, <1>4, <2>2 DEF Follows
  <2>4. DOMAIN e = 1 .. Len(e)
    BY <1>4 DEF Follows
  <2> QED
    BY <2>1, <2>2, <2>3, <2>4 DEF HasInk
<1>8. \A j \in 1 .. from - 1 : e[j] = s[j]
  <2>1. \A j \in 1 .. from - 1 : j \in 1 .. Len(a) /\ j \in 1 .. Len(d)
    BY <1>0, <1>1, <1>3, <1>6 DEF Follows
  <2> QED
    BY <1>1, <1>3, <1>4, <2>1 DEF Follows
<1> QED
  BY <1>0, <1>1, <1>2, <1>3, <1>4, <1>5, <1>6, <1>7, <1>8 DEF Follows, IsSplice

-----------------------------------------------------------------------------
(* What holds of the scanner when its blobs are cut out. *)
ScannerInv == ScannerTypeOK /\ BlobsInOrder /\ json \subseteq Candidates(text)

(* The invariant of the scanner holds of the scanner at work here.         *)
LEMMA ScannerAlwaysRight == TextSpec => []ScannerInv
<1>1. TextInit => json \subseteq Candidates(text)
  BY DEF TextInit, ScanInit
<1>2. json \subseteq Candidates(text) /\ [TextNext]_textVars => (json \subseteq Candidates(text))'
  <2>1. [TextNext]_textVars => UNCHANGED <<text, json>>
    <3>1. [Scan]_scanVars => UNCHANGED <<text, json>>
      BY DEF Scan, PassBy, Reject, Find, scanVars
    <3> QED
      BY <3>1, TextStepScans
  <2> QED
    BY <2>1
<1>3. TextSpec => []ScannerTypeOK /\ []BlobsInOrder
  BY MixedBlobsInOrder, PTL
<1> QED
  BY <1>1, <1>2, <1>3, PTL DEF TextSpec, ScannerInv

(* What the parser accepts is inside the text,                             *)
LEMMA JsonIsInText == ASSUME ScannerInv, NEW b \in json PROVE InText(b)
<1>1. b \in Candidates(text) /\ text \in Seq(Chars) /\ b \in Interval
  BY DEF ScannerInv, ScannerTypeOK
<1>2. /\ b.from \in 1 .. Len(text) /\ b.to \in 1 .. Len(text) /\ b.from < b.to
      /\ text[b.from] \in Opening
  BY <1>1 DEF Candidates
<1>3. b.from \in 1 .. b.to
  BY <1>2
<1> QED
  BY <1>1, <1>2, <1>3 DEF InText

(* and so are the blobs.                                                   *)
LEMMA BlobsAreInText == ASSUME ScannerInv, NEW k \in DOMAIN blobs PROVE InText(blobs[k])
BY JsonIsInText DEF ScannerInv, BlobsInOrder, IsBlob

(* Up to the end of the last blob that remains, the text has not changed.  *)
FrontUntouched ==
  phase = "mixed" /\ rest > 0 =>
    /\ blobs[rest].to <= Len(result)
    /\ \A j \in 1 .. blobs[rest].to : result[j] = text[j]

(* The invariant that the types rest on. *)
TextInv ==
  /\ TextTypeOK
  /\ phase # "done" => strategy = "none"
  /\ phase = "mixed" \/ strategy = "mixed" =>
       blobs # <<>> /\ DOMAIN spliced = DOMAIN blobs
  /\ FrontUntouched

(* The text is one of the original characters.                             *)
LEMMA TextTypes == ASSUME TextTypeOK PROVE text \in Seq(Chars) /\ text \in Seq(TextChars)
<1>1. Chars \subseteq TextChars
  BY DEF TextChars
<1> QED
  BY <1>1 DEF TextTypeOK, ScannerTypeOK

(* A path that ends here keeps the invariant,                              *)
LEMMA FinishInv ==
  ASSUME TextInv, NEW t \in Seq(TextChars), NEW s \in Strategies, Finish(t, s),
         s = "mixed" => phase = "mixed"
  PROVE  TextInv'
<1>1. /\ TextTypeOK'
      /\ phase' = "done"
  BY DEF TextInv, TextTypeOK, Finish, scanVars, ScannerTypeOK, TextChars
<1>2. strategy' = "mixed" => (blobs # <<>> /\ DOMAIN spliced = DOMAIN blobs)'
  BY DEF TextInv, Finish, scanVars
<1> QED
  BY <1>1, <1>2 DEF TextInv, FrontUntouched

(* so does the start of the replacements,                                  *)
LEMMA StartInv ==
  ASSUME ScannerInv, TextInv, StartMixed
  PROVE  TextInv'
<1>1. /\ phase' = "mixed" /\ result' = text /\ rest' = Len(blobs) /\ blobs # <<>>
      /\ spliced' = [k \in DOMAIN blobs |-> <<>>]
      /\ UNCHANGED <<text, json, pos, blobs, config, values, strategy>>
      /\ phase = "scan"
  BY DEF StartMixed, IsMixed, Scanned, scanVars
<1>2. blobs \in Seq(Interval) /\ Len(blobs) \in Nat /\ DOMAIN blobs = 1 .. Len(blobs)
  BY DEF ScannerInv, ScannerTypeOK
<1>3. spliced' \in Seq(Seq(TextChars)) /\ DOMAIN spliced' = DOMAIN blobs
  <2>1. <<>> \in Seq(TextChars)
    OBVIOUS
  <2> QED
    BY <1>1, <1>2, <2>1
<1>4. text \in Seq(TextChars)
  BY TextTypes DEF TextInv
<1>5. TextTypeOK'
  BY <1>1, <1>2, <1>3, <1>4 DEF TextInv, TextTypeOK, ScannerTypeOK, TextChars
<1>6. Len(blobs) \in DOMAIN blobs
  BY <1>1, <1>2
<1>7. blobs[Len(blobs)].to <= Len(text)
  <2>1. InText(blobs[Len(blobs)])
    BY <1>6, BlobsAreInText
  <2>2. Len(text) \in Nat
    BY <1>4
  <2> QED
    BY <2>1, <2>2 DEF InText
<1>8. FrontUntouched'
  BY <1>1, <1>7 DEF FrontUntouched
<1> QED
  BY <1>1, <1>3, <1>5, <1>8 DEF TextInv

(* A blob dealt with, with the blob and what it was replaced by named.     *)
LEMMA Replaced ==
  ASSUME ScannerInv, TextInv, ReplaceBlob
  PROVE  \E b, r :
           /\ rest \in DOMAIN blobs /\ b = blobs[rest] /\ InText(b) /\ r \in Seq(TextChars)
           /\ r # <<>> => HasInk(r)
           /\ ~config.toon => Len(r) <= b.to - b.from + 1
           /\ b.to <= Len(result)
           /\ result' = IF r = <<>> THEN result ELSE Splice(result, b.from, b.to, r)
           /\ spliced' = [spliced EXCEPT ![rest] = r]
           /\ phase = "mixed" /\ rest > 0 /\ rest' = rest - 1
           /\ UNCHANGED <<text, json, pos, blobs, config, values, phase, strategy>>
<1> DEFINE b == blobs[rest]
<1>1. /\ phase = "mixed" /\ rest > 0 /\ rest' = rest - 1
      /\ UNCHANGED <<text, json, pos, blobs, config, values, phase, strategy>>
  BY DEF ReplaceBlob, scanVars
<1>2. rest \in DOMAIN blobs
  BY <1>1 DEF TextInv, TextTypeOK, ScannerTypeOK
<1>3. PICK r \in Replacements(b) :
        /\ result' = SplicedIn(b, r)
        /\ spliced' = [spliced EXCEPT ![rest] = r]
  BY DEF ReplaceBlob, BlobNow
<1>4. InText(b)
  BY <1>2, BlobsAreInText
<1>5. ScannerTypeOK
  BY DEF ScannerInv
<1> HIDE DEF b
<1>6. /\ r \in Seq(TextChars)
      /\ r # <<>> => HasInk(r)
      /\ ~config.toon => Len(r) <= b.to - b.from + 1
  BY <1>4, <1>5, ReplacementType
<1>7. result' = IF r = <<>> THEN result ELSE Splice(result, b.from, b.to, r)
  BY <1>3 DEF SplicedIn, Splice
<1>8. b.to <= Len(result)
  BY <1>1 DEF TextInv, FrontUntouched, b
<1> QED
  BY <1>1, <1>2, <1>3, <1>4, <1>6, <1>7, <1>8 DEF b

(* and every one of them.                                                  *)
LEMMA ReplaceInv ==
  ASSUME ScannerInv, TextInv, ReplaceBlob
  PROVE  TextInv'
<1>1. PICK b, r :
        /\ rest \in DOMAIN blobs /\ b = blobs[rest] /\ InText(b) /\ r \in Seq(TextChars)
        /\ b.to <= Len(result)
        /\ result' = IF r = <<>> THEN result ELSE Splice(result, b.from, b.to, r)
        /\ spliced' = [spliced EXCEPT ![rest] = r]
        /\ phase = "mixed" /\ rest > 0 /\ rest' = rest - 1
        /\ UNCHANGED <<text, json, pos, blobs, config, values, phase, strategy>>
  BY Replaced
<1>2. /\ result \in Seq(TextChars) /\ spliced \in Seq(Seq(TextChars))
      /\ rest \in Nat /\ Len(blobs) \in Nat /\ rest <= Len(blobs)
      /\ blobs \in Seq(Interval) /\ text \in Seq(TextChars)
      /\ DOMAIN spliced = DOMAIN blobs /\ blobs # <<>>
  BY <1>1, TextTypes DEF TextInv, TextTypeOK, ScannerTypeOK, TextChars
<1>3. PICK f \in Nat, t \in Nat : f = b.from /\ t = b.to /\ 1 <= f /\ f <= t
  BY <1>1 DEF InText, Interval
<1>4. PICK old \in Seq(TextChars) : old = result
  BY <1>2
<1>5. /\ result' \in Seq(TextChars)
      /\ f - 1 <= Len(result')
      /\ \A j \in 1 .. f - 1 : result'[j] = result[j]
  <2>1. CASE r = <<>>
    <3>1. result' = old
      BY <1>1, <1>4, <2>1, Zenon
    <3>2. f - 1 <= Len(old)
      BY <1>1, <1>3, <1>4
    <3> QED
      BY <1>4, <2>1, <3>1, <3>2, SMTT(30)
  <2>2. CASE r # <<>>
    <3> DEFINE s == Splice(old, f, t, r)
    <3>1. IsSplice(s, old, f, t, r)
      <4>1. Cuttable(old, f, t) /\ r \in Seq(TextChars)
        BY <1>1, <1>3, <1>4 DEF Cuttable
      <4> QED
        BY <4>1, Spliced
    <3>2. result' = s
      BY <1>1, <1>3, <1>4, <2>2
    <3>3. Len(r) \in Nat /\ Len(old) \in Nat /\ t <= Len(old)
      BY <1>1, <1>3, <1>4
    <3> HIDE DEF s
    <3> QED
      BY <1>3, <1>4, <3>1, <3>2, <3>3, SMTT(30) DEF IsSplice
  <2> QED
    BY <2>1, <2>2
<1>6. spliced' \in Seq(Seq(TextChars)) /\ DOMAIN spliced' = DOMAIN blobs'
  <2>1. rest \in 1 .. Len(spliced)
    BY <1>1, <1>2
  <2>2. [spliced EXCEPT ![rest] = r] \in Seq(Seq(TextChars))
    BY <1>1, <1>2, <2>1
  <2> QED
    BY <1>1, <1>2, <2>2
<1>7. TextTypeOK'
  <2>1. rest' \in 0 .. Len(blobs')
    BY <1>1, <1>2, SMTT(30)
  <2>2. ScannerTypeOK'
    BY <1>1 DEF TextInv, TextTypeOK, ScannerTypeOK
  <2>3. config' \in Configs /\ DOMAIN values' = json' /\ phase' = "mixed" /\ strategy' \in Strategies
    BY <1>1 DEF TextInv, TextTypeOK
  <2> QED
    BY <1>5, <1>6, <2>1, <2>2, <2>3 DEF TextTypeOK, TextChars
<1>8. FrontUntouched'
  <2> SUFFICES ASSUME rest' > 0
               PROVE  /\ blobs'[rest'].to <= Len(result')
                      /\ \A j \in 1 .. blobs'[rest'].to : result'[j] = text'[j]
    BY DEF FrontUntouched
  <2>1. rest' \in DOMAIN blobs /\ rest' < rest
    BY <1>1, <1>2, SMTT(30)
  <2>2. PICK l \in Nat : l = blobs[rest'].to
    <3>1. blobs[rest'] \in Interval
      BY <1>2, <2>1
    <3> QED
      BY <3>1 DEF Interval
  <2>3. l < f
    BY <1>1, <1>3, <2>1, <2>2 DEF ScannerInv, BlobsInOrder
  <2>4. \A j \in 1 .. l : j \in 1 .. f - 1 /\ j \in 1 .. blobs[rest].to
    BY <1>1, <1>3, <2>3
  <2>5. \A j \in 1 .. blobs[rest].to : result[j] = text[j]
    BY <1>1 DEF TextInv, FrontUntouched
  <2>6. l <= Len(result')
    <3>1. Len(result') \in Nat
      BY <1>5
    <3> QED
      BY <1>3, <1>5, <2>3, <3>1
  <2> QED
    BY <1>1, <1>5, <2>2, <2>4, <2>5, <2>6
<1> QED
  BY <1>1, <1>2, <1>6, <1>7, <1>8 DEF TextInv

(* Every step keeps the invariant,                                         *)
LEMMA TextInvStep == ScannerInv /\ TextInv /\ [TextNext]_textVars => TextInv'
<1> SUFFICES ASSUME ScannerInv, TextInv, [TextNext]_textVars PROVE TextInv'
  OBVIOUS
<1>1. text \in Seq(Chars) /\ text \in Seq(TextChars)
  BY TextTypes DEF TextInv
<1>2. {"toon", "compact_json", "passthrough", "whitespace_strip", "passthrough:too_large"}
        \subseteq Strategies \ {"mixed"}
  BY DEF Strategies
<1>3. CASE TooLarge \/ KeepWhole \/ KeepPlain \/ KeepMixed
  <2>1. Finish(text, "passthrough:too_large") \/ Finish(text, "passthrough")
    BY <1>3 DEF TooLarge, KeepWhole, KeepPlain, KeepMixed
  <2> QED
    BY <1>1, <1>2, <2>1, FinishInv
<1>4. CASE EncodeWhole
  <2>1. PICK v : \E e \in Encoded(v) : Finish(e, "toon")
    BY <1>4 DEF EncodeWhole
  <2>2. PICK e \in Encoded(v) : Finish(e, "toon")
    BY <2>1
  <2>3. e \in Seq(TextChars)
    BY EncodedType
  <2> QED
    BY <1>2, <2>2, <2>3, FinishInv
<1>5. CASE CompactWhole
  <2>1. Finish(Compact(text), "compact_json")
    BY <1>5 DEF CompactWhole
  <2>2. Compact(text) \in Seq(Chars) /\ Chars \subseteq TextChars
    BY <1>1, Compacted DEF TextChars
  <2>3. PICK c \in Seq(TextChars) : c = Compact(text)
    BY <2>2
  <2> QED
    BY <1>2, <2>1, <2>3, FinishInv
<1>6. CASE StripPlain
  <2>1. PICK t \in Seq(TextChars) : t = StripExcessWhitespace(text)
    BY <1>1, Stripped
  <2>2. Finish(t, "whitespace_strip") \/ Finish(t, "passthrough")
    BY <1>6, <2>1 DEF StripPlain
  <2> QED
    BY <1>2, <2>2, FinishInv
<1>7. CASE FinishMixed
  <2>1. Finish(result, "mixed") /\ phase = "mixed" /\ result \in Seq(TextChars)
    BY <1>7 DEF FinishMixed, TextInv, TextTypeOK, TextChars
  <2>2. "mixed" \in Strategies
    BY DEF Strategies
  <2> QED
    BY <2>1, <2>2, FinishInv
<1>8. CASE StartScan
  BY <1>8 DEF StartScan, NotWhole, Classifying, scanVars, TextInv, TextTypeOK, FrontUntouched,
       ScannerTypeOK
<1>9. CASE ScanOn
  <2>1. ScannerTypeOK'
    BY <1>9, StepTypes DEF ScanOn, ScannerInv
  <2>2. /\ phase = "scan" /\ json' = json
        /\ UNCHANGED <<config, values, phase, result, rest, spliced, strategy>>
    BY <1>9 DEF ScanOn, Scan, PassBy, Reject, Find, outputVars
  <2>3. Len(blobs') \in Nat /\ Len(blobs) <= Len(blobs') /\ Len(blobs) \in Nat
    <3>1. blobs' = blobs \/ \E b : blobs' = Append(blobs, b)
      BY <1>9 DEF ScanOn, Scan, PassBy, Reject, Find
    <3> QED
      BY <2>1, <3>1 DEF ScannerInv, ScannerTypeOK
  <2>4. rest' \in 0 .. Len(blobs')
    BY <2>2, <2>3 DEF TextInv, TextTypeOK
  <2> QED
    BY <2>1, <2>2, <2>4 DEF TextInv, TextTypeOK, FrontUntouched
<1>10. CASE StartMixed
  BY <1>10, StartInv
<1>11. CASE ReplaceBlob
  BY <1>11, ReplaceInv
<1>12. CASE UNCHANGED textVars
  BY <1>12 DEF textVars, scanVars, outputVars, TextInv, TextTypeOK, FrontUntouched, ScannerTypeOK
<1> QED
  BY <1>3, <1>4, <1>5, <1>6, <1>7, <1>8, <1>9, <1>10, <1>11, <1>12 DEF TextNext

(* so it always holds.                                                     *)
LEMMA TextAlwaysInv == TextSpec => [](ScannerInv /\ TextInv)
<1>1. TextInit => TextInv
  <2> SUFFICES ASSUME TextInit PROVE TextInv
    OBVIOUS
  <2>1. ScannerTypeOK
    BY InitialTypes DEF TextInit
  <2> QED
    BY <2>1 DEF TextInit, ScanInit, TextInv, TextTypeOK, FrontUntouched, Strategies
<1> QED
  BY <1>1, ScannerAlwaysRight, TextInvStep, PTL DEF TextSpec

(* What optimizeText works on and returns is well typed: a text, the blobs *)
(* of it that remain, and a replacement for each.                          *)
THEOREM TextTypeCorrect == TextSpec => []TextTypeOK
BY TextAlwaysInv, PTL DEF TextInv

-----------------------------------------------------------------------------
(* optimizer.go:453, "in reverse order to preserve indices": whenever a    *)
(* blob is about to be cut out of the text as it is, the offsets found in  *)
(* the original text still delimit that blob, and those of all blobs that  *)
(* remain.                                                                 *)
OffsetsHold ==
  phase = "mixed" =>
    \A k \in 1 .. rest : SubSeq(result, blobs[k].from, blobs[k].to) = Raw(blobs[k])

(* The front being untouched, the offsets of the next blob are right.      *)
LEMMA FrontGivesOffsets == ScannerInv /\ TextInv => OffsetsHold
<1> SUFFICES ASSUME ScannerInv, TextInv, phase = "mixed", NEW k \in 1 .. rest
             PROVE  SubSeq(result, blobs[k].from, blobs[k].to) = Raw(blobs[k])
  BY DEF OffsetsHold
<1>1. /\ result \in Seq(TextChars) /\ rest \in Nat /\ rest > 0 /\ rest <= Len(blobs)
      /\ blobs[rest].to <= Len(result)
      /\ \A j \in 1 .. blobs[rest].to : result[j] = text[j]
  BY DEF TextInv, TextTypeOK, FrontUntouched, ScannerInv, ScannerTypeOK, TextChars
<1>2. /\ k \in DOMAIN blobs /\ rest \in DOMAIN blobs
      /\ blobs[k] \in Interval /\ blobs[rest] \in Interval
  BY <1>1 DEF ScannerInv, ScannerTypeOK
<1> DEFINE from == blobs[k].from
           to == blobs[k].to
<1>3. /\ from \in Nat /\ to \in Nat /\ 1 <= from /\ from <= to
      /\ to <= blobs[rest].to /\ blobs[rest].to \in Nat /\ blobs[rest].from <= blobs[rest].to
      /\ blobs[rest].to <= Len(text)
  <2>1. \A l \in DOMAIN blobs : blobs[l].from \in 1 .. blobs[l].to /\ blobs[l].to < pos
    BY DEF ScannerInv, BlobsInOrder
  <2>2. k = rest \/ blobs[k].to < blobs[rest].from
    BY <1>1, <1>2 DEF ScannerInv, BlobsInOrder
  <2>3. pos \in 1 .. Len(text) + 1 /\ Len(text) \in Nat
    BY DEF ScannerInv, ScannerTypeOK
  <2> QED
    BY <1>2, <2>1, <2>2, <2>3 DEF Interval
<1>4. text \in Seq(Chars)
  BY DEF ScannerInv, ScannerTypeOK
<1> HIDE DEF from, to
<1>5. \A j \in from .. to : result[j] = text[j]
  BY <1>1, <1>3
<1>6. SubSeq(result, from, to) = [j \in 1 .. to - from + 1 |-> result[from + j - 1]]
  BY <1>1, <1>3
<1>7. SubSeq(text, from, to) = [j \in 1 .. to - from + 1 |-> text[from + j - 1]]
  BY <1>3, <1>4, SMTT(30)
<1>8. \A j \in 1 .. to - from + 1 : result[from + j - 1] = text[from + j - 1]
  BY <1>3, <1>5
<1> QED
  BY <1>6, <1>7, <1>8 DEF Raw, from, to

(* For every text, every configuration and every length of replacement the *)
(* blobs are cut out where they are.                                       *)
THEOREM OffsetsAlwaysHold == TextSpec => []OffsetsHold
BY TextAlwaysInv, FrontGivesOffsets, PTL

-----------------------------------------------------------------------------
(* A text that is not JSON and has no JSON in it, when it is done. *)
PlainDone ==
  /\ phase = "done" /\ config.strip /\ blobs = <<>>
  /\ strategy \in {"whitespace_strip", "passthrough"}
  /\ \A b \in json : ~IsWhole(b)

PlainStripped ==
  PlainDone => /\ result = StripExcessWhitespace(text)
               /\ (strategy = "passthrough") = (result = text)

(* The type of the text, for the lemmas on stripping.                      *)
LEMMA TextIsTyped == ScannerTypeOK => text \in Seq(TextChars) /\ Len(text) \in Nat
<1>1. Chars \subseteq TextChars
  BY DEF TextChars
<1> QED
  BY <1>1 DEF ScannerTypeOK

(* The step that strips a text leaves exactly the stripped text.           *)
LEMMA StripPlainStrips ==
  ASSUME ScannerTypeOK, StripPlain
  PROVE  PlainStripped'
<1>1. PICK t \in Seq(TextChars) : t = StripExcessWhitespace(text)
  BY TextIsTyped, Stripped
<1>2. Len(t) <= Len(text) /\ (Len(t) = Len(text) => t = text)
  BY <1>1, TextIsTyped, Stripped
<1>3. Len(t) \in Nat /\ Len(text) \in Nat
  BY TextIsTyped
<1>4. result' = t /\ text' = text
      /\ strategy' = IF Len(t) < Len(text) THEN "whitespace_strip" ELSE "passthrough"
  BY <1>1 DEF StripPlain, Finish, scanVars
<1>5. strategy' = "passthrough" <=> t = text
  BY <1>2, <1>3, <1>4
<1>6. (strategy' = "passthrough") = (result' = text')
  BY <1>4, <1>5
<1>7. result' = StripExcessWhitespace(text)'
  BY <1>1, <1>4
<1> QED
  BY <1>6, <1>7 DEF PlainStripped

(* Every step keeps that,                                                  *)
LEMMA PlainStep == ScannerTypeOK /\ PlainStripped /\ [TextNext]_textVars => PlainStripped'
<1> SUFFICES ASSUME ScannerTypeOK, PlainStripped, [TextNext]_textVars PROVE PlainStripped'
  OBVIOUS
<1>1. CASE StripPlain
  BY <1>1, StripPlainStrips
<1>2. CASE EncodeWhole
  BY <1>2 DEF EncodeWhole, Finish, PlainStripped, PlainDone
<1>3. CASE TooLarge \/ KeepPlain
  BY <1>3 DEF TooLarge, KeepPlain, Finish, PlainStripped, PlainDone
<1>4. CASE CompactWhole \/ KeepWhole
  <2>1. PICK b \in json : IsWhole(b)
    BY <1>4 DEF CompactWhole, KeepWhole, NotEncoded
  <2>2. json' = json /\ text' = text
    BY <1>4 DEF CompactWhole, KeepWhole, Finish, scanVars
  <2>3. IsWhole(b)'
    BY <2>1, <2>2 DEF IsWhole
  <2> QED
    BY <2>1, <2>2, <2>3 DEF PlainStripped, PlainDone
<1>5. CASE KeepMixed
  <2>1. blobs' # <<>>
    BY <1>5 DEF KeepMixed, IsMixed, Finish, scanVars
  <2> QED
    BY <2>1 DEF PlainStripped, PlainDone
<1>6. CASE FinishMixed
  BY <1>6 DEF FinishMixed, Finish, PlainStripped, PlainDone
<1>7. CASE StartScan \/ StartMixed
  BY <1>7 DEF StartScan, StartMixed, PlainStripped, PlainDone
<1>8. CASE ScanOn \/ ReplaceBlob
  <2>1. phase' # "done"
    BY <1>8 DEF ScanOn, outputVars, ReplaceBlob
  <2> QED
    BY <2>1 DEF PlainStripped, PlainDone
<1>9. CASE UNCHANGED textVars
  BY <1>9 DEF textVars, scanVars, outputVars, PlainStripped, PlainDone, IsWhole
<1> QED
  BY <1>1, <1>2, <1>3, <1>4, <1>5, <1>6, <1>7, <1>8, <1>9 DEF TextNext

(* and a stripped text keeps what the property says.                       *)
LEMMA StrippedIsKept == ScannerTypeOK /\ PlainStripped => PlainTextKept
<1> SUFFICES ASSUME ScannerTypeOK, PlainStripped, PlainDone
             PROVE  /\ Written(result) = Written(text)
                    /\ \A k \in 1 .. Len(Lines(result)) - 1 :
                         Lines(result)[k] # <<>> \/ Lines(result)[k + 1] # <<>>
                    /\ StripExcessWhitespace(result) = result
                    /\ (strategy = "passthrough") = (result = text)
  BY DEF PlainTextKept, PlainDone
<1>1. result = StripExcessWhitespace(text) /\ (strategy = "passthrough") = (result = text)
  BY DEF PlainStripped
<1>2. text \in Seq(TextChars)
  BY TextIsTyped
<1>3. Written(result) = Written(text) /\ Clean(Lines(result)) /\ StripExcessWhitespace(result) = result
  BY <1>1, <1>2, StrippedKeeps
<1> QED
  BY <1>1, <1>3 DEF Clean

(* Every plain text keeps its lines, has no two blank ones in a row, would *)
(* not change again, and is called what it is.                             *)
THEOREM PlainTextAlwaysKept == TextSpec => []PlainTextKept
<1>1. TextInit => PlainStripped
  BY DEF TextInit, PlainStripped, PlainDone
<1>2. TextSpec => []ScannerTypeOK
  BY MixedBlobsInOrder, PTL
<1> QED
  BY <1>1, <1>2, PlainStep, StrippedIsKept, PTL DEF TextSpec

-----------------------------------------------------------------------------
(* What is not blank stays when lines are trimmed and dropped.             *)
LEMMA InkConcat ==
  ASSUME NEW a \in Seq(TextChars), NEW b \in Seq(TextChars)
  PROVE  HasInk(a \o b) <=> HasInk(a) \/ HasInk(b)
<1> DEFINE t == a \o b
<1>1. Follows(t, a, b)
  BY Concat
<1> HIDE DEF t
<1>2. /\ Len(a) \in Nat /\ Len(b) \in Nat
      /\ DOMAIN a = 1 .. Len(a) /\ DOMAIN b = 1 .. Len(b) /\ DOMAIN t = 1 .. Len(a) + Len(b)
  BY <1>1 DEF Follows
<1>3. ASSUME NEW j \in DOMAIN t, t[j] \notin Blank
      PROVE  HasInk(a) \/ HasInk(b)
  <2>1. CASE j \in 1 .. Len(a)
    BY <1>1, <1>2, <1>3, <2>1 DEF Follows, HasInk
  <2>2. CASE j \notin 1 .. Len(a)
    <3>1. j - Len(a) \in 1 .. Len(b) /\ Len(a) + (j - Len(a)) = j
      BY <1>2, <2>2
    <3>2. b[j - Len(a)] = t[j]
      BY <1>1, <3>1 DEF Follows
    <3> QED
      BY <1>2, <1>3, <3>1, <3>2 DEF HasInk
  <2> QED
    BY <2>1, <2>2
<1>4. ASSUME NEW j \in DOMAIN a, a[j] \notin Blank
      PROVE  HasInk(t)
  <2>1. j \in DOMAIN t /\ t[j] = a[j]
    BY <1>1, <1>2 DEF Follows
  <2> QED
    BY <1>4, <2>1 DEF HasInk
<1>5. ASSUME NEW j \in DOMAIN b, b[j] \notin Blank
      PROVE  HasInk(t)
  <2>1. Len(a) + j \in DOMAIN t /\ t[Len(a) + j] = b[j]
    BY <1>1, <1>2 DEF Follows
  <2> QED
    BY <1>5, <2>1 DEF HasInk
<1>6. HasInk(t) <=> HasInk(a) \/ HasInk(b)
  BY <1>3, <1>4, <1>5 DEF HasInk
<1> QED
  BY <1>6 DEF t

(* Trimming leaves the ink of a line,                                      *)
LEMMA InkTrimmed ==
  ASSUME NEW l \in Line, HasInk(l)
  PROVE  HasInk(TrimRight(l))
<1>1. PICK n \in 0 .. Len(l) :
        TrimRight(l) = SubSeq(l, 1, n) /\ \A k \in n + 1 .. Len(l) : l[k] = "space"
  BY TrimCuts DEF Line
<1>2. PICK j \in 1 .. Len(l) : l[j] \notin Blank
  BY DEF HasInk, Line
<1>3. j \in 1 .. n
  <2>1. l[j] # "space"
    BY <1>2 DEF Blank
  <2> QED
    BY <1>1, <1>2, <2>1
<1> DEFINE s == SubSeq(l, 1, n)
<1>4. DOMAIN s = 1 .. n /\ s[j] = l[j]
  BY <1>3 DEF Line
<1> HIDE DEF s
<1>5. HasInk(s)
  BY <1>2, <1>3, <1>4 DEF HasInk
<1> QED
  BY <1>1, <1>5 DEF s

(* joining that of a document,                                             *)
LEMMA InkJoined ==
  ASSUME NEW d \in Document, NEW l \in Line
  PROVE  HasInk(Join(Append(d, l))) <=> HasInk(Join(d)) \/ HasInk(l)
<1>1. PICK j \in Seq(TextChars) : j = Join(d)
  BY JoinGoesOn
<1>2. LineChars \subseteq TextChars /\ NL \in TextChars /\ NL \in Blank
  BY DEF LineChars, TextChars, NL, Chars, Blank
<1>3. l \in Seq(TextChars) /\ <<NL>> \in Seq(TextChars) /\ ~HasInk(<<NL>>)
  BY <1>2 DEF Line, HasInk
<1>4. j \o <<NL>> \in Seq(TextChars)
  BY <1>3
<1>5. HasInk((j \o <<NL>>) \o l) <=> HasInk(j) \/ HasInk(l)
  BY <1>3, <1>4, InkConcat
<1>6. Join(Append(d, l)) = (j \o <<NL>>) \o l
  BY <1>1, JoinGoesOn
<1> QED
  BY <1>1, <1>5, <1>6

KeepsInk(k, d) == k # <<>> /\ (HasInk(Join(d)) => HasInk(Join(k)))

(* dropping blank lines as well,                                           *)
LEMMA KeptKeepsInk == ASSUME NEW ls \in Document PROVE KeepsInk(Kept(ls), ls)
<1> DEFINE T == {d \in LineSeq : d # <<>> => KeepsInk(Kept(d), d)}
<1>1. <<>> \in T
  BY FoldTypes
<1>2. ASSUME NEW d \in Seq(Line), NEW l \in Line, d \in T
      PROVE  Append(d, l) \in T
  <2>1. d \in LineSeq /\ Append(d, l) \in LineSeq
    BY DEF LineSeq
  <2>2. Kept(Append(d, l)) = Keep(Kept(d), l)
    BY <2>1, KeptGoesOn
  <2>3. PICK m \in Line : m = TrimRight(l) /\ (HasInk(l) => HasInk(m))
    BY TrimType, InkTrimmed
  <2>4. CASE d = <<>>
    <3>1. Append(d, l) = <<l>> /\ Kept(d) = <<>> /\ Keep(<<>>, l) = <<m>>
      BY <2>3, <2>4, KeptGoesOn DEF Keep, KeepLine
    <3>2. Join(<<l>>) = l /\ Join(<<m>>) = m
      BY JoinGoesOn
    <3>3. KeepsInk(<<m>>, <<l>>)
      BY <2>3, <3>2 DEF KeepsInk
    <3> QED
      BY <2>1, <2>2, <3>1, <3>3
  <2>5. CASE d # <<>>
    <3>1. PICK k \in LineSeq : k = Kept(d)
      BY <2>1, KeptGoesOn
    <3>2. KeepsInk(k, d)
      BY <1>2, <2>5, <3>1
    <3>3. k \in Document /\ d \in Document
      BY <2>1, <2>5, <3>2 DEF Document, KeepsInk
    <3>4. /\ HasInk(Join(Append(d, l))) <=> HasInk(Join(d)) \/ HasInk(l)
          /\ HasInk(Join(Append(k, m))) <=> HasInk(Join(k)) \/ HasInk(m)
      BY <3>3, InkJoined
    <3>5. CASE KeepLine(k, m)
      <4>1. Keep(k, l) = Append(k, m) /\ Append(k, m) # <<>>
        BY <2>3, <3>5 DEF Keep, LineSeq
      <4>2. KeepsInk(Append(k, m), Append(d, l))
        BY <2>3, <3>2, <3>4, <4>1 DEF KeepsInk
      <4> QED
        BY <2>1, <2>2, <3>1, <4>1, <4>2
    <3>6. CASE ~KeepLine(k, m)
      <4>1. Keep(k, l) = k /\ m = <<>>
        BY <2>3, <3>6 DEF Keep, KeepLine
      <4>2. ~HasInk(l)
        BY <2>3, <4>1 DEF HasInk
      <4>3. KeepsInk(k, Append(d, l))
        BY <3>2, <3>4, <4>2 DEF KeepsInk
      <4> QED
        BY <2>1, <2>2, <3>1, <4>1, <4>3
    <3> QED
      BY <3>5, <3>6
  <2> QED
    BY <2>4, <2>5
<1> HIDE DEF T
<1>3. Seq(Line) \subseteq T
  BY <1>1, <1>2, SequenceInduction
<1>4. ls \in T
  BY <1>3 DEF Document, LineSeq
<1> QED
  BY <1>4 DEF T, Document

(* and so does stripping.                                                  *)
LEMMA StrippedKeepsInk ==
  ASSUME NEW t \in Seq(TextChars), HasInk(t)
  PROVE  HasInk(StripExcessWhitespace(t))
<1>1. PICK d \in Document : d = Lines(t)
  BY LinesGoOn
<1>2. Join(d) = t
  BY <1>1, JoinOfLines
<1>3. StripExcessWhitespace(t) = Join(Kept(d))
  BY <1>1 DEF StripExcessWhitespace, Kept
<1> QED
  BY <1>2, <1>3, KeptKeepsInk DEF KeepsInk

(* An object without fields is not a table, unless every value is one.     *)
LEMMA EmptyNotEligible ==
  ASSUME NEW b, Eligible(b), config \in Configs, config.threshold.n >= 0
  PROVE  values[b] # EmptyObject
<1> SUFFICES ASSUME values[b] = EmptyObject PROVE FALSE
  OBVIOUS
<1>1. TabularEligibility(b) = Zero
  BY DEF TabularEligibility, AnalyzeValue, AnalyzeObject, EmptyObject, Object
<1>2. config.threshold.n \in Int /\ config.threshold.d \in Nat \ {0}
  BY TextAssumption
<1>3. UniformityThreshold(config).n \in Nat \ {0} /\ UniformityThreshold(config).d \in Nat \ {0}
  BY <1>2 DEF UniformityThreshold, Ratio
<1> QED
  BY <1>1, <1>3 DEF Eligible, AtLeast, Zero, Ratio

-----------------------------------------------------------------------------
(* A text that is not blank is not while its blobs are replaced, either.   *)
Inked ==
  /\ phase = "mixed" /\ HasInk(text) => HasInk(result)
  /\ NeverErased

(* Every step keeps the ink of a text.                                     *)
LEMMA InkedStep == ScannerInv /\ TextInv /\ Inked /\ [TextNext]_textVars => Inked'
<1> SUFFICES ASSUME ScannerInv, TextInv, Inked, [TextNext]_textVars PROVE Inked'
  OBVIOUS
<1>1. text \in Seq(Chars) /\ text \in Seq(TextChars) /\ config \in Configs
  BY TextTypes DEF TextInv, TextTypeOK
<1>2. \A t, s : Finish(t, s) => /\ phase' = "done" /\ result' = t
                                /\ UNCHANGED <<text, config>>
  BY DEF Finish, scanVars
<1>3. CASE TooLarge \/ KeepWhole \/ KeepPlain \/ KeepMixed
  <2>1. \E s : Finish(text, s)
    BY <1>3 DEF TooLarge, KeepWhole, KeepPlain, KeepMixed
  <2> QED
    BY <1>2, <2>1 DEF Inked, NeverErased
<1>4. CASE EncodeWhole
  <2>1. PICK b \in json : Eligible(b) /\ \E e \in Encoded(values[b]) : Finish(e, "toon")
    BY <1>4 DEF EncodeWhole
  <2>2. PICK e \in Encoded(values[b]) : Finish(e, "toon")
    BY <2>1
  <2>3. config.threshold.n >= 0 => HasInk(e)
    BY <1>1, <2>1, EncodedType, EmptyNotEligible
  <2> QED
    BY <1>2, <2>2, <2>3 DEF Inked, NeverErased
<1>5. CASE CompactWhole
  BY <1>1, <1>2, <1>5, Compacted DEF CompactWhole, Inked, NeverErased
<1>6. CASE StripPlain
  <2>1. PICK s : Finish(StripExcessWhitespace(text), s)
    BY <1>6 DEF StripPlain
  <2> QED
    BY <1>1, <1>2, <2>1, StrippedKeepsInk DEF Inked, NeverErased
<1>7. CASE FinishMixed
  BY <1>2, <1>7 DEF FinishMixed, Inked, NeverErased
<1>8. CASE StartScan \/ ScanOn
  BY <1>8 DEF StartScan, ScanOn, NotWhole, Classifying, outputVars, scanVars, Inked, NeverErased
<1>9. CASE StartMixed
  BY <1>9 DEF StartMixed, scanVars, Inked, NeverErased
<1>10. CASE ReplaceBlob
  <2>1. PICK b, r :
          /\ InText(b) /\ r \in Seq(TextChars)
          /\ r # <<>> => HasInk(r)
          /\ b.to <= Len(result)
          /\ result' = IF r = <<>> THEN result ELSE Splice(result, b.from, b.to, r)
          /\ phase = "mixed" /\ UNCHANGED <<text, phase>>
    BY <1>10, Replaced
  <2>2. PICK f \in Nat, t \in Nat : f = b.from /\ t = b.to /\ 1 <= f /\ f <= t
    BY <2>1 DEF InText, Interval
  <2>3. PICK old \in Seq(TextChars) : old = result
    BY DEF TextInv, TextTypeOK, TextChars
  <2>4. Cuttable(old, f, t)
    BY <2>1, <2>2, <2>3 DEF Cuttable
  <2>5. IsSplice(Splice(old, f, t, r), old, f, t, r)
    BY <2>1, <2>4, Spliced
  <2>6. HasInk(result) => HasInk(result')
    BY <2>1, <2>2, <2>3, <2>5 DEF IsSplice
  <2> QED
    BY <2>1, <2>6 DEF Inked, NeverErased, HasInk
<1>11. CASE UNCHANGED textVars
  BY <1>11 DEF textVars, scanVars, outputVars, Inked, NeverErased, HasInk
<1> QED
  BY <1>3, <1>4, <1>5, <1>6, <1>7, <1>8, <1>9, <1>10, <1>11 DEF TextNext

(* No text that is not blank is ever erased, whichever way it goes.        *)
THEOREM TextNeverErased == TextSpec => []NeverErased
<1>1. TextInit => Inked
  BY DEF TextInit, Inked, NeverErased
<1> QED
  BY <1>1, TextAlwaysInv, InkedStep, PTL DEF TextSpec, Inked

-----------------------------------------------------------------------------
(* Nothing but an encoding makes a text longer.                            *)
Bounded ==
  /\ phase = "mixed" /\ ~config.toon => Len(result) <= Len(text)
  /\ phase = "mixed" => strategy = "none"
  /\ GrowsOnlyWhereUnchecked

(* A percentage of a length that has to be saved is not below 0.           *)
LEMMA SavingsBound ==
  ASSUME TextTypeOK, NEW e \in Seq(TextChars), MeetsSavings(e), config.minSavings > 0
  PROVE  Len(e) <= Len(text)
<1>1. PICK n \in Nat, m \in Nat : n = Len(text) /\ m = Len(e)
  BY TextTypes
<1>2. PICK c \in Nat : c = config.minSavings /\ c > 0
  BY TextAssumption DEF TextTypeOK
<1>3. (n - m) * 100 >= c * n
  BY <1>1, <1>2 DEF MeetsSavings
<1>4. c * n >= 0
  BY <1>2, <1>1
<1>5. m <= n
  BY <1>1, <1>3, <1>4
<1> QED
  BY <1>1, <1>5

(* Every step keeps the bound on the length.                               *)
LEMMA BoundedStep == ScannerInv /\ TextInv /\ Bounded /\ [TextNext]_textVars => Bounded'
<1> SUFFICES ASSUME ScannerInv, TextInv, Bounded, [TextNext]_textVars PROVE Bounded'
  OBVIOUS
<1>1. text \in Seq(Chars) /\ text \in Seq(TextChars) /\ Len(text) \in Nat
  BY TextTypes DEF TextInv
<1>2. \A t, s : Finish(t, s) => /\ phase' = "done" /\ result' = t /\ strategy' = s
                                /\ UNCHANGED <<text, config>>
  BY DEF Finish, scanVars
<1>3. ASSUME NEW t \in Seq(TextChars), NEW s, Finish(t, s), Len(t) <= Len(text)
      PROVE  Bounded'
  <2>1. Len(t) \in Nat
    OBVIOUS
  <2> QED
    BY <1>1, <1>2, <1>3, <2>1 DEF Bounded, GrowsOnlyWhereUnchecked
<1>4. CASE TooLarge \/ KeepWhole \/ KeepPlain \/ KeepMixed
  <2>1. \E s : Finish(text, s)
    BY <1>4 DEF TooLarge, KeepWhole, KeepPlain, KeepMixed
  <2> QED
    BY <1>1, <1>3, <2>1
<1>5. CASE EncodeWhole
  <2>1. PICK v : \E e \in Encoded(v) : MeetsSavings(e) /\ Finish(e, "toon")
    BY <1>5 DEF EncodeWhole
  <2>2. PICK e \in Encoded(v) : MeetsSavings(e) /\ Finish(e, "toon")
    BY <2>1
  <2>3. e \in Seq(TextChars)
    BY EncodedType
  <2>4. config.minSavings \in Int
    BY TextAssumption DEF TextInv, TextTypeOK
  <2>5. CASE config.minSavings > 0
    BY <1>3, <2>2, <2>3, <2>5, SavingsBound DEF TextInv
  <2>6. CASE config.minSavings <= 0
    BY <1>2, <2>2, <2>6 DEF Bounded, GrowsOnlyWhereUnchecked
  <2> QED
    BY <2>4, <2>5, <2>6
<1>6. CASE CompactWhole
  <2>1. Finish(Compact(text), "compact_json")
    BY <1>6 DEF CompactWhole
  <2>2. Compact(text) \in Seq(Chars) /\ Len(Compact(text)) <= Len(text)
    BY <1>1, Compacted
  <2>3. Chars \subseteq TextChars
    BY DEF TextChars
  <2>4. PICK c \in Seq(TextChars) : c = Compact(text)
    BY <2>2, <2>3
  <2> QED
    BY <1>3, <2>1, <2>2, <2>4
<1>7. CASE StripPlain
  <2>1. PICK s : Finish(StripExcessWhitespace(text), s)
    BY <1>7 DEF StripPlain
  <2>2. PICK t \in Seq(TextChars) : t = StripExcessWhitespace(text) /\ Len(t) <= Len(text)
    BY <1>1, Stripped
  <2> QED
    BY <1>3, <2>1, <2>2
<1>8. CASE FinishMixed
  <2>1. Finish(result, "mixed") /\ phase = "mixed"
    BY <1>8 DEF FinishMixed
  <2>2. CASE config.toon
    BY <1>2, <2>1, <2>2 DEF Bounded, GrowsOnlyWhereUnchecked
  <2>3. CASE ~config.toon
    <3>1. result \in Seq(TextChars) /\ Len(result) <= Len(text)
      BY <2>1, <2>3 DEF Bounded, TextInv, TextTypeOK, TextChars
    <3> QED
      BY <1>3, <2>1, <3>1
  <2> QED
    BY <2>2, <2>3
<1>9. CASE StartScan \/ ScanOn
  BY <1>9 DEF StartScan, ScanOn, NotWhole, Classifying, outputVars, scanVars, Bounded,
       GrowsOnlyWhereUnchecked
<1>10. CASE StartMixed
  BY <1>1, <1>10 DEF StartMixed, IsMixed, Scanned, scanVars, TextInv, Bounded,
       GrowsOnlyWhereUnchecked
<1>11. CASE ReplaceBlob
  <2>1. PICK b, r :
          /\ InText(b) /\ r \in Seq(TextChars)
          /\ ~config.toon => Len(r) <= b.to - b.from + 1
          /\ b.to <= Len(result)
          /\ result' = IF r = <<>> THEN result ELSE Splice(result, b.from, b.to, r)
          /\ phase = "mixed" /\ UNCHANGED <<text, config, phase, strategy>>
    BY <1>11, Replaced
  <2>2. PICK f \in Nat, t \in Nat : f = b.from /\ t = b.to /\ 1 <= f /\ f <= t
    BY <2>1 DEF InText, Interval
  <2>3. PICK old \in Seq(TextChars) : old = result
    BY DEF TextInv, TextTypeOK, TextChars
  <2>4. Cuttable(old, f, t)
    BY <2>1, <2>2, <2>3 DEF Cuttable
  <2>5. IsSplice(Splice(old, f, t, r), old, f, t, r)
    BY <2>1, <2>4, Spliced
  <2>6. PICK n \in Nat, m \in Nat : n = Len(old) /\ m = Len(r)
    BY <2>1
  <2>7. ~config.toon => Len(result') <= Len(result)
    <3>1. CASE r = <<>>
      BY <2>1, <2>3, <2>6, <3>1
    <3>2. CASE r # <<>>
      <4>1. Len(result') = n + m - (t - f + 1)
        BY <2>1, <2>2, <2>3, <2>5, <2>6, <3>2 DEF IsSplice
      <4>2. ~config.toon => m <= t - f + 1
        BY <2>1, <2>2, <2>6
      <4> QED
        BY <2>2, <2>3, <2>6, <4>1, <4>2
    <3> QED
      BY <3>1, <3>2
  <2>8. Len(result') \in Nat /\ Len(result) \in Nat
    BY TextInvStep DEF TextInv, TextTypeOK
  <2> QED
    BY <1>1, <2>1, <2>7, <2>8 DEF Bounded, GrowsOnlyWhereUnchecked
<1>12. CASE UNCHANGED textVars
  BY <1>12 DEF textVars, scanVars, outputVars, Bounded, GrowsOnlyWhereUnchecked
<1> QED
  BY <1>4, <1>5, <1>6, <1>7, <1>8, <1>9, <1>10, <1>11, <1>12 DEF TextNext

(* For every configuration a text gets longer only where nothing asks what *)
(* was saved.                                                              *)
THEOREM GrowthIsUnchecked == TextSpec => []GrowsOnlyWhereUnchecked
<1>1. TextInit => Bounded
  BY DEF TextInit, Bounded, GrowsOnlyWhereUnchecked
<1> QED
  BY <1>1, TextAlwaysInv, BoundedStep, PTL DEF TextSpec, Bounded

-----------------------------------------------------------------------------
(* Texts put together: pieces of one text in a row are a piece of it, and  *)
(* a piece cut out of the front leaves what comes behind.                  *)
LEMMA ConcatAgain ==
  ASSUME NEW a \in Seq(TextChars), NEW b \in Seq(TextChars), NEW c \in Seq(TextChars)
  PROVE  (a \o b) \o c = a \o (b \o c)
OBVIOUS

Meet(t, a, b, c) ==
  /\ t \in Seq(TextChars) /\ a \in Nat /\ b \in Nat /\ c \in Nat
  /\ 1 <= a /\ a <= b + 1 /\ b <= c /\ c <= Len(t)

(* Two pieces that meet are one.                                           *)
LEMMA SubSeqsJoin ==
  ASSUME NEW t, NEW a, NEW b, NEW c, Meet(t, a, b, c)
  PROVE  SubSeq(t, a, b) \o SubSeq(t, b + 1, c) = SubSeq(t, a, c)
BY DEF Meet

(* A piece of a text is a text.                                            *)
LEMMA SubSeqType ==
  ASSUME NEW t \in Seq(TextChars), NEW a \in Nat, NEW b \in Nat, 1 <= a, b <= Len(t)
  PROVE  SubSeq(t, a, b) \in Seq(TextChars)
OBVIOUS

InFront(t, from, to, r, w) ==
  /\ t \in Seq(TextChars) /\ r \in Seq(TextChars) /\ w \in Seq(TextChars)
  /\ from \in Nat /\ to \in Nat
  /\ 1 <= from /\ from <= to /\ to <= Len(t)

CutOut(t, from, to, r, w) ==
  Splice(SubSeq(t, 1, to) \o w, from, to, r) = SubSeq(t, 1, from - 1) \o r \o w

(* Splicing at the end of a front leaves what is before and behind.        *)
LEMMA SpliceFront ==
  ASSUME NEW t, NEW from, NEW to, NEW r, NEW w, InFront(t, from, to, r, w)
  PROVE  CutOut(t, from, to, r, w)
<1> DEFINE a == SubSeq(t, 1, to)
           u == a \o w
<1>0. /\ t \in Seq(TextChars) /\ r \in Seq(TextChars) /\ w \in Seq(TextChars)
      /\ from \in Nat /\ to \in Nat
      /\ 1 <= from /\ from <= to /\ to <= Len(t)
  BY DEF InFront
<1>1. a \in Seq(TextChars) /\ Len(a) = to /\ u \in Seq(TextChars) /\ Len(u) = to + Len(w)
  BY <1>0
<1>2. SubSeq(u, to + 1, Len(u)) = w
  BY <1>0, <1>1
<1>3. SubSeq(u, 1, from - 1) = SubSeq(t, 1, from - 1)
  BY <1>0, <1>1
<1> QED
  BY <1>2, <1>3 DEF Splice, CutOut

(* FlattenSeq, from piece to piece of a text.                              *)
Flattens(g, s) == FlattensIn(g, s, TextChars)

(* Two flattenings of pieces that agree behind one end the same way.       *)
SameBehind(p, q, g, h, m) ==
  /\ p \in Seq(Seq(TextChars)) /\ q \in Seq(Seq(TextChars)) /\ Len(p) = Len(q)
  /\ Flattens(g, p) /\ Flattens(h, q)
  /\ m \in 1 .. Len(p)
  /\ \A k \in m + 1 .. Len(p) : q[k] = p[k]

EndTheSame(p, q, g, h, m) ==
  \E z \in Seq(TextChars) :
    /\ g[m] \in Seq(TextChars) /\ h[m] \in Seq(TextChars)
    /\ g[Len(p)] = g[m] \o z /\ h[Len(q)] = h[m] \o z

(* Behind a common end, two flattenings go on with the same text.          *)
LEMMA FlattenBehind ==
  ASSUME NEW p, NEW q, NEW g, NEW h, NEW m, SameBehind(p, q, g, h, m)
  PROVE  EndTheSame(p, q, g, h, m)
<1>0. /\ p \in Seq(Seq(TextChars)) /\ q \in Seq(Seq(TextChars)) /\ Len(p) = Len(q)
      /\ Flattens(g, p) /\ Flattens(h, q)
      /\ m \in 1 .. Len(p)
      /\ \A k \in m + 1 .. Len(p) : q[k] = p[k]
  BY DEF SameBehind
<1> USE <1>0
<1> DEFINE n == Len(p)
           V == Seq(TextChars)
           Ends(k) == \E z \in V : g[k] = g[m] \o z /\ h[k] = h[m] \o z
           T == {i \in Nat : m + i <= n => Ends(m + i)}
<1>1. n \in Nat /\ m \in Nat /\ m <= n /\ 1 <= m /\ m \in 1 .. n
  OBVIOUS
<1>2. g \in [1 .. n -> V] /\ h \in [1 .. n -> V]
  BY DEF Flattens, FlattensIn
<1>7. \A k \in 1 .. n : p[k] \in V
  OBVIOUS
<1>8. /\ \A a, b \in V : a \o b \in V
      /\ \A a, b, c \in V : (a \o b) \o c = a \o (b \o c)
      /\ <<>> \in V /\ \A a \in V : a \o <<>> = a
  <2>1. \A a, b \in V : a \o b \in V
    OBVIOUS
  <2>2. \A a, b, c \in V : (a \o b) \o c = a \o (b \o c)
    BY ConcatAgain
  <2>3. <<>> \in V /\ \A a \in V : a \o <<>> = a
    OBVIOUS
  <2> QED
    BY <2>1, <2>2, <2>3
<1>9. /\ \A k \in 2 .. n : g[k] = g[k - 1] \o p[k] /\ h[k] = h[k - 1] \o q[k]
      /\ \A k \in m + 1 .. n : q[k] = p[k]
  BY DEF Flattens, FlattensIn
<1> HIDE DEF V, n
<1>10. g[m] \in V /\ h[m] \in V
  BY <1>1, <1>2
<1>3. 0 \in T
  <2>1. g[m] \o <<>> = g[m] /\ h[m] \o <<>> = h[m] /\ <<>> \in V
    BY <1>8, <1>10
  <2>2. m + 0 = m
    BY <1>1
  <2> QED
    BY <2>1, <2>2
<1>4. ASSUME NEW i \in Nat, i \in T
      PROVE  i + 1 \in T
  <2>1. ASSUME m + (i + 1) <= n
        PROVE  Ends(m + (i + 1))
    <3>1. PICK k \in Nat : k = m + (i + 1) /\ k - 1 = m + i /\ k \in 2 .. n /\ k \in m + 1 .. n
      BY <1>1, <2>1
    <3>2. Ends(k - 1)
      <4>1. m + i <= n /\ k - 1 = m + i
        BY <1>1, <2>1, <3>1
      <4>2. Ends(m + i)
        BY <1>4, <4>1
      <4> QED
        BY <4>1, <4>2
    <3>3. PICK z \in V : g[k - 1] = g[m] \o z /\ h[k - 1] = h[m] \o z
      BY <3>2
    <3>4. g[k] = g[k - 1] \o p[k] /\ h[k] = h[k - 1] \o p[k]
      BY <1>9, <3>1
    <3>5. p[k] \in V
      BY <1>1, <1>7, <3>1
    <3>6. /\ z \o p[k] \in V
          /\ g[k] = g[m] \o (z \o p[k]) /\ h[k] = h[m] \o (z \o p[k])
      <4>1. g[k] = (g[m] \o z) \o p[k] /\ h[k] = (h[m] \o z) \o p[k]
        BY <3>1, <3>3, <3>4
      <4>2. z \o p[k] \in V
        BY <1>8, <3>5, ZenonT(30)
      <4>3. PICK a \in V, b \in V, d \in V : a = g[m] /\ b = h[m] /\ d = p[k]
        BY <1>10, <3>5
      <4>4. (a \o z) \o d = a \o (z \o d) /\ (b \o z) \o d = b \o (z \o d)
        BY <1>8, ZenonT(60)
      <4> QED
        BY <4>1, <4>2, <4>3, <4>4, Zenon
    <3> QED
      BY <3>1, <3>6
  <2> HIDE DEF Ends
  <2> QED
    BY <2>1
<1> HIDE DEF T
<1>5. Nat \subseteq T
  BY <1>3, <1>4, NaturalInduction
<1>6. Ends(n)
  <2>1. n - m \in Nat /\ m + (n - m) = n
    BY <1>1
  <2>2. n - m \in T
    BY <1>5, <2>1
  <2> HIDE DEF Ends
  <2>3. Ends(m + (n - m))
    BY <1>1, <2>1, <2>2 DEF T
  <2> QED
    BY <2>1, <2>3
<1> QED
  BY <1>10, <1>6 DEF n, V, EndTheSame

(* The pieces optimizeMixed makes of a text: what is in front of a blob,   *)
(* and the blob or its replacement.                                        *)
Pieces ==
  [k \in DOMAIN blobs |-> SubSeq(text, Before(k), blobs[k].from - 1) \o Piece(k)]

Ending == SubSeq(text, Last(blobs).to + 1, Len(text))

(* Where the blobs are.                                                    *)
BlobPlaces ==
  /\ Len(blobs) \in Nat /\ DOMAIN blobs = 1 .. Len(blobs)
  /\ \A k \in 1 .. Len(blobs) :
       /\ blobs[k].from \in Nat /\ blobs[k].to \in Nat
       /\ Before(k) \in Nat /\ 1 <= Before(k) /\ Before(k) <= blobs[k].from
       /\ blobs[k].from <= blobs[k].to /\ blobs[k].to <= Len(text)
  /\ \A k \in 2 .. Len(blobs) : Before(k) = blobs[k - 1].to + 1
  /\ Before(1) = 1

(* The blobs found are at such places.                                     *)
LEMMA Places == ASSUME ScannerInv PROVE BlobPlaces
<1>1. /\ blobs \in Seq(Interval) /\ Len(blobs) \in Nat /\ DOMAIN blobs = 1 .. Len(blobs)
      /\ Len(text) \in Nat
  BY DEF ScannerInv, ScannerTypeOK
<1>2. ASSUME NEW k \in 1 .. Len(blobs)
      PROVE  /\ blobs[k].from \in Nat /\ blobs[k].to \in Nat
             /\ Before(k) \in Nat /\ 1 <= Before(k) /\ Before(k) <= blobs[k].from
             /\ blobs[k].from <= blobs[k].to /\ blobs[k].to <= Len(text)
  <2>1. \A l \in 1 .. Len(blobs) : InText(blobs[l])
    BY <1>1, BlobsAreInText
  <2>2. \A l \in 1 .. Len(blobs) :
          /\ blobs[l].from \in Nat /\ blobs[l].to \in Nat
          /\ 1 <= blobs[l].from /\ blobs[l].from <= blobs[l].to /\ blobs[l].to <= Len(text)
    BY <1>1, <2>1 DEF InText, Interval
  <2>3. CASE k = 1
    BY <2>2, <2>3 DEF Before
  <2>4. CASE k # 1
    <3>1. k - 1 \in 1 .. Len(blobs) /\ k - 1 < k
      BY <1>1, <2>4
    <3>2. blobs[k - 1].to < blobs[k].from
      BY <1>1, <3>1 DEF ScannerInv, BlobsInOrder
    <3> QED
      BY <2>2, <2>4, <3>1, <3>2 DEF Before
  <2> QED
    BY <2>3, <2>4
<1>3. Before(1) = 1 /\ \A k \in 2 .. Len(blobs) : Before(k) = blobs[k - 1].to + 1
  BY DEF Before
<1> QED
  BY <1>1, <1>2, <1>3 DEF BlobPlaces

(* As long as every blob is as it was, the pieces make up the text.        *)
LEMMA FrontFlattens ==
  ASSUME BlobPlaces, text \in Seq(TextChars),
         NEW p \in Seq(Seq(TextChars)), Len(p) = Len(blobs), NEW g, Flattens(g, p),
         NEW m \in 0 .. Len(blobs),
         \A k \in 1 .. m : p[k] = SubSeq(text, Before(k), blobs[k].from - 1) \o Raw(blobs[k])
  PROVE  \A k \in 1 .. m : g[k] = SubSeq(text, 1, blobs[k].to)
<1> DEFINE T == {i \in Nat : i + 1 <= m => g[i + 1] = SubSeq(text, 1, blobs[i + 1].to)}
<1>1. m \in Nat /\ \A k \in 1 .. m : k \in 1 .. Len(blobs)
  BY DEF BlobPlaces
<1>2. ASSUME NEW k \in 1 .. m
      PROVE  p[k] = SubSeq(text, Before(k), blobs[k].to)
  <2>1. PICK a \in Nat, f \in Nat, t \in Nat :
          /\ a = Before(k) /\ f = blobs[k].from /\ t = blobs[k].to
          /\ 1 <= a /\ a <= f /\ f <= t /\ t <= Len(text)
    BY <1>1 DEF BlobPlaces
  <2>2. f - 1 \in Nat /\ (f - 1) + 1 = f
    BY <2>1, SMTT(30)
  <2>3. PICK b \in Nat : b = f - 1 /\ b + 1 = f
    BY <2>2
  <2>4. Meet(text, a, b, t)
    <3>1. a <= b + 1 /\ b <= t
      <4>1. a <= f /\ f <= t /\ b + 1 = f
        BY <2>1, <2>3
      <4> HIDE <2>1, <2>3
      <4> QED
        BY <4>1
    <3> QED
      BY <2>1, <3>1 DEF Meet
  <2>5. SubSeq(text, a, b) \o SubSeq(text, b + 1, t) = SubSeq(text, a, t)
    BY <2>4, SubSeqsJoin
  <2> QED
    BY <2>1, <2>3, <2>5 DEF Raw
<1>3. 0 \in T
  <2>1. ASSUME 1 <= m
        PROVE  g[1] = SubSeq(text, 1, blobs[1].to)
    <3>1. 1 \in 1 .. m
      BY <1>1, <2>1
    <3> QED
      BY <1>2, <3>1 DEF Flattens, FlattensIn, BlobPlaces
  <2>2. 0 + 1 = 1
    OBVIOUS
  <2> QED
    BY <2>1, <2>2
<1>4. ASSUME NEW i \in Nat, i \in T
      PROVE  i + 1 \in T
  <2>1. ASSUME (i + 1) + 1 <= m
        PROVE  g[(i + 1) + 1] = SubSeq(text, 1, blobs[(i + 1) + 1].to)
    <3>1. PICK k \in 1 .. m : k = (i + 1) + 1 /\ k - 1 = i + 1 /\ k \in 2 .. Len(p) /\ k - 1 \in 1 .. m
      BY <1>1, <2>1
    <3>2. g[k - 1] = SubSeq(text, 1, blobs[k - 1].to)
      BY <1>1, <1>4, <2>1, <3>1
    <3>3. g[k] = g[k - 1] \o p[k]
      BY <3>1 DEF Flattens, FlattensIn
    <3>4. PICK b \in Nat, t \in Nat :
            /\ b = blobs[k - 1].to /\ t = blobs[k].to /\ Before(k) = b + 1
            /\ 1 <= b + 1 /\ b <= t /\ t <= Len(text)
      <4>1. blobs[k - 1].to \in Nat /\ blobs[k].to \in Nat /\ k \in 2 .. Len(blobs)
        BY <1>1, <3>1 DEF BlobPlaces
      <4>2. /\ Before(k) = blobs[k - 1].to + 1 /\ Before(k) <= blobs[k].from
            /\ blobs[k].from <= blobs[k].to /\ blobs[k].to <= Len(text) /\ blobs[k].from \in Nat
        BY <1>1, <4>1 DEF BlobPlaces
      <4>3. PICK b \in Nat, t \in Nat : b = blobs[k - 1].to /\ t = blobs[k].to
        BY <4>1
      <4>4. PICK f \in Nat : f = blobs[k].from /\ b + 1 <= f /\ f <= t
        BY <4>2, <4>3
      <4>5. Before(k) = b + 1 /\ t <= Len(text)
        BY <4>2, <4>3
      <4>6. 1 <= b + 1 /\ b <= t
        BY <4>4, SMTT(30)
      <4> QED
        BY <4>3, <4>5, <4>6
    <3>5. SubSeq(text, 1, b) \o SubSeq(text, b + 1, t) = SubSeq(text, 1, t)
      <4>1. Meet(text, 1, b, t)
        BY <3>4 DEF Meet
      <4> QED
        BY <4>1, SubSeqsJoin, ZenonT(60)
    <3> QED
      BY <1>2, <3>1, <3>2, <3>3, <3>4, <3>5
  <2> QED
    BY <2>1
<1> HIDE DEF T
<1>5. Nat \subseteq T
  BY <1>3, <1>4, NaturalInduction
<1>6. \A k \in 1 .. m : k - 1 \in T /\ (k - 1) + 1 = k /\ k <= m
  BY <1>1, <1>5
<1> QED
  BY <1>6 DEF T

(* The pieces are texts, and so is what follows them.                      *)
LEMMA PiecesType ==
  ASSUME ScannerInv, TextInv, phase = "mixed"
  PROVE  /\ Pieces \in Seq(Seq(TextChars)) /\ Len(Pieces) = Len(blobs) /\ Pieces # <<>>
         /\ Ending \in Seq(TextChars)
<1>1. BlobPlaces
  BY Places
<1>2. /\ text \in Seq(TextChars) /\ Len(text) \in Nat /\ Len(blobs) \in Nat /\ Len(blobs) >= 1
      /\ spliced \in Seq(Seq(TextChars)) /\ DOMAIN spliced = DOMAIN blobs
      /\ DOMAIN blobs = 1 .. Len(blobs) /\ blobs \in Seq(Interval)
  BY TextTypes DEF TextInv, TextTypeOK, ScannerTypeOK, TextChars
<1>3. ASSUME NEW k \in 1 .. Len(blobs)
      PROVE  SubSeq(text, Before(k), blobs[k].from - 1) \o Piece(k) \in Seq(TextChars)
  <2>1. PICK a \in Nat, f \in Nat, t \in Nat :
          /\ a = Before(k) /\ f = blobs[k].from /\ t = blobs[k].to
          /\ 1 <= a /\ a <= f /\ f <= t /\ t <= Len(text)
    BY <1>1 DEF BlobPlaces
  <2>2. SubSeq(text, a, f - 1) \in Seq(TextChars) /\ SubSeq(text, f, t) \in Seq(TextChars)
    BY <1>2, <2>1
  <2>3. Piece(k) \in Seq(TextChars)
    <3>1. spliced[k] \in Seq(TextChars)
      BY <1>2
    <3> QED
      BY <2>1, <2>2, <3>1 DEF Piece, Raw
  <2> QED
    BY <2>1, <2>2, <2>3
<1>4. Pieces \in Seq(Seq(TextChars)) /\ Len(Pieces) = Len(blobs)
  BY <1>2, <1>3 DEF Pieces
<1>5. Ending \in Seq(TextChars)
  <2>1. PICK t \in Nat : t = blobs[Len(blobs)].to /\ t <= Len(text)
    <3>1. Len(blobs) \in 1 .. Len(blobs)
      BY <1>2
    <3> QED
      BY <1>1, <3>1 DEF BlobPlaces
  <2>2. SubSeq(text, t + 1, Len(text)) \in Seq(TextChars)
    BY <1>2, <2>1
  <2> QED
    BY <2>1, <2>2 DEF Ending, Last
<1>6. Pieces # <<>>
  BY <1>2, <1>4
<1> QED
  BY <1>4, <1>5, <1>6

SplicedNow == result = FlattenSeq(Pieces) \o Ending

(* At first the pieces are the text.                                       *)
RawPieces ==
  [k \in DOMAIN blobs |-> SubSeq(text, Before(k), blobs[k].from - 1) \o Raw(blobs[k])]

(* A function on 1 .. n is a sequence.                                     *)
LEMMA SequenceBy ==
  ASSUME NEW V, NEW n \in Nat, NEW f \in [1 .. n -> V]
  PROVE  f \in Seq(V) /\ Len(f) = n
OBVIOUS

(* With nothing replaced, the pieces and the ending are the text.          *)
LEMMA RawFlattens ==
  ASSUME ScannerInv, TextTypeOK, blobs # <<>>
  PROVE  FlattenSeq(RawPieces) \o Ending = text
<1>1. BlobPlaces
  BY Places
<1>2. /\ text \in Seq(TextChars) /\ Len(text) \in Nat /\ Len(blobs) \in Nat /\ Len(blobs) >= 1
      /\ DOMAIN blobs = 1 .. Len(blobs) /\ Len(blobs) \in 1 .. Len(blobs)
  BY TextTypes DEF ScannerInv, ScannerTypeOK
<1>3. ASSUME NEW k \in 1 .. Len(blobs)
      PROVE  SubSeq(text, Before(k), blobs[k].from - 1) \o Raw(blobs[k]) \in Seq(TextChars)
  <2>1. PICK a \in Nat, f \in Nat, t \in Nat :
          /\ a = Before(k) /\ f = blobs[k].from /\ t = blobs[k].to
          /\ 1 <= a /\ a <= f /\ f <= t /\ t <= Len(text)
    BY <1>1 DEF BlobPlaces
  <2>2. SubSeq(text, a, f - 1) \in Seq(TextChars) /\ SubSeq(text, f, t) \in Seq(TextChars)
    BY <1>2, <2>1
  <2> QED
    BY <2>1, <2>2 DEF Raw
<1>4. PICK p \in Seq(Seq(TextChars)) : p = RawPieces /\ Len(p) = Len(blobs)
  <2> DEFINE e(k) == SubSeq(text, Before(k), blobs[k].from - 1) \o Raw(blobs[k])
             V == Seq(TextChars)
             n == Len(blobs)
  <2>1. RawPieces = [k \in 1 .. n |-> e(k)]
    BY <1>2 DEF RawPieces
  <2>2. (\A k \in 1 .. n : e(k) \in V) /\ n \in Nat
    BY <1>2, <1>3
  <2> HIDE DEF e, V, n
  <2>3. RawPieces \in [1 .. n -> V]
    BY <2>1, <2>2
  <2>4. RawPieces \in Seq(V) /\ Len(RawPieces) = n
    BY <2>2, <2>3, SequenceBy
  <2> QED
    BY <2>4 DEF V, n
<1>5. /\ p # <<>>
      /\ \A k \in 1 .. Len(blobs) :
           p[k] = SubSeq(text, Before(k), blobs[k].from - 1) \o Raw(blobs[k])
  <2>1. p # <<>>
    BY <1>2, <1>4
  <2> QED
    BY <1>2, <1>4, <2>1 DEF RawPieces
<1>6. PICK g : Flattens(g, p) /\ FlattenSeq(p) = g[Len(p)]
  BY <1>5, FlattenSteps DEF Flattens
<1>7. PICK n \in 0 .. Len(blobs) : n = Len(blobs)
  <2>1. Len(blobs) \in 0 .. Len(blobs)
    BY <1>2
  <2> QED
    BY <2>1
<1>8. \A k \in 1 .. n : g[k] = SubSeq(text, 1, blobs[k].to)
  BY <1>1, <1>2, <1>4, <1>5, <1>6, <1>7, FrontFlattens
<1>9. PICK t \in Nat : t = blobs[n].to /\ t <= Len(text)
  BY <1>1, <1>2, <1>7 DEF BlobPlaces
<1>10. g[Len(p)] = SubSeq(text, 1, t)
  BY <1>2, <1>4, <1>7, <1>8, <1>9
<1>11. Ending = SubSeq(text, t + 1, Len(text))
  BY <1>7, <1>9 DEF Ending, Last
<1>12. SubSeq(text, 1, t) \o SubSeq(text, t + 1, Len(text)) = SubSeq(text, 1, Len(text))
  <2>1. Meet(text, 1, t, Len(text))
    BY <1>2, <1>9 DEF Meet
  <2> QED
    BY <2>1, SubSeqsJoin
<1>13. SubSeq(text, 1, Len(text)) = text
  BY <1>2
<1> QED
  BY <1>4, <1>6, <1>10, <1>11, <1>12, <1>13

(* A replacement ends up where the blob was.                               *)
LEMMA ReplacedInPlace ==
  ASSUME ScannerInv, TextInv, phase = "mixed", rest > 0, SplicedNow,
         NEW r \in Seq(TextChars), NEW q \in Seq(Seq(TextChars)), Len(q) = Len(blobs),
         q[rest] = SubSeq(text, Before(rest), blobs[rest].from - 1) \o r,
         \A k \in 1 .. Len(blobs) : k # rest => q[k] = Pieces[k]
  PROVE  FlattenSeq(q) \o Ending = Splice(result, blobs[rest].from, blobs[rest].to, r)
<1>1. BlobPlaces
  BY Places
<1>2. /\ text \in Seq(TextChars) /\ Len(text) \in Nat /\ Len(blobs) \in Nat
      /\ rest \in 1 .. Len(blobs) /\ DOMAIN blobs = 1 .. Len(blobs)
  BY TextTypes DEF TextInv, TextTypeOK, ScannerInv, ScannerTypeOK
<1>3. PICK p \in Seq(Seq(TextChars)), e \in Seq(TextChars) :
        p = Pieces /\ e = Ending /\ Len(p) = Len(blobs) /\ p # <<>>
  BY PiecesType
<1>4. PICK m \in 1 .. Len(blobs) : m = rest
  BY <1>2
<1>5. PICK a \in Nat, f \in Nat, t \in Nat :
        /\ a = Before(m) /\ f = blobs[m].from /\ t = blobs[m].to
        /\ 1 <= a /\ a <= f /\ f <= t /\ t <= Len(text)
  BY <1>1 DEF BlobPlaces
<1>6. \A k \in 1 .. m : p[k] = SubSeq(text, Before(k), blobs[k].from - 1) \o Raw(blobs[k])
  <2>1. \A k \in 1 .. m : k \in DOMAIN blobs /\ k <= rest
    BY <1>2, <1>4
  <2> QED
    BY <1>3, <2>1 DEF Pieces, Piece
<1>7. PICK g : Flattens(g, p) /\ FlattenSeq(p) = g[Len(p)]
  BY <1>3, FlattenSteps DEF Flattens
<1>8. PICK h : Flattens(h, q) /\ FlattenSeq(q) = h[Len(q)]
  <2>1. q # <<>>
    BY <1>2
  <2> QED
    BY <2>1, FlattenSteps DEF Flattens
<1>9. g[m] = SubSeq(text, 1, t)
  <2>1. PICK n \in 0 .. Len(blobs) : n = m
    BY <1>2
  <2>2. \A k \in 1 .. n : g[k] = SubSeq(text, 1, blobs[k].to)
    BY <1>1, <1>2, <1>3, <1>6, <1>7, <2>1, FrontFlattens, ZenonT(60)
  <2>3. m \in 1 .. n
    BY <1>2, <2>1
  <2> QED
    BY <1>5, <2>2, <2>3
<1>10. h[m] = SubSeq(text, 1, f - 1) \o r
  <2>1. q[m] = SubSeq(text, a, f - 1) \o r
    BY <1>4, <1>5
  <2>2. CASE m = 1
    <3>1. a = 1
      BY <1>1, <1>5, <2>2 DEF BlobPlaces
    <3> QED
      BY <1>8, <2>1, <2>2, <3>1 DEF Flattens, FlattensIn
  <2>3. CASE m # 1
    <3>1. PICK n \in 0 .. Len(blobs) : n = m - 1
      BY <1>2
    <3>2. \A k \in 1 .. n : q[k] = p[k] /\ k \in 1 .. m
      BY <1>2, <1>3, <1>4, <3>1
    <3>3. \A k \in 1 .. n : q[k] = SubSeq(text, Before(k), blobs[k].from - 1) \o Raw(blobs[k])
      BY <1>6, <3>2
    <3>4. \A k \in 1 .. n : h[k] = SubSeq(text, 1, blobs[k].to)
      BY <1>1, <1>2, <1>8, <3>3, FrontFlattens
    <3>5. m \in 2 .. Len(blobs) /\ m - 1 \in 1 .. n /\ m - 1 \in 1 .. Len(blobs)
      BY <1>2, <2>3, <3>1
    <3>6. PICK b \in Nat : b = blobs[m - 1].to /\ a = b + 1
      BY <1>1, <1>5, <3>5 DEF BlobPlaces
    <3>7. h[m] = h[m - 1] \o q[m]
      BY <1>8, <3>5 DEF Flattens, FlattensIn
    <3>8. h[m - 1] = SubSeq(text, 1, b)
      BY <3>4, <3>5, <3>6
    <3>9. PICK c \in Nat : c = f - 1 /\ b <= c /\ c <= Len(text)
      <4>1. f - 1 \in Nat /\ b <= f - 1 /\ f - 1 <= Len(text)
        <5>1. a <= f /\ a = b + 1 /\ f <= t /\ t <= Len(text) /\ Len(text) \in Nat
          BY <1>2, <1>5, <3>6
        <5> HIDE <1>4, <1>5, <3>6
        <5> QED
          BY <5>1
      <4> QED
        BY <4>1
    <3>10. SubSeq(text, 1, b) \o SubSeq(text, b + 1, c) = SubSeq(text, 1, c)
      <4>1. Meet(text, 1, b, c)
        BY <1>2, <3>9 DEF Meet
      <4> QED
        BY <4>1, SubSeqsJoin, ZenonT(60)
    <3>11. PICK u \in Seq(TextChars), v \in Seq(TextChars) :
             u = SubSeq(text, 1, b) /\ v = SubSeq(text, b + 1, c)
      <4>1. /\ SubSeq(text, 1, b) \in Seq(TextChars)
            /\ SubSeq(text, b + 1, c) \in Seq(TextChars)
        <5>1. b <= Len(text) /\ c <= Len(text) /\ 1 <= b + 1 /\ b + 1 \in Nat
          <6>1. b <= c /\ c <= Len(text) /\ Len(text) \in Nat
            BY <1>2, <3>9
          <6> HIDE <1>4, <1>5, <3>6, <3>9
          <6> QED
            BY <6>1
        <5> HIDE <1>4, <1>5, <3>6, <3>9
        <5> QED
          BY <1>2, <5>1, SubSeqType, SMTT(30)
      <4> QED
        BY <4>1
    <3>12. u \o (v \o r) = (u \o v) \o r
      BY ConcatAgain
    <3> QED
      BY <2>1, <3>6, <3>7, <3>8, <3>9, <3>10, <3>11, <3>12
  <2> QED
    BY <2>2, <2>3
<1>11. PICK z \in Seq(TextChars) :
         /\ g[m] \in Seq(TextChars) /\ h[m] \in Seq(TextChars)
         /\ g[Len(p)] = g[m] \o z /\ h[Len(q)] = h[m] \o z
  <2>1. Len(p) = Len(q) /\ m \in 1 .. Len(p)
    BY <1>3
  <2>2. \A k \in m + 1 .. Len(p) : q[k] = p[k]
    BY <1>2, <1>3, <1>4
  <2>3. SameBehind(p, q, g, h, m)
    BY <1>7, <1>8, <2>1, <2>2 DEF SameBehind
  <2>4. EndTheSame(p, q, g, h, m)
    BY <2>3, FlattenBehind
  <2> QED
    BY <2>4 DEF EndTheSame
<1>12. PICK x \in Seq(TextChars), y \in Seq(TextChars) : x = g[m] /\ y = h[m]
  BY <1>11
<1>13. PICK w \in Seq(TextChars) : w = z \o e
  <2>1. z \o e \in Seq(TextChars)
    OBVIOUS
  <2> QED
    BY <2>1
<1>14. result = x \o w /\ FlattenSeq(q) \o Ending = y \o w
  <2>1. result = (x \o z) \o e
    BY <1>3, <1>7, <1>11, <1>12 DEF SplicedNow
  <2>2. FlattenSeq(q) \o Ending = (y \o z) \o e
    BY <1>3, <1>8, <1>11, <1>12
  <2>3. (x \o z) \o e = x \o w
    <3>1. (x \o z) \o e = x \o (z \o e)
      BY ConcatAgain, ZenonT(60)
    <3> QED
      BY <1>13, <3>1
  <2>4. (y \o z) \o e = y \o w
    <3>1. (y \o z) \o e = y \o (z \o e)
      BY ConcatAgain, ZenonT(60)
    <3> QED
      BY <1>13, <3>1
  <2> QED
    BY <2>1, <2>2, <2>3, <2>4
<1>15. Splice(SubSeq(text, 1, t) \o w, f, t, r) = SubSeq(text, 1, f - 1) \o r \o w
  <2>1. 1 <= f
    <3>1. 1 <= a /\ a <= f
      BY <1>5
    <3> HIDE <1>4, <1>5
    <3> QED
      BY <3>1
  <2>2. InFront(text, f, t, r, w)
    BY <1>2, <1>5, <2>1 DEF InFront
  <2>3. CutOut(text, f, t, r, w)
    BY <2>2, SpliceFront
  <2> QED
    BY <2>3 DEF CutOut
<1> QED
  BY <1>4, <1>5, <1>9, <1>10, <1>12, <1>14, <1>15

(* Every step keeps the replacements in place.                             *)
LEMMA PlacedStep ==
  ScannerInv /\ TextInv /\ SplicedInPlace /\ [TextNext]_textVars => SplicedInPlace'
<1> SUFFICES ASSUME ScannerInv, TextInv, SplicedInPlace, [TextNext]_textVars
             PROVE  SplicedInPlace'
  OBVIOUS
<1>1. SplicedInPlace <=> (phase = "mixed" \/ strategy = "mixed" => SplicedNow)
  BY DEF SplicedInPlace, SplicedNow, Pieces, Ending
<1>2. SplicedInPlace' <=> (phase' = "mixed" \/ strategy' = "mixed" => SplicedNow')
  BY DEF SplicedInPlace, SplicedNow, Pieces, Ending
<1>3. UNCHANGED <<text, blobs, result, rest, spliced>> => (SplicedNow <=> SplicedNow')
  BY DEF SplicedNow, Pieces, Ending, Piece, Before, Raw
<1>4. \A t, s : Finish(t, s) => /\ phase' = "done" /\ result' = t /\ strategy' = s
                                /\ UNCHANGED <<text, blobs, rest, spliced>>
  BY DEF Finish, scanVars
<1>5. CASE FinishMixed
  BY <1>1, <1>2, <1>3, <1>4, <1>5 DEF FinishMixed
<1>6. CASE TooLarge \/ EncodeWhole \/ CompactWhole \/ KeepWhole
  BY <1>2, <1>4, <1>6 DEF TooLarge, EncodeWhole, CompactWhole, KeepWhole
<1>7. CASE StripPlain \/ KeepPlain \/ KeepMixed
  BY <1>2, <1>4, <1>7 DEF StripPlain, KeepPlain, KeepMixed
<1>8. CASE StartScan \/ ScanOn
  BY <1>2, <1>8 DEF StartScan, ScanOn, NotWhole, Classifying, outputVars, TextInv
<1>9. CASE StartMixed
  <2>1. /\ blobs # <<>> /\ result' = text /\ rest' = Len(blobs)
        /\ UNCHANGED <<text, blobs>>
    BY <1>9 DEF StartMixed, IsMixed, scanVars
  <2>2. DOMAIN blobs = 1 .. Len(blobs)
    BY DEF ScannerInv, ScannerTypeOK
  <2>3. Pieces' = RawPieces
    <3>1. \A k \in DOMAIN blobs : Piece(k)' = Raw(blobs[k])
      <4>1. Len(blobs) \in Nat /\ \A k \in DOMAIN blobs : k <= rest'
        BY <2>1, <2>2 DEF ScannerInv, ScannerTypeOK
      <4>2. \A k : Raw(blobs[k])' = Raw(blobs[k])
        BY <2>1 DEF Raw
      <4> QED
        BY <4>1, <4>2 DEF Piece
    <3>2. \A k : Before(k)' = Before(k)
      BY <2>1 DEF Before
    <3> QED
      BY <2>1, <3>1, <3>2 DEF Pieces, RawPieces
  <2>5. Ending' = Ending
    BY <2>1 DEF Ending
  <2>4. FlattenSeq(RawPieces) \o Ending = text
    BY <2>1, RawFlattens DEF TextInv
  <2> QED
    BY <1>2, <2>1, <2>3, <2>4, <2>5 DEF SplicedNow
<1>10. CASE ReplaceBlob
  <2>1. PICK b, r :
          /\ rest \in DOMAIN blobs /\ b = blobs[rest] /\ r \in Seq(TextChars)
          /\ result' = IF r = <<>> THEN result ELSE Splice(result, b.from, b.to, r)
          /\ spliced' = [spliced EXCEPT ![rest] = r]
          /\ phase = "mixed" /\ rest > 0 /\ rest' = rest - 1
          /\ UNCHANGED <<text, blobs, phase>>
    BY <1>10, Replaced
  <2>2. SplicedNow
    BY <1>1, <2>1
  <2>3. /\ DOMAIN spliced = DOMAIN blobs /\ DOMAIN blobs = 1 .. Len(blobs)
        /\ rest \in Nat /\ Len(blobs) \in Nat
    <3>1. DOMAIN spliced = DOMAIN blobs
      BY <2>1 DEF TextInv
    <3>2. rest \in 0 .. Len(blobs)
      BY DEF TextInv, TextTypeOK
    <3>3. blobs \in Seq(Interval)
      BY DEF ScannerInv, ScannerTypeOK
    <3>4. DOMAIN blobs = 1 .. Len(blobs) /\ Len(blobs) \in Nat
      BY <3>3
    <3> QED
      BY <3>1, <3>2, <3>4
  <2>4. \A k \in DOMAIN blobs : Piece(k)' = IF k # rest THEN Piece(k)
                                          ELSE IF r = <<>> THEN Raw(blobs[rest]) ELSE r
    <3>1. \A k \in DOMAIN blobs : k # rest => (k <= rest' <=> k <= rest)
      BY <2>1, <2>3
    <3>2. ~(rest <= rest')
      BY <2>1, <2>3
    <3>3. (\A k \in DOMAIN blobs : k # rest => spliced'[k] = spliced[k]) /\ spliced'[rest] = r
      BY <2>1, <2>3
    <3>4. \A k : Raw(blobs[k])' = Raw(blobs[k])
      BY <2>1 DEF Raw
    <3> QED
      BY <3>1, <3>2, <3>3, <3>4 DEF Piece
  <2> DEFINE front == SubSeq(text, Before(rest), blobs[rest].from - 1)
             last == IF r = <<>> THEN Raw(blobs[rest]) ELSE r
             q == [k \in DOMAIN blobs |-> IF k # rest THEN Pieces[k] ELSE front \o last]
  <2>5. Pieces' = q /\ Ending' = Ending
    <3>1. \A k : Before(k)' = Before(k)
      BY <2>1 DEF Before
    <3>2. Pieces' = [k \in DOMAIN blobs |->
                      SubSeq(text, Before(k), blobs[k].from - 1) \o Piece(k)']
      BY <2>1, <3>1 DEF Pieces
    <3>3. \A k \in DOMAIN blobs : SubSeq(text, Before(k), blobs[k].from - 1) \o Piece(k)'
             = IF k # rest THEN Pieces[k] ELSE front \o last
      BY <2>4 DEF Pieces
    <3> HIDE DEF last, front
    <3>4. Pieces' = q
      BY <3>2, <3>3
    <3>5. Ending' = Ending
      BY <2>1 DEF Ending
    <3> QED
      BY <3>4, <3>5
  <2>6. CASE r = <<>>
    <3>1. rest \in DOMAIN blobs /\ Pieces[rest] = front \o last
      <4>1. Piece(rest) = Raw(blobs[rest])
        BY <2>1, <2>3 DEF Piece
      <4> QED
        BY <2>1, <2>6, <4>1 DEF Pieces
    <3> HIDE DEF last, front
    <3>2. \A k \in DOMAIN blobs : Pieces[k] = IF k # rest THEN Pieces[k] ELSE front \o last
      BY <3>1
    <3>3. Pieces = [k \in DOMAIN blobs |-> Pieces[k]]
      BY DEF Pieces
    <3>4. q = Pieces
      BY <3>2, <3>3
    <3> HIDE DEF q
    <3> QED
      BY <1>2, <2>1, <2>2, <2>5, <2>6, <3>4 DEF SplicedNow
  <2>7. CASE r # <<>>
    <3>1. last = r
      BY <2>7
    <3>2. q \in Seq(Seq(TextChars)) /\ Len(q) = Len(blobs)
      <4>1. Pieces \in Seq(Seq(TextChars)) /\ Len(Pieces) = Len(blobs)
        BY <2>1, PiecesType
      <4>2. front \o last \in Seq(TextChars)
        <5>1. PICK a \in Nat, f \in Nat :
                a = Before(rest) /\ f = blobs[rest].from /\ 1 <= a /\ a <= f /\ f <= Len(text)
          <6>1. /\ blobs[rest].from \in Nat /\ blobs[rest].to \in Nat
                /\ Before(rest) \in Nat /\ 1 <= Before(rest) /\ Before(rest) <= blobs[rest].from
                /\ blobs[rest].from <= blobs[rest].to /\ blobs[rest].to <= Len(text)
            BY <2>1, <2>3, Places DEF BlobPlaces
          <6>2. Len(text) \in Nat
            BY TextTypes DEF TextInv
          <6> QED
            BY <6>1, <6>2
        <5>2. text \in Seq(TextChars)
          BY TextTypes DEF TextInv
        <5>3. SubSeq(text, a, f - 1) \in Seq(TextChars)
          BY <5>1, <5>2
        <5> QED
          BY <2>1, <3>1, <5>1, <5>3
      <4> DEFINE V == Seq(TextChars)
                 n == Len(blobs)
      <4>3. /\ \A k \in 1 .. n : Pieces[k] \in V
            /\ front \o last \in V /\ n \in Nat /\ DOMAIN blobs = 1 .. n
        BY <2>3, <4>1, <4>2
      <4> HIDE DEF front, last, V, n
      <4>4. q \in [1 .. n -> V]
        BY <4>3
      <4> HIDE DEF q
      <4>5. q \in Seq(V) /\ Len(q) = n
        BY <4>3, <4>4, SequenceBy
      <4> QED
        BY <4>5 DEF V, n
    <3>3. q[rest] = front \o r
      BY <2>1, <3>1
    <3>5. \A k \in 1 .. Len(blobs) : k # rest => q[k] = Pieces[k]
      BY <2>1, <2>3
    <3> HIDE DEF q
    <3>4. FlattenSeq(q) \o Ending = Splice(result, blobs[rest].from, blobs[rest].to, r)
      BY <2>1, <2>2, <3>2, <3>3, <3>5, ReplacedInPlace
    <3> QED
      BY <1>2, <2>1, <2>5, <2>7, <3>4 DEF SplicedNow
  <2> QED
    BY <2>6, <2>7
<1>11. CASE UNCHANGED textVars
  BY <1>1, <1>2, <1>3, <1>11 DEF textVars, scanVars, outputVars
<1> QED
  BY <1>5, <1>6, <1>7, <1>8, <1>9, <1>10, <1>11 DEF TextNext

(* At every step of optimizeMixed, for every text and every replacement,   *)
(* each blob dealt with is where its own replacement is, and every         *)
(* character between the blobs in its place.                               *)
THEOREM BlobsSplicedInPlace == TextSpec => []SplicedInPlace
<1>1. TextInit => SplicedInPlace
  BY DEF TextInit, SplicedInPlace
<1> QED
  BY <1>1, TextAlwaysInv, PlacedStep, PTL DEF TextSpec

=============================================================================
