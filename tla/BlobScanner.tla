---------------------------- MODULE BlobScanner ----------------------------
(***************************************************************************)
(* detectJSONBlobs and findMatchingBracket of                              *)
(* internal/classifier/classifier.go: the search of a text for embedded    *)
(* JSON objects and arrays.                                                *)
(*                                                                         *)
(* A text is a sequence of character classes, counted from 1.  json is the *)
(* set of intervals that encoding/json accepts: any of those whose         *)
(* brackets and strings are in order, for the rest of the grammar is not   *)
(* looked at by this code.  The scanner's own idea of a matching bracket   *)
(* counts one kind of bracket only; Nested, the reference, keeps a stack.  *)
(***************************************************************************)
EXTENDS Naturals, Sequences, SequencesExt

CONSTANTS
  Texts,    \* the texts that may be scanned
  MinBlob   \* the length below which a candidate is ignored: 50

Opening == {"{", "["}
Closing == {"}", "]"}
Blank == {"space", "newline"}
Chars == Opening \cup Closing \cup Blank \cup {"quote", "backslash", "other"}

ASSUME ScannerAssumption ==
  /\ Texts \subseteq Seq(Chars)
  /\ MinBlob \in Nat

VARIABLES
  text,    \* the content
  json,    \* the intervals of it that json.Unmarshal accepts
  pos,     \* where the scanner is
  blobs    \* the intervals found so far, in the order found

scanVars == <<text, json, pos, blobs>>

Interval == [from : Nat, to : Nat]
Size(b) == b.to + 1 - b.from
Raw(b) == SubSeq(text, b.from, b.to)

Partner(c) == IF c = "{" THEN "}" ELSE "]"

-----------------------------------------------------------------------------
(* The brackets and strings of a JSON value (RFC 8259), with a stack.      *)

Nest(s, c) ==
  CASE s.escaped -> [s EXCEPT !.escaped = FALSE]
    [] s.inString /\ ~s.escaped ->
         [s EXCEPT !.inString = c # "quote", !.escaped = c = "backslash",
                   !.wrong = @ \/ c = "newline"]
    [] OTHER ->
         [s EXCEPT !.inString = c = "quote",
                   !.open = CASE c \in Opening -> Append(@, Partner(c))
                              [] c \in Closing /\ @ # <<>> -> Front(@)
                              [] OTHER -> @,
                   !.wrong = \/ @ \/ c = "backslash" \/ s.done
                             \/ c \in Closing /\ (s.open = <<>> \/ Last(s.open) # c),
                   !.done = c \in Closing /\ Len(s.open) = 1]

Nested(t) ==
  LET end == FoldLeft(Nest, [open |-> <<>>, inString |-> FALSE, escaped |-> FALSE,
                             wrong |-> FALSE, done |-> FALSE], t)
  IN Head(t) \in Opening /\ end.done /\ ~end.wrong

Candidates(t) ==
  {b \in [from : DOMAIN t, to : DOMAIN t] :
     b.from < b.to /\ t[b.from] \in Opening /\ Nested(SubSeq(t, b.from, b.to))}

-----------------------------------------------------------------------------
(* Mutants of the definitions that follow, one plausible bug each. *)

MutRead(s, c, open) ==
  CASE c = "quote" -> [s EXCEPT !.inString = ~@]
    [] s.inString  -> s
    [] OTHER       -> [s EXCEPT !.depth = CASE c = open -> @ + 1
                                            [] c = Partner(open) -> @ - 1
                                            [] OTHER -> @]
MutAfterBlob(end) == pos + 1
MutAfterBlobTwice(end) == end + 2
MutAfterReject(end) == end + 1

-----------------------------------------------------------------------------
(* findMatchingBracket: what one character does to the scanner. *)
Read(s, c, open) ==
  CASE s.escaped                    -> [s EXCEPT !.escaped = FALSE]
    [] ~s.escaped /\ s.inString /\ c = "backslash" -> [s EXCEPT !.escaped = TRUE]
    [] ~s.escaped /\ c = "quote"    -> [s EXCEPT !.inString = ~@]
    [] OTHER -> IF s.inString THEN s
                ELSE [s EXCEPT !.depth = CASE c = open -> @ + 1
                                           [] c = Partner(open) -> @ - 1
                                           [] OTHER -> @]

Outside == [depth |-> 0, inString |-> FALSE, escaped |-> FALSE]

(* The scanner after each character from start on. *)
Reading(start) ==
  LET after[k \in start - 1 .. Len(text)] ==
        IF k < start THEN Outside ELSE Read(after[k - 1], text[k], text[start])
  IN after

(* Where the depth is back at 0: the loop returns at the first such place. *)
Returns(start) == {k \in start .. Len(text) : Reading(start)[k].depth = 0}

Matches(start, end) ==
  end \in Returns(start) /\ \A k \in Returns(start) : end <= k

Scanning == pos \in DOMAIN text

AtBracket == Scanning /\ text[pos] \in Opening

IsBlob(b) == Size(b) >= MinBlob /\ b \in json

AfterBlob(end) == end + 1
AfterReject(end) == pos + 1

ScanInit ==
  /\ text \in Texts
  /\ json \in SUBSET Candidates(text)
  /\ pos = 1
  /\ blobs = <<>>

PassBy ==
  /\ Scanning
  /\ text[pos] \notin Opening \/ Returns(pos) = {}
  /\ pos' = pos + 1
  /\ UNCHANGED <<text, json, blobs>>

Reject ==
  /\ AtBracket
  /\ \E end \in Returns(pos) :
       /\ Matches(pos, end)
       /\ ~IsBlob([from |-> pos, to |-> end])
       /\ pos' = AfterReject(end)
  /\ UNCHANGED <<text, json, blobs>>

Find ==
  /\ AtBracket
  /\ \E end \in Returns(pos) :
       /\ Matches(pos, end)
       /\ IsBlob([from |-> pos, to |-> end])
       /\ blobs' = Append(blobs, [from |-> pos, to |-> end])
       /\ pos' = AfterBlob(end)
  /\ UNCHANGED <<text, json>>

Scan == PassBy \/ Reject \/ Find

ScanSpec == ScanInit /\ [][Scan]_scanVars

-----------------------------------------------------------------------------
(* Properties *)

ScannerTypeOK ==
  /\ text \in Seq(Chars)
  /\ json \subseteq Interval
  /\ pos \in 1 .. Len(text) + 1
  /\ blobs \in Seq(Interval)

(* What optimizeMixed (optimizer.go:471) needs of the offsets it cuts at:  *)
(* every blob is a JSON value of the text, long enough, behind the         *)
(* scanner, and wholly in front of every later one.                        *)
BlobsInOrder ==
  /\ \A k \in DOMAIN blobs :
       /\ IsBlob(blobs[k])
       /\ blobs[k].from \in 1 .. blobs[k].to
       /\ blobs[k].to < pos
  /\ \A k, l \in DOMAIN blobs : k < l => blobs[k].to < blobs[l].from

(* classifier.go:260, "bracket matching for more reliable detection": when *)
(* the scanner is done, every JSON value of the text that is long enough   *)
(* was found or lies in (or begins in a string of) one that was.  Counting *)
(* one kind of bracket is enough, stray quotes and brackets in the prose   *)
(* and candidates that failed hide nothing.                                *)
NothingMissed ==
  ~Scanning =>
    \A b \in json :
      Size(b) >= MinBlob =>
        \E k \in DOMAIN blobs :
          \/ blobs[k] = b
          \/ blobs[k].from < b.from /\ b.from < blobs[k].to

=============================================================================
