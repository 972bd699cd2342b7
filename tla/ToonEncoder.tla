---------------------------- MODULE ToonEncoder ----------------------------
(***************************************************************************)
(* minimalTOONEncode and its helpers of internal/optimizer/optimizer.go:   *)
(* the structure of the TOON text a value is encoded as.  The order of the *)
(* fields of an object is that of a Go map, a different one on each        *)
(* iteration, so an encoding is one of a set of documents.                 *)
(*                                                                         *)
(* The encoder calls itself for the parts of a value.  Here it is a        *)
(* function on the values there are: EncodeTOONObject and EncodeTOONArray  *)
(* say what it makes of the documents of the parts.                        *)
(***************************************************************************)
EXTENDS TextOptimizer

CONSTANTS
  Depth,    \* how deep each value is nested
  Words(_)  \* what %v of fmt prints for a scalar or a name that is so shown

(* What a value is made of is nested less deep than it is. *)
IsDepth(depth) ==
  \A v \in DOMAIN depth :
    /\ v.kind = "array" => \A k \in DOMAIN v.items : depth[v.items[k]] < depth[v]
    /\ v.kind = "object" => \A f \in FieldsOf(v) : depth[v.fields[f]] < depth[v]

ASSUME DepthAssumption == Depth \in [Values -> Nat] /\ IsDepth(Depth)

Spaced(ss) == FlattenSeq([k \in DOMAIN ss |-> IF k = 1 THEN ss[k] ELSE <<" ">> \o ss[k]])

(* What %v prints: the items of an array, or the fields of an object in    *)
(* one fixed order (that of their names), with blanks between and no       *)
(* quotes, so that [one two] stands for two strings as well as for one.    *)
Printed[v \in Values] ==
  CASE v.kind = "scalar" -> Words(v.shown)
    [] v.kind = "array"  ->
         <<"[">> \o Spaced([k \in DOMAIN v.items |-> Printed[v.items[k]]]) \o <<"]">>
    [] v.kind = "object" ->
         LET names == SetToSeq(FieldsOf(v))
             entry(k) == Words(names[k]) \o <<":">> \o Printed[v.fields[names[k]]]
         IN <<"map[">> \o Spaced([k \in DOMAIN names |-> entry(k)]) \o <<"]">>

(* formatValue: anything but a scalar is left to fmt. *)
Cell(v) ==
  IF IsScalar(v) THEN [form |-> "cell", shown |-> v.shown]
  ELSE [form |-> "composite", words |-> Printed[v]]

(* A field an object lacks is nil, and nil is shown as null. *)
FieldOf(o, f) == IF f \in FieldsOf(o) THEN o.fields[f] ELSE Scalar("null")

Orders(S) == SetToSeqs(S)

-----------------------------------------------------------------------------
Table(arr, header) ==
  [form |-> "table", header |-> header,
   rows |-> [k \in DOMAIN arr |-> [c \in DOMAIN header |-> Cell(FieldOf(arr[k], header[c]))]]]

(* Arrays that are neither empty, nor a table, nor all scalars. *)
IsDashed(v) ==
  /\ v.kind = "array"
  /\ \E k \in DOMAIN v.items : ~IsScalar(v.items[k])
  /\ ~HasUniformFields(v.items)

(* The lines of an object's document, with what is on them.  The items of  *)
(* a dashed array come one per line behind a dash, and nothing says whose  *)
(* they are.                                                               *)
Named(name, x) == [line |-> "named", name |-> name, of |-> x]
Dashed(x) == [line |-> "dashed", name |-> "", of |-> x]
Entries(name, doc) ==
  IF doc.form = "dashed" THEN [j \in DOMAIN doc.items |-> Dashed(doc.items[j])]
  ELSE <<Named(name, doc)>>

(* The sequences with one document from each set of a sequence of sets. *)
Selections(docs) ==
  {s \in [DOMAIN docs -> UNION Range(docs)] : \A k \in DOMAIN docs : s[k] \in docs[k]}

(* docs has what the value of each field may become, *)
EncodeTOONObject(docs) ==
  UNION {{[form |-> "object",
           entries |-> FlattenSeq([k \in DOMAIN o |-> Entries(o[k], s[k])])] :
            s \in Selections([k \in DOMAIN o |-> docs[o[k]]])} :
          o \in Orders(DOMAIN docs)}

(* or each item of an array behind a dash. *)
EncodeTOONArray(arr, docs) ==
  CASE arr = <<>> -> {[form |-> "empty"]}
    [] HasUniformFields(arr) -> {Table(arr, h) : h \in Orders(FieldsOf(arr[1]))}
    [] IsDashed(Array(arr)) -> {[form |-> "dashed", items |-> s] : s \in Selections(docs)}
    [] OTHER -> {[form |-> "list", items |-> [k \in DOMAIN arr |-> Cell(arr[k])]]}

MinimalTOONEncode[v \in Values] ==
  CASE v.kind = "object" ->
         EncodeTOONObject([f \in FieldsOf(v) |-> MinimalTOONEncode[v.fields[f]]])
    [] v.kind = "array" ->
         EncodeTOONArray(v.items, [k \in DOMAIN v.items |->
                                     IF IsObject(v.items[k]) THEN MinimalTOONEncode[v.items[k]]
                                     ELSE {Cell(v.items[k])}])
    [] v.kind = "scalar" -> {Cell(v)}

-----------------------------------------------------------------------------
(* Properties: they are about the values of the text, which no step        *)
(* changes, and are looked at once for each text.                          *)

(* What an object has, line by line, in an order of its fields: of a       *)
(* dashed array the items only.                                            *)
Contents(o, v) ==
  FlattenSeq([k \in DOMAIN o |->
                IF IsDashed(v.fields[o[k]])
                THEN [j \in DOMAIN v.fields[o[k]].items |-> Dashed(v.fields[o[k]].items[j])]
                ELSE <<Named(o[k], v.fields[o[k]])>>])

TOONDocuments == UNION {MinimalTOONEncode[v] \cup {Cell(v)} : v \in Values}

(* Whether a reader of a document finds a value in it: the lines of an     *)
(* object's are what it has, in some order of its fields, and the columns  *)
(* of a table are the fields of every row.  Of what %v has printed only    *)
(* the words are found, which other values may have too.                   *)
CarriedBy[v \in Values] ==
  [doc \in TOONDocuments |->
     /\ doc.form = "cell" => IsScalar(v) /\ v.shown = doc.shown
     /\ doc.form = "composite" => doc.words = Printed[v]
     /\ doc.form = "empty" => v.kind = "array" /\ v.items = <<>>
     /\ doc.form = "object" =>
          /\ IsObject(v)
          /\ \E o \in Orders(FieldsOf(v)) :
               LET contents == Contents(o, v)
               IN /\ Len(doc.entries) = Len(contents)
                  /\ \A k \in DOMAIN contents :
                       /\ doc.entries[k].line = contents[k].line
                       /\ doc.entries[k].name = contents[k].name
                       /\ CarriedBy[contents[k].of][doc.entries[k].of]
     /\ doc.form \in {"list", "dashed"} =>
          /\ v.kind = "array" /\ Len(v.items) = Len(doc.items)
          /\ \A k \in DOMAIN v.items : CarriedBy[v.items[k]][doc.items[k]]
     /\ doc.form = "table" =>
          /\ v.kind = "array" /\ Len(v.items) = Len(doc.rows)
          /\ \A k \in DOMAIN v.items :
               /\ IsObject(v.items[k])
               /\ FieldsOf(v.items[k]) = Range(doc.header)
               /\ \A c \in DOMAIN doc.header :
                    CarriedBy[v.items[k].fields[doc.header[c]]][doc.rows[k][c]]]

(* README.md:34, "Converts uniform JSON arrays to compact tabular format": *)
(* converted, not cut.  Whatever order a map is walked in, the document    *)
(* has every element, field and scalar of the value in its place, with two *)
(* exceptions: fields that hold a dashed array lose their names, and what  *)
(* formatValue leaves to %v (objects and arrays in the first row of a      *)
(* table, arrays in a dashed array) is there word for word, but not how    *)
(* the words belong together.  Rows of a table after the first have        *)
(* scalars only.                                                           *)
DocumentsCarryValues ==
  phase = "classify" =>
    \A b \in json : \A doc \in MinimalTOONEncode[values[b]] :
      /\ CarriedBy[values[b]][doc]
      /\ doc.form = "table" =>
           \A k \in 2 .. Len(doc.rows), c \in DOMAIN doc.header : doc.rows[k][c].form = "cell"

=============================================================================
