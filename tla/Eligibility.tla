---------------------------- MODULE Eligibility ----------------------------
(***************************************************************************)
(* analyzeValue and the functions it calls, of                             *)
(* internal/classifier/classifier.go: how far a parsed JSON value is a     *)
(* table, as a ratio; and what the encoder writes as one.                  *)
(*                                                                         *)
(* A value is a record of one of three kinds.  Of a number, string,        *)
(* boolean or null only the text it is shown as is kept.  Ratios are pairs *)
(* of naturals, exact where the code adds float64s; a denominator of 0 is  *)
(* NaN, the only outcome of a division by zero here (it is 0 / 0).         *)
(***************************************************************************)
EXTENDS Naturals, Sequences, SequencesExt, FiniteSetsExt

Scalar(shown) == [kind |-> "scalar", shown |-> shown]
Array(items) == [kind |-> "array", items |-> items]
Object(fields) == [kind |-> "object", fields |-> fields]

IsScalar(v) == v.kind = "scalar"
IsObject(v) == v.kind = "object"
FieldsOf(v) == DOMAIN v.fields

-----------------------------------------------------------------------------
(* Arithmetic and the comparisons of float64, where NaN fails them all. *)

Ratio(n, d) == [n |-> n, d |-> d]
Zero == Ratio(0, 1)
IsNaN(r) == r.d = 0
Plus(r, s) == Ratio(r.n * s.d + s.n * r.d, r.d * s.d)
Times(r, s) == Ratio(r.n * s.n, r.d * s.d)
Over(r, k) == Ratio(r.n, r.d * k)
AtLeast(r, s) == ~IsNaN(r) /\ ~IsNaN(s) /\ r.n * s.d >= s.n * r.d
IsOne(r) == r.n = r.d /\ ~IsNaN(r)

-----------------------------------------------------------------------------
(* Mutants of the definitions that follow, one plausible bug each. *)

MutUniformity(objects) ==
  Over(FoldLeft(LAMBDA r, o : Plus(r, Ratio(Cardinality(FieldsOf(o) \cap FieldsOf(objects[1])),
                                            Max({1, Cardinality(FieldsOf(o))}))),
                Zero, objects),
       Len(objects) - 1)
MutAgreement(reference, fields) ==
  IF reference = {} THEN Zero
  ELSE Ratio(Cardinality(reference \cap fields), Cardinality(reference))
MutSameFields(o, first) == FieldsOf(first) \subseteq FieldsOf(o)

-----------------------------------------------------------------------------
(* How well one object's fields agree with the first one's. *)
Agreement(reference, fields) ==
  IF reference \cup fields = {} THEN Zero
  ELSE Ratio(Cardinality(reference \cap fields),
             Max({Cardinality(reference), Cardinality(fields)}))

(* The mean over the objects after the first. *)
Uniformity(objects) ==
  Over(FoldLeft(LAMBDA r, o : Plus(r, Agreement(FieldsOf(objects[1]), FieldsOf(o))),
                Zero, Tail(objects)),
       Len(objects) - 1)

CheckPrimitiveValues(objects) ==
  LET values == UNION {{<<i, f>> : f \in FieldsOf(objects[i])} : i \in DOMAIN objects}
      primitive == {c \in values : IsScalar(objects[c[1]].fields[c[2]])}
  IN IF values = {} THEN Zero ELSE Ratio(Cardinality(primitive), Cardinality(values))

Objects(arr) ==
  FoldLeft(LAMBDA objects, v : IF IsObject(v) THEN Append(objects, v) ELSE objects, <<>>, arr)

MostlyObjects(arr) == 10 * Len(Objects(arr)) >= 8 * Len(arr)

AnalyzeArray(arr, minArray) ==
  LET objects == Objects(arr)
  IN IF Len(arr) >= minArray /\ objects # <<>> /\ MostlyObjects(arr)
     THEN Times(Uniformity(objects), CheckPrimitiveValues(objects))
     ELSE Zero

(* Only the arrays directly in an object count, and only eligible ones. *)
AnalyzeObject(fields, minArray) ==
  LET share(f) == AnalyzeArray(fields[f].items, minArray)
      eligible == {f \in DOMAIN fields :
                     fields[f].kind = "array" /\ share(f).n > 0 /\ ~IsNaN(share(f))}
      total == FoldSet(LAMBDA f, r : Plus(r, share(f)), Zero, eligible)
  IN IF eligible = {} THEN Zero
     ELSE Times(Over(total, Cardinality(eligible)),
                Ratio(Cardinality(eligible), Cardinality(DOMAIN fields)))

AnalyzeValue(v, minArray) ==
  CASE v.kind = "array"  -> AnalyzeArray(v.items, minArray)
    [] v.kind = "object" -> AnalyzeObject(v.fields, minArray)
    [] v.kind = "scalar" -> Zero

(* New: 0 means not configured. *)
MinArrayLength(config) == IF config.minArray = 0 THEN 3 ELSE config.minArray
UniformityThreshold(config) ==
  IF config.threshold.n = 0 THEN Ratio(4, 5) ELSE config.threshold

-----------------------------------------------------------------------------
(* The other judgment of the same question, getUniformFields of            *)
(* internal/optimizer/optimizer.go: which arrays are written as a table.   *)

SameFields(o, first) ==
  /\ Cardinality(FieldsOf(o)) = Cardinality(FieldsOf(first))
  /\ FieldsOf(first) \subseteq FieldsOf(o)

(* The values of the first element are not looked at. *)
HasUniformFields(arr) ==
  /\ Len(arr) >= 2
  /\ \A k \in DOMAIN arr : IsObject(arr[k])
  /\ \A k \in 2 .. Len(arr) :
       /\ SameFields(arr[k], arr[1])
       /\ \A f \in FieldsOf(arr[1]) : IsScalar(arr[k].fields[f])

=============================================================================
