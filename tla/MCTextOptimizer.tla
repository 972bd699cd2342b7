-------------------------- MODULE MCTextOptimizer --------------------------
(* Every short text for the scanner and the mixed path, and one text,      *)
(* TableText, that may parse to any of the values of TopValues.            *)
EXTENDS ToonEncoder, TLC

UpTo(n, S) == UNION {[1 .. k -> S] : k \in 0 .. n}

TableText == <<"[", "other", "other", "]", "space">>
ObjectText == <<"{", "other", "other", "}", "space">>

MCTexts ==
  UpTo(3, Chars)
    \cup [1 .. 4 -> Chars \ {"newline"}]
    \cup [1 .. 5 -> {"{", "}", "[", "]", "quote"}]
    \cup {<<"other">> \o s : s \in [1 .. 6 -> {"{", "}", "quote", "backslash"}]}
    \cup [1 .. 6 -> {"space", "newline", "other"}]
    \cup {TableText, ObjectText}
    \cup {<<"other", "{", "space", "}", "newline", "[", "other", "]", "[", "]">>,
          <<"{", "space", "}", "{", "space", "}">>}

-----------------------------------------------------------------------------
one == Scalar("1")
two == Scalar("2")
pair == Scalar("1 2")

MCWords(shown) == IF shown = "1 2" THEN <<"1", " ", "2">> ELSE <<shown>>

Flat == {one, two}
Nested1 == {Object([f |-> one]), Array(<<one, pair>>)}

MCRecords ==
  {EmptyObject}
    \cup {Object([f |-> v]) : v \in Flat \cup Nested1}
    \cup {Object([g |-> v]) : v \in Flat}
    \cup {Object([f |-> v, g |-> w]) : v \in Flat, w \in {one} \cup Nested1}

Rows == {Array(s) : s \in UpTo(3, MCRecords \cup {one}) \ {<<>>}}

LongRecords ==
  {EmptyObject, Object([f |-> one]), Object([g |-> one]), Object([f |-> two, g |-> one]),
   Object([f |-> one, g |-> Array(<<one>>)])}
LongRows ==
  {Array(<<a, a, b, a, c>>) : a, b \in LongRecords, c \in LongRecords \cup {one}}

Small ==
  {Array(s) : s \in UpTo(2, {one, Object([f |-> one]), Object([f |-> two, g |-> one])})}
    \cup {Array(<<r, r, r>>) : r \in {Object([f |-> one]), Object([f |-> two, g |-> one])}}

Holders ==
  (MCRecords \ {EmptyObject}) \cup {Object([f |-> v, g |-> w]) : v, w \in Small \cup {one}}

(* What the JSON in the other texts may be: nothing, a table or an object, *)
(* or the array of one object that has no eligibility.                     *)
Few ==
  {EmptyObject, EmptyArray, Object([f |-> one]),
   Array(<<Object([f |-> one])>>), Array(<<Object([f |-> one]), Object([f |-> two])>>)}

MCParsesTo(t) ==
  CASE t = TableText  -> Rows \cup LongRows
    [] t = ObjectText -> Holders
    [] OTHER          -> Few

MCValues == ({one, two, pair} \cup Nested1 \cup MCRecords \cup Small \cup Holders) \cup (Rows \cup LongRows)

RECURSIVE Nesting(_)
Nesting(v) ==
  CASE v.kind = "array"  -> 1 + Max({0} \cup {Nesting(v.items[k]) : k \in DOMAIN v.items})
    [] v.kind = "object" -> 1 + Max({0} \cup {Nesting(v.fields[f]) : f \in FieldsOf(v)})
    [] v.kind = "scalar" -> 0

MCDepth == [v \in MCValues |-> Nesting(v)]

-----------------------------------------------------------------------------
Base == [toon |-> TRUE, compact |-> TRUE, strip |-> TRUE, detection |-> TRUE,
         minSavings |-> 0, maxPayload |-> 0, minArray |-> 1, threshold |-> Ratio(0, 1)]

MCConfigs ==
  {Base,
   [Base EXCEPT !.toon = FALSE, !.detection = FALSE, !.minArray = 0],
   [Base EXCEPT !.compact = FALSE, !.minSavings = 30, !.minArray = 2, !.threshold = Ratio(1, 2)],
   [Base EXCEPT !.toon = FALSE, !.compact = FALSE, !.strip = FALSE, !.maxPayload = 1],
   [Base EXCEPT !.compact = FALSE, !.strip = FALSE, !.minSavings = -20, !.threshold = Ratio(-1, 2)]}

=============================================================================
