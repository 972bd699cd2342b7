----------------------------- MODULE ToolDedup -----------------------------
(***************************************************************************)
(* deduplicateToolResults of internal/optimizer/optimizer.go.              *)
(*                                                                         *)
(* The two nested loops, over messages and over the blocks of a message,   *)
(* visit one item after another: an OpenAI message of role "tool", a       *)
(* tool_result block of an Anthropic user message, or anything else.  The  *)
(* state is that of the loop: the position, the set seen, the items as     *)
(* they are so far and the count deduped.                                  *)
(*                                                                         *)
(* Of a content the model keeps the text its text blocks join to and       *)
(* whatever else it carries (images), which the comparison never looks at. *)
(***************************************************************************)
EXTENDS Naturals, FiniteSets

CONSTANTS
  N,       \* how many items the conversation has
  Texts,   \* the texts of contents
  Empty,   \* the empty text
  Extras,  \* what a content carries besides text
  Marker   \* "[duplicate tool result - see earlier in conversation]"

Content == [text : Texts, extra : Extras]
Item == [kind : {"tool", "tool_result", "other"}, content : Content]

ASSUME DedupAssumption ==
  /\ N \in Nat
  /\ Empty \in Texts
  /\ Marker \notin Content

VARIABLES
  items,    \* the conversation, as the optimizer hands it over
  i,        \* the item the loop looks at
  seen,     \* the texts seen so far
  out,      \* the contents, as they will be sent
  deduped   \* how many duplicates were counted

vars == <<items, i, seen, out, deduped>>

Positions == 1 .. N

DedupTypeOK ==
  /\ items \in [Positions -> Item]
  /\ i \in 1 .. N + 1
  /\ seen \subseteq Texts
  /\ out \in [Positions -> Content \cup {Marker}]
  /\ deduped \in Nat

Init ==
  /\ items \in [Positions -> Item]
  /\ i = 1
  /\ seen = {}
  /\ out = [j \in Positions |-> items[j].content]
  /\ deduped = 0

-----------------------------------------------------------------------------
(* Mutants of the definitions that follow, one plausible bug each. *)

MutIsResult(x) == x.kind # "other"
MutRemember(x) == seen
MutReplacedText(x) == [out EXCEPT ![i].text = Marker]
MutReplacedEarlier(x) ==
  [j \in Positions |->
     IF j < i /\ items[j].kind = "tool_result"
              /\ items[j].content.text = x.content.text
       THEN Marker ELSE out[j]]

-----------------------------------------------------------------------------
(* What the loop compares: a "tool" message with string content, or a      *)
(* tool_result block whose text is not empty.                              *)
IsResult(x) ==
  \/ x.kind = "tool"
  \/ x.kind = "tool_result" /\ x.content.text # Empty

IsDuplicate(x) == x.content.text \in seen

Remember(x) == seen \cup {x.content.text}

(* The block of a tool_result is shared with the conversation and changes  *)
(* there; the "tool" message is the loop's own copy and changes nothing.   *)
Replaced(x) == IF x.kind = "tool_result" THEN [out EXCEPT ![i] = Marker] ELSE out

Looking == i \in Positions

Skip ==
  /\ Looking
  /\ ~IsResult(items[i])
  /\ i' = i + 1
  /\ UNCHANGED <<items, seen, out, deduped>>

First ==
  /\ Looking
  /\ IsResult(items[i])
  /\ ~IsDuplicate(items[i])
  /\ seen' = Remember(items[i])
  /\ i' = i + 1
  /\ UNCHANGED <<items, out, deduped>>

Duplicate ==
  /\ Looking
  /\ IsResult(items[i])
  /\ IsDuplicate(items[i])
  /\ out' = Replaced(items[i])
  /\ deduped' = deduped + 1
  /\ i' = i + 1
  /\ UNCHANGED <<items, seen>>

Next == Skip \/ First \/ Duplicate

Spec == Init /\ [][Next]_vars

-----------------------------------------------------------------------------
(* Properties *)

Kept(j) == out[j] = items[j].content

(* The marker sends the model to an earlier place in the conversation: the *)
(* place exists, is a result with the same text, and still has it.  No     *)
(* chain of duplicates, of either kind, removes the last copy of a text.   *)
MarkerPointsBack ==
  \A j \in Positions :
    out[j] = Marker =>
      \E h \in Positions :
        /\ h < j
        /\ IsResult(items[h])
        /\ items[h].content.text = items[j].content.text
        /\ Kept(h)

(* What is not a tool result is never touched, and neither is a block that *)
(* has no text (an image, say): optimizer.go:560 leaves it, for two empty  *)
(* texts tell nothing about the rest.                                      *)
OnlyResultsReplaced ==
  \A j \in Positions :
    ~Kept(j) => /\ items[j].kind \in {"tool", "tool_result"}
                /\ items[j].kind = "tool_result" => items[j].content.text # Empty
                /\ out[j] = Marker

(* What the loop maintains: the items ahead are untouched; the set seen is *)
(* exactly the texts of the results behind, each of them still kept by     *)
(* one; and among the blocks behind, a repeat is never kept.               *)
LoopInvariant ==
  /\ \A j \in Positions : j >= i => Kept(j)
  /\ \A j \in Positions :
       j < i /\ IsResult(items[j]) => items[j].content.text \in seen
  /\ \A t \in seen : \E h \in Positions :
       h < i /\ IsResult(items[h]) /\ items[h].content.text = t /\ Kept(h)
  /\ \A h, j \in Positions :
       /\ h < j /\ j < i
       /\ items[h].kind = "tool_result" /\ items[j].kind = "tool_result"
       /\ items[h].content.text = items[j].content.text
       /\ items[j].content.text # Empty
       => ~Kept(j)

(* A result that repeats the text of an earlier one, of either format.     *)
Repeats(j) ==
  /\ IsResult(items[j])
  /\ \E h \in Positions :
       h < j /\ IsResult(items[h]) /\ items[h].content.text = items[j].content.text

(* The count that the loop returns, and the report shows, is that of the   *)
(* results that repeat an earlier one: each of them once, in the order of  *)
(* the conversation, whatever was replaced before (optimizer.go:523, 565). *)
CountExplained ==
  i = N + 1 => deduped = Cardinality({j \in Positions : Repeats(j)})

(* README.md:37, "Replaces repeated tool results in long conversations":   *)
(* when the loop is done every repeat has the marker.  (It has not: the    *)
(* "tool" message that optimizer.go:522 changes is the loop's own copy.)   *)
RepeatsReplaced ==
  i = N + 1 => \A j \in Positions : Repeats(j) => out[j] = Marker

=============================================================================
