------------------------- MODULE ConversationProofs -------------------------
(***************************************************************************)
(* Proofs about a request body on its way through the gateway: for every   *)
(* set of bodies, of any length, and whatever texts the optimizer may make *)
(* of a text.  The removal of duplicate tool results comes first, by       *)
(* itself (Spec of ToolDedup, conversations of every length); what is      *)
(* shown of it is then carried over to where it stands (ConvSpec), between *)
(* the rest of the optimizer and the rebuilding of the request.            *)
(***************************************************************************)
EXTENDS Conversation, FoldLemmas

(* The variables of the loop have their types.                             *)
LEMMA TypeStep == DedupTypeOK /\ [Next]_vars => DedupTypeOK'
<1> SUFFICES ASSUME DedupTypeOK, [Next]_vars
             PROVE  DedupTypeOK'
  OBVIOUS
<1> USE DedupAssumption
<1>1. CASE Skip
  BY <1>1 DEF DedupTypeOK, Skip, Looking, Positions
<1>2. CASE First
  <2>1. items[i].content.text \in Texts
    BY <1>2 DEF DedupTypeOK, First, Looking, Item, Content
  <2> QED
    BY <1>2, <2>1 DEF DedupTypeOK, First, Looking, Positions, Remember
<1>3. CASE Duplicate
  BY <1>3 DEF DedupTypeOK, Duplicate, Looking, Positions, Replaced
<1>4. CASE UNCHANGED vars
  BY <1>4 DEF DedupTypeOK, vars
<1> QED
  BY <1>1, <1>2, <1>3, <1>4 DEF Next

LEMMA InitType == Init => DedupTypeOK
BY DedupAssumption DEF Init, DedupTypeOK, Positions, Item

(* Type correctness of the loop.                                           *)
THEOREM DedupTypeCorrect == Spec => []DedupTypeOK
BY InitType, TypeStep, PTL DEF Spec

-----------------------------------------------------------------------------
DedupInv == DedupTypeOK /\ LoopInvariant /\ MarkerPointsBack /\ OnlyResultsReplaced

(* The marker is no content: what is replaced is not kept.                 *)
LEMMA MarkerNotKept ==
  ASSUME DedupTypeOK, NEW j \in Positions, out[j] = Marker
  PROVE  ~Kept(j)
BY DedupAssumption DEF DedupTypeOK, Kept, Item

LEMMA PositionsAreIntegers == Positions \subseteq Nat
BY DEF Positions

LEMMA SkipStep ==
  ASSUME DedupInv, Skip
  PROVE  (LoopInvariant /\ MarkerPointsBack /\ OnlyResultsReplaced)'
<1> USE PositionsAreIntegers DEF DedupInv, Skip
<1>1. LoopInvariant'
  <2>1. \A j \in Positions : j < i' <=> j < i \/ j = i
    BY DEF Looking
  <2>2. items[i].kind = "tool_result" => items[i].content.text = Empty
    BY DEF IsResult
  <2> QED
    BY <2>1, <2>2 DEF LoopInvariant, Kept, IsResult, Looking
<1>2. MarkerPointsBack' /\ OnlyResultsReplaced'
  BY DEF MarkerPointsBack, OnlyResultsReplaced, Kept, IsResult
<1> QED
  BY <1>1, <1>2

LEMMA FirstStep ==
  ASSUME DedupInv, First
  PROVE  (LoopInvariant /\ MarkerPointsBack /\ OnlyResultsReplaced)'
<1> USE PositionsAreIntegers DEF DedupInv, First
<1>1. \A j \in Positions : j < i' <=> j < i \/ j = i
  BY DEF Looking
<1>2. Kept(i)
  BY DEF LoopInvariant, Looking
<1>3. \A j \in Positions : Kept(j)' <=> Kept(j)
  BY DEF Kept
<1>4. ASSUME NEW h \in Positions, NEW j \in Positions, h < j, j < i',
             items[h].kind = "tool_result", items[j].kind = "tool_result",
             items[h].content.text = items[j].content.text,
             items[j].content.text # Empty
      PROVE  ~Kept(j)
  <2>1. CASE j < i
    BY <1>4, <2>1 DEF LoopInvariant
  <2>2. CASE j = i
    BY <1>4, <2>2 DEF LoopInvariant, IsResult, IsDuplicate
  <2> QED
    BY <1>1, <1>4, <2>1, <2>2
<1>5. \A j \in Positions :
        j < i' /\ IsResult(items[j]) => items[j].content.text \in seen'
  BY <1>1 DEF LoopInvariant, Remember
<1>6. \A t \in seen' : \E h \in Positions :
        h < i' /\ IsResult(items[h]) /\ items[h].content.text = t /\ Kept(h)
  BY <1>1, <1>2 DEF LoopInvariant, Remember, Looking
<1>7. LoopInvariant'
  <2>1. \A j \in Positions : j >= i' => j >= i
    BY DEF Looking
  <2> QED
    BY <1>1, <1>4, <1>5, <1>6, <2>1 DEF LoopInvariant, IsResult, Kept
<1>8. MarkerPointsBack' /\ OnlyResultsReplaced'
  BY DEF MarkerPointsBack, OnlyResultsReplaced, Kept, IsResult
<1> QED
  BY <1>7, <1>8

LEMMA DuplicateStep ==
  ASSUME DedupInv, Duplicate
  PROVE  (LoopInvariant /\ MarkerPointsBack /\ OnlyResultsReplaced)'
<1> USE PositionsAreIntegers DEF DedupInv, Duplicate
<1>1. /\ i \in Positions
      /\ \A j \in Positions : j < i' <=> j < i \/ j = i
  BY DEF Looking
<1>2. \A j \in Positions : j # i => out'[j] = out[j]
  BY DEF Replaced
<1>3. \A j \in Positions : j # i => (Kept(j)' <=> Kept(j))
  BY <1>2 DEF Kept
<1>4. items[i].kind = "tool_result" => out'[i] = Marker /\ out'[i] # items[i].content
  <2> SUFFICES ASSUME items[i].kind = "tool_result"
               PROVE  out'[i] = Marker /\ out'[i] # items[i].content
    OBVIOUS
  <2>1. out'[i] = Marker
    BY <1>1 DEF DedupTypeOK, Replaced
  <2>2. items[i].content \in Content
    BY <1>1 DEF DedupTypeOK, Item
  <2> QED
    BY <2>1, <2>2, DedupAssumption
<1>5. items[i].kind # "tool_result" => out' = out
  BY DEF Replaced
<1>6. PICK h0 \in Positions :
        /\ h0 < i
        /\ IsResult(items[h0])
        /\ items[h0].content.text = items[i].content.text
        /\ Kept(h0)
  BY DEF LoopInvariant, IsDuplicate
<1>7. LoopInvariant'
  <2>1. \A j \in Positions : j >= i' => Kept(j)'
    <3>1. \A j \in Positions : j >= i' => j >= i /\ j # i
      BY DEF Looking
    <3> QED
      BY <1>2, <3>1 DEF LoopInvariant, Kept
  <2>2. \A j \in Positions :
          j < i' /\ IsResult(items[j]) => items[j].content.text \in seen
    BY <1>1 DEF LoopInvariant, IsDuplicate
  <2>3. \A t \in seen : \E h \in Positions :
          h < i' /\ IsResult(items[h]) /\ items[h].content.text = t /\ Kept(h)'
    BY <1>1, <1>3 DEF LoopInvariant
  <2>4. ASSUME NEW h \in Positions, NEW j \in Positions, h < j, j < i',
               items[h].kind = "tool_result", items[j].kind = "tool_result",
               items[h].content.text = items[j].content.text,
               items[j].content.text # Empty
        PROVE  ~Kept(j)'
    <3>1. CASE j < i
      BY <1>1, <1>3, <2>4, <3>1 DEF LoopInvariant
    <3>2. CASE j = i
      BY <1>4, <2>4, <3>2 DEF Kept
    <3> QED
      BY <1>1, <2>4, <3>1, <3>2
  <2> QED
    BY <2>1, <2>2, <2>3, <2>4 DEF LoopInvariant, IsResult
<1>8. MarkerPointsBack'
  <2> SUFFICES ASSUME NEW j \in Positions, out'[j] = Marker
               PROVE  \E h \in Positions : /\ h < j
                                           /\ IsResult(items[h])
                                           /\ items[h].content.text = items[j].content.text
                                           /\ Kept(h)'
    BY DEF MarkerPointsBack, IsResult
  <2>1. CASE j = i
    BY <1>3, <1>6, <2>1
  <2>2. CASE j # i
    <3>1. PICK h \in Positions :
            /\ h < j
            /\ IsResult(items[h])
            /\ items[h].content.text = items[j].content.text
            /\ Kept(h)
      BY <1>2, <2>2 DEF MarkerPointsBack
    <3>2. j < i
      <4>1. ~Kept(j)
        BY <1>2, <2>2, MarkerNotKept
      <4> QED
        BY <1>1, <2>2, <4>1 DEF LoopInvariant
    <3>3. h # i
      BY <1>1, <3>1, <3>2
    <3> QED
      BY <1>3, <3>1, <3>3
  <2> QED
    BY <2>1, <2>2
<1>9. OnlyResultsReplaced'
  <2> SUFFICES ASSUME NEW j \in Positions, ~Kept(j)'
               PROVE  /\ items[j].kind \in {"tool", "tool_result"}
                      /\ items[j].kind = "tool_result" => items[j].content.text # Empty
                      /\ out'[j] = Marker
    BY DEF OnlyResultsReplaced
  <2>1. CASE j = i
    <3>1. items[i].kind = "tool_result"
      BY <1>1, <1>5, <2>1 DEF Kept, LoopInvariant
    <3> QED
      BY <1>4, <2>1, <3>1 DEF IsResult
  <2>2. CASE j # i
    BY <1>2, <1>3, <2>2 DEF OnlyResultsReplaced
  <2> QED
    BY <2>1, <2>2
<1> QED
  BY <1>7, <1>8, <1>9

LEMMA InvInit == Init => DedupInv
<1> SUFFICES ASSUME Init
             PROVE  DedupInv
  OBVIOUS
<1>1. DedupTypeOK
  BY InitType
<1>2. \A j \in Positions : Kept(j) /\ j >= i
  BY DEF Init, Kept, Positions
<1>3. \A j \in Positions : out[j] # Marker
  BY <1>1, <1>2, MarkerNotKept
<1> QED
  BY <1>1, <1>2, <1>3, PositionsAreIntegers
  DEF Init, DedupInv, LoopInvariant, MarkerPointsBack, OnlyResultsReplaced

LEMMA InvStep == DedupInv /\ [Next]_vars => DedupInv'
<1> SUFFICES ASSUME DedupInv, [Next]_vars
             PROVE  (LoopInvariant /\ MarkerPointsBack /\ OnlyResultsReplaced)'
  BY TypeStep DEF DedupInv
<1>1. CASE Skip
  BY <1>1, SkipStep
<1>2. CASE First
  BY <1>2, FirstStep
<1>3. CASE Duplicate
  BY <1>3, DuplicateStep
<1>4. CASE UNCHANGED vars
  BY <1>4 DEF vars, DedupInv, LoopInvariant, MarkerPointsBack, OnlyResultsReplaced,
              Kept, IsResult
<1> QED
  BY <1>1, <1>2, <1>3, <1>4 DEF Next

(* The loop keeps its invariant.                                           *)
THEOREM DedupInvariant == Spec => []DedupInv
BY InvInit, InvStep, PTL DEF Spec

(* The invariant of the loop, by itself.                                   *)
THEOREM LoopKeepsInvariant == Spec => []LoopInvariant
<1>1. DedupInv => LoopInvariant
  BY DEF DedupInv
<1> QED
  BY <1>1, DedupInvariant, PTL

(* Every marker points back to a result with the same text, which is kept. *)
THEOREM MarkersPointBack == Spec => []MarkerPointsBack
<1>1. DedupInv => MarkerPointsBack
  BY DEF DedupInv
<1> QED
  BY <1>1, DedupInvariant, PTL

(* Nothing but tool results is ever replaced, and no block without text.   *)
THEOREM OnlyResultsAreReplaced == Spec => []OnlyResultsReplaced
<1>1. DedupInv => OnlyResultsReplaced
  BY DEF DedupInv
<1> QED
  BY <1>1, DedupInvariant, PTL

-----------------------------------------------------------------------------
(* What the count is made of, while the loop runs.                         *)
RepeatsBehind == {j \in Positions : j < i /\ Repeats(j)}

CountInv == deduped = Cardinality(RepeatsBehind)

LEMMA RepeatsBehindAreFinite == IsFiniteSet(RepeatsBehind)
<1>1. IsFiniteSet(Positions)
  BY DedupAssumption, FS_Interval DEF Positions
<1> QED
  BY <1>1, FS_Subset DEF RepeatsBehind

(* A result is a repeat of an earlier one exactly if its text was seen.    *)
LEMMA SeenMeansRepeated ==
  ASSUME DedupInv, i \in Positions, IsResult(items[i])
  PROVE  IsDuplicate(items[i]) <=> Repeats(i)
BY DEF DedupInv, LoopInvariant, IsDuplicate, Repeats

(* The set of repeats behind gains the item just passed, if it is one.     *)
LEMMA ItemPassed ==
  ASSUME DedupInv, Next
  PROVE  RepeatsBehind' = IF Repeats(i) THEN RepeatsBehind \cup {i} ELSE RepeatsBehind
<1>1. i \in Positions /\ i' = i + 1 /\ items' = items
  BY DEF Next, Skip, First, Duplicate, Looking
<1>2. \A j \in Positions : j < i' <=> j < i \/ j = i
  BY <1>1, PositionsAreIntegers
<1>3. \A j \in Positions : Repeats(j)' <=> Repeats(j)
  BY <1>1 DEF Repeats, IsResult
<1> QED
  BY <1>1, <1>2, <1>3 DEF RepeatsBehind

LEMMA CountStep ==
  ASSUME DedupInv, CountInv, [Next]_vars
  PROVE  CountInv'
<1>1. CASE Skip \/ First
  <2>1. i \in Positions /\ deduped' = deduped
    BY <1>1 DEF Skip, First, Looking
  <2>2. ~Repeats(i)
    <3>1. CASE Skip
      BY <3>1 DEF Skip, Repeats
    <3>2. CASE First
      BY <2>1, <3>2, SeenMeansRepeated DEF First
    <3> QED
      BY <1>1, <3>1, <3>2
  <2>3. RepeatsBehind' = RepeatsBehind
    BY <1>1, <2>2, ItemPassed DEF Next
  <2> QED
    BY <2>1, <2>3 DEF CountInv
<1>2. CASE Duplicate
  <2>1. /\ i \in Positions /\ deduped' = deduped + 1
        /\ IsResult(items[i]) /\ IsDuplicate(items[i])
    BY <1>2 DEF Duplicate, Looking
  <2>2. Repeats(i)
    BY <2>1, SeenMeansRepeated
  <2>3. RepeatsBehind' = RepeatsBehind \cup {i}
    BY <1>2, <2>2, ItemPassed DEF Next
  <2>4. i \notin RepeatsBehind
    BY <2>1, PositionsAreIntegers DEF RepeatsBehind
  <2>5. Cardinality(RepeatsBehind') = Cardinality(RepeatsBehind) + 1
    BY <2>3, <2>4, RepeatsBehindAreFinite, FS_AddElement
  <2> QED
    BY <2>1, <2>5 DEF CountInv
<1>3. CASE UNCHANGED vars
  BY <1>3 DEF vars, CountInv, RepeatsBehind, Repeats, IsResult
<1> QED
  BY <1>1, <1>2, <1>3 DEF Next

LEMMA CountInit == Init => CountInv
<1> SUFFICES ASSUME Init PROVE CountInv
  OBVIOUS
<1>1. RepeatsBehind = {}
  BY PositionsAreIntegers DEF Init, RepeatsBehind, Positions
<1> QED
  BY <1>1, FS_EmptySet DEF Init, CountInv

(* At the end of the loop every item is behind.                            *)
LEMMA CountAtEnd == CountInv => CountExplained
<1> SUFFICES ASSUME CountInv, i = N + 1 PROVE CountExplained
  BY DEF CountExplained
<1>1. \A j \in Positions : j < i
  BY DedupAssumption DEF Positions
<1>2. RepeatsBehind = {j \in Positions : Repeats(j)}
  BY <1>1 DEF RepeatsBehind
<1> QED
  BY <1>2 DEF CountInv, CountExplained

(* For conversations of any length the count reported is that of the       *)
(* results that repeat an earlier one.                                     *)
THEOREM CountIsExplained == Spec => []CountExplained
<1>1. Spec => [](DedupInv /\ CountInv)
  BY InvInit, InvStep, CountInit, CountStep, PTL DEF Spec
<1> QED
  BY <1>1, CountAtEnd, PTL

-----------------------------------------------------------------------------
(* The texts a message's content may have when optimizeMessage is done.    *)
FormsOf(m) == IF IsText(m) THEN Forms[TextOf(m)] ELSE {m.text}

Filled(k) ==
  /\ items[k].kind = KindOf(messages[k])
  /\ \E t \in FormsOf(messages[k]) :
       items[k].content = [text |-> t, extra |-> messages[k].extra]

AllKept == \A j \in Positions : Kept(j)

ConvTypes ==
  /\ body \in Bodies
  /\ dedupOn \in BOOLEAN
  /\ phase \in {"parse", "optimize", "dedup", "rebuild", "sent"}
  /\ messages \in Seq(Message)
  /\ Len(messages) <= N
  /\ \A k \in DOMAIN messages :
       messages[k].text = Missing => messages[k].form \in {"text", "result_blocks"}
  /\ next \in 1 .. Len(messages) + 1

(* What parseRequest made of the body.                                     *)
Parsed ==
  phase # "parse" =>
    IF TakesSystem THEN \E t \in SystemText : messages = <<VirtualSystem(t)>> \o Given
                   ELSE messages = Given

(* Before the deduplication starts nothing is replaced and nothing seen.   *)
NotBegun ==
  phase \in {"parse", "optimize"} => i = 1 /\ seen = {} /\ deduped = 0 /\ AllKept

FilledSoFar == \A k \in DOMAIN messages : k < next => Filled(k)

Progress ==
  /\ phase = "parse" => next = 1 /\ messages = <<>>
  /\ phase \in {"dedup", "rebuild", "sent"} => next = Len(messages) + 1
  /\ phase = "dedup" => dedupOn
  /\ ~dedupOn => AllKept
  /\ phase \in {"rebuild", "sent"} /\ dedupOn => i = N + 1
  /\ phase = "sent" => sent = Rebuilt

ConvInv ==
  /\ ConvTypes /\ Parsed /\ NotBegun /\ FilledSoFar /\ Progress
  /\ DedupInv /\ CountInv

-----------------------------------------------------------------------------
(* Facts about bodies and messages.                                        *)
LEMMA BodyTypes ==
  ASSUME NEW b \in Bodies
  PROVE  /\ b.provider \in {"anthropic", "openai"}
         /\ b.system \in System
         /\ b.messages \in Seq(Message)
         /\ Len(b.messages) \in Nat
         /\ Len(b.messages) < N
         /\ \A k \in DOMAIN b.messages :
              b.messages[k].text = Missing => b.messages[k].form \in {"text", "result_blocks"}
BY ConversationAssumption

LEMMA SlotsExist == ConvTypes => N \in Nat /\ N >= 1 /\ 1 \in Positions
<1> SUFFICES ASSUME ConvTypes PROVE N \in Nat /\ N >= 1 /\ 1 \in Positions
  OBVIOUS
<1>1. Len(body.messages) \in Nat /\ Len(body.messages) < N
  BY BodyTypes DEF ConvTypes
<1> QED
  BY <1>1, DedupAssumption DEF Positions

LEMMA SystemTextsAreTexts ==
  ASSUME ConvTypes
  PROVE  SystemText \subseteq Texts
<1>1. body.system.text \in Texts
  BY BodyTypes DEF ConvTypes, System
<1> QED
  BY <1>1, DedupAssumption DEF SystemText

LEMMA VirtualSystemType ==
  ASSUME NEW t \in Texts
  PROVE  /\ VirtualSystem(t) \in Message
         /\ VirtualSystem(t).text # Missing
         /\ VirtualSystem(t).role = "system"
         /\ VirtualSystem(t).form = "string"
BY ConversationAssumption DEF VirtualSystem, Message, Textual

LEMMA GivenType ==
  ASSUME ConvTypes
  PROVE  /\ Given \in Seq(Message)
         /\ Len(Given) = Len(body.messages)
         /\ Len(Given) \in Nat
         /\ DOMAIN Given = 1 .. Len(Given)
         /\ DOMAIN Given = DOMAIN body.messages
         /\ \A k \in DOMAIN Given :
              /\ Given[k].role = body.messages[k].role
              /\ Given[k].form = body.messages[k].form
              /\ Given[k].text = body.messages[k].text
              /\ Carries(Given[k].extra, body.messages[k])
<1>1. /\ body.messages \in Seq(Message)
      /\ Len(body.messages) \in Nat
      /\ DOMAIN body.messages = 1 .. Len(body.messages)
  BY BodyTypes DEF ConvTypes
<1>2. \A k \in DOMAIN body.messages :
        /\ Decoded(body.messages[k]) \in Message
        /\ Decoded(body.messages[k]).role = body.messages[k].role
        /\ Decoded(body.messages[k]).form = body.messages[k].form
        /\ Decoded(body.messages[k]).text = body.messages[k].text
        /\ Carries(Decoded(body.messages[k]).extra, body.messages[k])
  <2> SUFFICES ASSUME NEW k \in DOMAIN body.messages, NEW m, m = body.messages[k]
               PROVE  /\ Decoded(m) \in Message
                      /\ Decoded(m).role = m.role
                      /\ Decoded(m).form = m.form
                      /\ Decoded(m).text = m.text
                      /\ Carries(Decoded(m).extra, m)
    OBVIOUS
  <2>1. m \in Message /\ Reencoded[m.extra] \in Extras
    <3>1. m \in Message
      BY <1>1
    <3>2. m.extra \in Extras
      BY <3>1 DEF Message
    <3> QED
      BY <3>1, <3>2, ConversationAssumption
  <2> QED
    BY <2>1, ConversationAssumption DEF Decoded, Message, Carries
<1>3. /\ DOMAIN Given = 1 .. Len(body.messages)
      /\ \A k \in DOMAIN Given : Given[k] = Decoded(body.messages[k])
  BY <1>1 DEF Given
<1>4. Given \in Seq(Message)
  BY <1>1, <1>2 DEF Given
<1> QED
  BY <1>1, <1>2, <1>3, <1>4

LEMMA FormsOfTexts ==
  ASSUME NEW m \in Message, m.text = Missing => m.form \in {"text", "result_blocks"}
  PROVE  FormsOf(m) \subseteq Texts /\ TextOf(m) \in Texts
<1>1. TextOf(m) \in Texts
  BY DedupAssumption DEF TextOf, Message
<1>2. IsText(m) => FormsOf(m) = Forms[TextOf(m)] /\ Forms[TextOf(m)] \subseteq Texts
  BY <1>1, ConversationAssumption DEF FormsOf
<1>3. ~IsText(m) => FormsOf(m) = {m.text} /\ m.text \in Texts
  BY DEF FormsOf, IsText, Textual, Message
<1> QED
  BY <1>1, <1>2, <1>3

LEMMA BlankType == BlankItem \in Item /\ BlankItem.content \in Content
BY DedupAssumption, ConversationAssumption DEF BlankItem, Item, Content

-----------------------------------------------------------------------------
(* The dedup loop's invariant holds wherever the loop has not begun.       *)
LEMMA Pristine ==
  DedupTypeOK /\ i = 1 /\ seen = {} /\ deduped = 0 /\ AllKept => DedupInv /\ CountInv
<1> SUFFICES ASSUME DedupTypeOK, i = 1, seen = {}, deduped = 0, AllKept
             PROVE  DedupInv /\ CountInv
  OBVIOUS
<1>1. \A j \in Positions : ~(j < i) /\ Kept(j) /\ out[j] # Marker
  BY MarkerNotKept DEF Positions, AllKept
<1>2. DedupInv
  BY <1>1 DEF DedupInv, LoopInvariant, MarkerPointsBack, OnlyResultsReplaced
<1>3. RepeatsBehind = {}
  BY <1>1 DEF RepeatsBehind
<1> QED
  BY <1>2, <1>3, FS_EmptySet DEF CountInv

(* Steps around the loop leave its variables alone.                        *)
LEMMA LoopUntouched ==
  ASSUME DedupInv, CountInv, UNCHANGED vars
  PROVE  DedupInv' /\ CountInv' /\ (AllKept' <=> AllKept)
         /\ (\A k \in DOMAIN messages : messages' = messages => (Filled(k)' <=> Filled(k)))
<1>1. DedupInv' /\ CountInv'
  BY InvStep, CountStep
<1>2. AllKept' <=> AllKept
  BY DEF vars, AllKept, Kept
<1>3. ASSUME NEW k \in DOMAIN messages, messages' = messages
      PROVE  Filled(k)' <=> Filled(k)
  BY <1>3 DEF vars, Filled, FormsOf, IsText, TextOf, KindOf
<1> QED
  BY <1>1, <1>2, <1>3

LEMMA ConvStarts == ConvInit => ConvInv
<1> SUFFICES ASSUME ConvInit PROVE ConvInv
  OBVIOUS
<1>1. body \in Bodies /\ Len(body.messages) \in Nat /\ Len(body.messages) < N
  BY BodyTypes DEF ConvInit
<1>2. N \in Nat /\ N >= 1
  BY <1>1, DedupAssumption
<1>3. ConvTypes
  BY <1>1, <1>2 DEF ConvInit, ConvTypes
<1>4. DedupTypeOK
  BY <1>2, BlankType DEF ConvInit, DedupTypeOK, Positions
<1>5. AllKept
  BY DEF ConvInit, AllKept, Kept
<1>6. DedupInv /\ CountInv
  BY <1>4, <1>5, Pristine DEF ConvInit
<1>7. Parsed /\ NotBegun /\ FilledSoFar /\ Progress
  BY <1>5 DEF ConvInit, Parsed, NotBegun, FilledSoFar, Progress
<1> QED
  BY <1>3, <1>6, <1>7 DEF ConvInv

LEMMA ParseStep ==
  ASSUME ConvInv, Parse
  PROVE  ConvInv'
<1> USE DEF ConvInv
<1>1. /\ phase = "parse" /\ phase' = "optimize"
      /\ UNCHANGED <<body, dedupOn, next, sent>>
      /\ UNCHANGED vars
  BY DEF Parse
<1>2. DedupInv' /\ CountInv' /\ (AllKept' <=> AllKept)
  BY <1>1, LoopUntouched
<1>3. /\ Given \in Seq(Message) /\ Len(Given) \in Nat /\ Len(Given) < N
      /\ \A k \in DOMAIN Given :
           Given[k].text = Missing => Given[k].form \in {"text", "result_blocks"}
  BY GivenType, BodyTypes DEF ConvTypes
<1>4. /\ messages' \in Seq(Message)
      /\ Len(messages') <= N
      /\ \A k \in DOMAIN messages' :
           messages'[k].text = Missing => messages'[k].form \in {"text", "result_blocks"}
  <2>1. CASE TakesSystem
    <3>1. PICK t \in SystemText : messages' = <<VirtualSystem(t)>> \o Given
      BY <2>1 DEF Parse
    <3>2. VirtualSystem(t) \in Message /\ VirtualSystem(t).text # Missing
      BY <3>1, SystemTextsAreTexts, VirtualSystemType
    <3> QED
      BY <1>3, <3>1, <3>2, SlotsExist
  <2>2. CASE ~TakesSystem
    BY <1>3, <2>2, SlotsExist DEF Parse
  <2> QED
    BY <2>1, <2>2
<1>5. ConvTypes'
  BY <1>1, <1>4 DEF ConvTypes, Progress
<1>6. Parsed'
  BY <1>1 DEF Parse, Parsed, TakesSystem, SystemText, Given, VirtualSystem
<1>7. NotBegun' /\ FilledSoFar' /\ Progress'
  <2>1. next' = 1
    BY <1>1 DEF Progress
  <2>2. \A k \in DOMAIN messages' : ~(k < next')
    BY <1>4, <2>1
  <2> QED
    BY <1>1, <1>2, <2>2 DEF NotBegun, FilledSoFar, Progress, vars
<1> QED
  BY <1>2, <1>5, <1>6, <1>7

(* optimizeMessage fills one slot with one of the texts it may have.       *)
LEMMA FillStep ==
  ASSUME ConvInv, Optimizing, NEW t \in FormsOf(messages[next]), Fill(t)
  PROVE  ConvInv'
<1> USE DEF ConvInv
<1> DEFINE m == messages[next]
           c == [text |-> t, extra |-> m.extra]
<1>1. /\ phase = "optimize" /\ next \in DOMAIN messages
      /\ UNCHANGED <<i, seen, deduped, body, dedupOn, messages, phase, sent>>
      /\ items' = [items EXCEPT ![next] = [kind |-> KindOf(m), content |-> c]]
      /\ out' = [out EXCEPT ![next] = c]
      /\ next' = next + 1
  BY DEF Optimizing, Fill, codecVars
<1>2. /\ m \in Message
      /\ next \in Positions
      /\ next \in Nat
  BY <1>1, SlotsExist DEF ConvTypes, Positions
<1>3. c \in Content /\ KindOf(m) \in {"tool", "tool_result", "other"}
  <2>1. t \in Texts
    BY <1>1, <1>2, FormsOfTexts DEF ConvTypes
  <2> QED
    BY <1>2, <2>1 DEF Content, KindOf, Message
<1>4. DedupTypeOK'
  BY <1>1, <1>2, <1>3 DEF DedupInv, DedupTypeOK, Item
<1>5. i = 1 /\ seen = {} /\ deduped = 0 /\ AllKept
  BY <1>1 DEF NotBegun
<1>6. AllKept'
  BY <1>1, <1>2, <1>5 DEF DedupInv, DedupTypeOK, AllKept, Kept
<1>7. DedupInv' /\ CountInv'
  <2>1. (DedupTypeOK /\ i = 1 /\ seen = {} /\ deduped = 0 /\ AllKept)'
    BY <1>1, <1>4, <1>5, <1>6
  <2> QED
    BY <2>1, Pristine, PTL
<1>8. ConvTypes'
  BY <1>1 DEF ConvTypes
<1>9. Parsed'
  BY <1>1 DEF Parsed, TakesSystem, SystemText, Given, VirtualSystem
<1>10. FilledSoFar'
  <2> SUFFICES ASSUME NEW k \in DOMAIN messages, k < next' PROVE Filled(k)'
    BY <1>1 DEF FilledSoFar
  <2>1. CASE k = next
    BY <1>1, <1>2, <2>1 DEF Filled, FormsOf, IsText, TextOf, KindOf, DedupInv, DedupTypeOK
  <2>2. CASE k # next
    <3>1. k < next /\ k \in Positions
      BY <1>1, <1>2, <2>2, SlotsExist DEF ConvTypes, Positions
    <3>2. items'[k] = items[k]
      BY <1>1, <2>2, <3>1 DEF DedupInv, DedupTypeOK
    <3> QED
      BY <1>1, <3>1, <3>2, ZenonT(60) DEF FilledSoFar, Filled, FormsOf, IsText, TextOf, KindOf
  <2> QED
    BY <2>1, <2>2
<1>11. NotBegun' /\ Progress'
  BY <1>1, <1>5, <1>6 DEF NotBegun, Progress
<1> QED
  BY <1>7, <1>8, <1>9, <1>10, <1>11

LEMMA OptimizeStep ==
  ASSUME ConvInv, OptimizeMessage \/ LeaveMessage
  PROVE  ConvInv'
<1>1. CASE OptimizeMessage
  BY <1>1, FillStep DEF OptimizeMessage, FormsOf
<1>2. CASE LeaveMessage
  BY <1>2, FillStep DEF LeaveMessage, FormsOf
<1> QED
  BY <1>1, <1>2

(* The three steps that only move on to the next part.                     *)
LEMMA EndStep ==
  ASSUME ConvInv, EndOptimize \/ EndDedup \/ Rebuild
  PROVE  ConvInv'
<1> USE DEF ConvInv
<1>1. UNCHANGED <<vars, codecVars, next>>
  BY DEF EndOptimize, EndDedup, Rebuild
<1>2. DedupInv' /\ CountInv' /\ (AllKept' <=> AllKept)
      /\ \A k \in DOMAIN messages : Filled(k)' <=> Filled(k)
  BY <1>1, LoopUntouched DEF codecVars
<1>3. phase' \in {"dedup", "rebuild", "sent"} /\ phase # "parse"
  BY DEF EndOptimize, EndDedup, Rebuild
<1>4. ConvTypes' /\ FilledSoFar' /\ NotBegun'
  BY <1>1, <1>2, <1>3 DEF ConvTypes, FilledSoFar, NotBegun, codecVars
<1>5. Parsed'
  BY <1>1, <1>3 DEF Parsed, TakesSystem, SystemText, Given, VirtualSystem, codecVars
<1>6. Progress'
  <2>1. CASE EndOptimize
    <3>1. next = Len(messages) + 1
      BY <2>1 DEF EndOptimize, Optimizing, ConvTypes
    <3>2. ~dedupOn => AllKept
      BY DEF Progress
    <3> QED
      BY <1>1, <1>2, <2>1, <3>1, <3>2 DEF EndOptimize, Progress, codecVars
  <2>2. CASE EndDedup
    <3>1. i = N + 1
      BY <2>2, SlotsExist DEF EndDedup, Looking, Positions, DedupInv, DedupTypeOK
    <3> QED
      BY <1>1, <1>2, <2>2, <3>1 DEF EndDedup, Progress, codecVars, vars
  <2>3. CASE Rebuild
    <3>1. sent' = Rebuilt'
      BY <1>1, <2>3 DEF Rebuild, Rebuilt, HasSystem, Written, codecVars, vars
    <3> QED
      BY <1>1, <1>2, <2>3, <3>1 DEF Rebuild, Progress, codecVars, vars
  <2> QED
    BY <2>1, <2>2, <2>3
<1> QED
  BY <1>2, <1>4, <1>5, <1>6

(* The loop changes no item, so what was filled in stays known.            *)
LEMMA DedupStep ==
  ASSUME ConvInv, Deduplicate
  PROVE  ConvInv'
<1> USE DEF ConvInv
<1>1. /\ phase = "dedup" /\ phase' = phase
      /\ UNCHANGED <<body, dedupOn, messages, next, sent>>
      /\ Next
  BY DEF Deduplicate, codecVars, Next
<1>2. DedupInv' /\ CountInv'
  BY <1>1, InvStep, CountStep
<1>3. items' = items
  BY <1>1 DEF Next, Skip, First, Duplicate
<1>4. ConvTypes' /\ NotBegun' /\ FilledSoFar'
  <2>1. \A k \in DOMAIN messages : Filled(k)' <=> Filled(k)
    BY <1>1, <1>3 DEF Filled, FormsOf, IsText, TextOf, KindOf
  <2> QED
    BY <1>1, <2>1 DEF ConvTypes, NotBegun, FilledSoFar
<1>5. Parsed'
  BY <1>1 DEF Parsed, TakesSystem, SystemText, Given, VirtualSystem
<1>6. Progress'
  BY <1>1 DEF Progress
<1> QED
  BY <1>2, <1>4, <1>5, <1>6

LEMMA ConvStep == ConvInv /\ [ConvNext]_convVars => ConvInv'
<1> SUFFICES ASSUME ConvInv, [ConvNext]_convVars PROVE ConvInv'
  OBVIOUS
<1>1. CASE UNCHANGED convVars
  <2>1. UNCHANGED <<vars, body, dedupOn, messages, phase, next, sent>>
    BY <1>1 DEF convVars, codecVars
  <2>2. DedupInv' /\ CountInv' /\ (AllKept' <=> AllKept)
        /\ \A k \in DOMAIN messages : Filled(k)' <=> Filled(k)
    BY <2>1, LoopUntouched DEF ConvInv
  <2>3. ConvTypes' /\ FilledSoFar' /\ NotBegun'
    BY <2>1, <2>2 DEF ConvInv, ConvTypes, FilledSoFar, NotBegun, vars
  <2>4. Parsed'
    BY <2>1 DEF ConvInv, Parsed, TakesSystem, SystemText, Given, VirtualSystem
  <2>5. Rebuilt' = Rebuilt
    BY <2>1 DEF Rebuilt, HasSystem, Written, vars
  <2>6. Progress'
    BY <2>1, <2>2, <2>5 DEF ConvInv, Progress, vars
  <2> QED
    BY <2>2, <2>3, <2>4, <2>6 DEF ConvInv
<1> QED
  BY <1>1, ParseStep, OptimizeStep, EndStep, DedupStep DEF ConvNext

(* What is known of a body on its way, at every step.                      *)
THEOREM ConversationInvariant == ConvSpec => []ConvInv
BY ConvStarts, ConvStep, PTL DEF ConvSpec

(* The deduplication in its place keeps the promises it makes by itself:   *)
(* its state is well typed,                                                *)
THEOREM DedupTypeCorrectInPlace == ConvSpec => []DedupTypeOK
<1>1. ConvInv => DedupTypeOK
  BY DEF ConvInv, DedupInv
<1> QED
  BY <1>1, ConversationInvariant, PTL

(* the loop invariant holds, also before the loop begins and after it,     *)
THEOREM LoopInvariantInPlace == ConvSpec => []LoopInvariant
<1>1. ConvInv => LoopInvariant
  BY DEF ConvInv, DedupInv
<1> QED
  BY <1>1, ConversationInvariant, PTL

(* every marker that is sent points back to a result that is sent in full, *)
THEOREM MarkersPointBackInPlace == ConvSpec => []MarkerPointsBack
<1>1. ConvInv => MarkerPointsBack
  BY DEF ConvInv, DedupInv
<1> QED
  BY <1>1, ConversationInvariant, PTL

(* only tool results are replaced,                                         *)
THEOREM OnlyResultsReplacedInPlace == ConvSpec => []OnlyResultsReplaced
<1>1. ConvInv => OnlyResultsReplaced
  BY DEF ConvInv, DedupInv
<1> QED
  BY <1>1, ConversationInvariant, PTL

(* and the count is that of the results that repeat an earlier one.        *)
THEOREM CountExplainedInPlace == ConvSpec => []CountExplained
<1>1. ConvInv => CountInv
  BY DEF ConvInv
<1> QED
  BY <1>1, CountAtEnd, ConversationInvariant, PTL

(* optimizer.go:554 never meets a block without a text: the assertion to   *)
(* string cannot panic, whatever the body.                                 *)
THEOREM TextsAreFilledIn == ConvSpec => []TextsFilledIn
<1>1. ConvInv => TextsFilledIn
  BY ConversationAssumption
  DEF ConvInv, DedupInv, DedupTypeOK, Item, Content, TextsFilledIn
<1> QED
  BY <1>1, ConversationInvariant, PTL

-----------------------------------------------------------------------------
(* One message of what is sent is that message of what came.               *)
LEMMA MessageCarriedOver ==
  ASSUME ConvInv, phase = "sent", NEW k \in DOMAIN messages, NEW m,
         messages[k].role = m.role, messages[k].form = m.form,
         messages[k].text = m.text, Carries(messages[k].extra, m)
  PROVE  CarriedOver(Written(k), m)
<1>1. /\ Written(k).role = m.role
      /\ Written(k).form = m.form
      /\ Written(k).content = out[k]
  BY DEF Written
<1>2. Filled(k) /\ k \in Positions
  <2>1. k < next
    BY DEF ConvInv, ConvTypes, Progress
  <2>2. k \in 1 .. Len(messages) /\ Len(messages) \in Nat /\ Len(messages) <= N
    BY DEF ConvInv, ConvTypes
  <2> QED
    BY <2>1, <2>2, SlotsExist DEF ConvInv, FilledSoFar, Positions
<1>3. PICK t \in FormsOf(messages[k]) :
        items[k].content = [text |-> t, extra |-> messages[k].extra]
  BY <1>2 DEF Filled
<1>4. CASE Kept(k)
  <2>1. /\ out[k].text = t /\ out[k].extra = messages[k].extra
        /\ out[k] # Marker
    BY <1>2, <1>3, <1>4, MarkerNotKept DEF Kept, ConvInv, DedupInv
  <2>2. t \in IF m.form \in Textual THEN Forms[TextOf(m)] ELSE {m.text}
    BY <1>3 DEF FormsOf, IsText, TextOf
  <2> QED
    BY <1>1, <2>1, <2>2 DEF CarriedOver
<1>5. CASE ~Kept(k)
  <2>1. items[k].kind \in {"tool", "tool_result"} /\ out[k] = Marker
    BY <1>2, <1>5 DEF ConvInv, DedupInv, OnlyResultsReplaced
  <2>2. dedupOn
    BY <1>2, <1>5 DEF ConvInv, Progress, AllKept
  <2>3. IsToolResult(m)
    <3>1. KindOf(messages[k]) \in {"tool", "tool_result"}
      BY <1>2, <2>1 DEF Filled
    <3> QED
      BY <3>1 DEF KindOf, IsToolResult, IsBlockResult
  <2> QED
    BY <1>1, <2>1, <2>2, <2>3 DEF CarriedOver
<1> QED
  BY <1>4, <1>5

LEMMA WhatIsSent ==
  ASSUME ConvInv, phase = "sent"
  PROVE  SentAsGiven
<1> USE DEF ConvInv
<1>1. sent = Rebuilt /\ Len(messages) \in Nat /\ DOMAIN messages = 1 .. Len(messages)
  BY DEF Progress, ConvTypes
<1>2. /\ Len(body.messages) \in Nat
      /\ DOMAIN body.messages = 1 .. Len(body.messages)
  BY BodyTypes DEF ConvTypes
<1>3. CASE TakesSystem
  <2>1. PICK t \in SystemText : messages = <<VirtualSystem(t)>> \o Given
    BY <1>3 DEF Parsed
  <2>2. /\ VirtualSystem(t) \in Message
        /\ VirtualSystem(t).role = "system"
    BY SystemTextsAreTexts, VirtualSystemType
  <2>3. /\ Len(messages) = Len(body.messages) + 1
        /\ messages[1] = VirtualSystem(t)
        /\ \A k \in DOMAIN body.messages : messages[k + 1] = Given[k]
    BY <2>1, <2>2, GivenType
  <2>4. HasSystem /\ ~Overwritten
    BY <1>1, <1>2, <1>3, <2>2, <2>3 DEF HasSystem, Overwritten, TakesSystem
  <2>5. /\ sent.system = Written(1)
        /\ sent.messages = [k \in 1 .. Len(body.messages) |-> Written(k + 1)]
    BY <1>1, <1>2, <2>3, <2>4 DEF Rebuilt
  <2>6. CarriedOver(sent.system, VirtualSystem(t))
    BY <1>1, <1>2, <2>3, <2>5, MessageCarriedOver DEF Carries
  <2>7. ASSUME NEW k \in 1 .. Len(body.messages)
        PROVE  CarriedOver(sent.messages[k], body.messages[k])
    <3>1. k + 1 \in DOMAIN messages
      BY <1>1, <1>2, <2>3
    <3>2. CarriedOver(Written(k + 1), body.messages[k])
      BY <1>2, <2>3, <3>1, GivenType, MessageCarriedOver
    <3> QED
      BY <2>5, <3>2
  <2>8. DOMAIN sent.messages = 1 .. Len(body.messages) /\ Len(sent.messages) = Len(body.messages)
    BY <1>2, <2>5
  <2> QED
    BY <1>2, <1>3, <2>1, <2>4, <2>6, <2>7, <2>8 DEF SentAsGiven
<1>4. CASE ~TakesSystem
  <2>1. messages = Given
    BY <1>4 DEF Parsed
  <2>2. /\ Len(messages) = Len(body.messages)
        /\ \A k \in DOMAIN body.messages : CarriedOver(Written(k), body.messages[k])
    BY <1>1, <1>2, <2>1, GivenType, MessageCarriedOver
  <2>3. HasSystem <=> Overwritten
    <3>1. messages # <<>> <=> body.messages # <<>>
      BY <1>1, <1>2, <2>2, BodyTypes DEF ConvTypes
    <3>2. messages # <<>> => messages[1].role = body.messages[1].role
      <4> SUFFICES ASSUME messages # <<>> PROVE messages[1].role = body.messages[1].role
        OBVIOUS
      <4>1. 1 \in DOMAIN messages
        BY <1>1 DEF ConvTypes
      <4> QED
        BY <1>1, <1>2, <2>1, <2>2, <4>1, GivenType
    <3> QED
      BY <1>4, <3>1, <3>2 DEF HasSystem, Overwritten
  <2>4. CASE Overwritten
    BY <2>4 DEF SentAsGiven
  <2>5. CASE ~Overwritten
    <3>1. /\ sent.system = body.system
          /\ sent.messages = [k \in 1 .. Len(body.messages) |-> Written(k)]
      <4>1. sent = [system   |-> body.system,
                    messages |-> [k \in 1 .. Len(messages) - 0 |-> Written(k + 0)]]
        BY <1>1, <2>3, <2>5 DEF Rebuilt
      <4>2. \A k \in 1 .. Len(messages) : k + 0 = k
        OBVIOUS
      <4> QED
        BY <1>1, <2>2, <4>1, <4>2
    <3>2. /\ DOMAIN sent.messages = 1 .. Len(body.messages)
          /\ Len(sent.messages) = Len(body.messages)
      BY <1>2, <3>1
    <3> QED
      BY <1>2, <1>4, <2>2, <2>5, <3>1, <3>2 DEF SentAsGiven
  <2> QED
    BY <2>4, <2>5
<1> QED
  BY <1>3, <1>4

(* For every body, whatever decoding its numbers makes of them: unless a   *)
(* system message takes the place of the system prompt, what is sent has   *)
(* the messages that came, in their order, each with its role, its form    *)
(* and a text it may be optimized to, or the marker if it was a result.    *)
THEOREM BodyIsSentAsGiven == ConvSpec => []SentAsGiven
<1>1. ConvInv => SentAsGiven
  BY WhatIsSent DEF SentAsGiven
<1> QED
  BY <1>1, ConversationInvariant, PTL

(* The blocks that came with the text t and are sent in full.              *)
InFull(t) ==
  {j \in DOMAIN messages : /\ IsBlockResult(messages[j])
                           /\ TextOf(messages[j]) = t
                           /\ out[j] # Marker}

(* Each has one of the forms of t, which no other has.                     *)
LEMMA FormOfEachInFull ==
  ASSUME ConvInv, phase = "sent", dedupOn, NEW t \in Texts, Empty \notin Forms[t]
  PROVE  /\ \A j \in InFull(t) : items[j].content.text \in Forms[t]
         /\ \A h, j \in InFull(t) :
              items[h].content.text = items[j].content.text => h = j
<1> USE DEF ConvInv
<1>1. \A j \in DOMAIN messages : j \in Positions /\ j < i /\ Filled(j)
  <2>1. /\ DOMAIN messages = 1 .. Len(messages)
        /\ Len(messages) \in Nat /\ Len(messages) <= N
        /\ next = Len(messages) + 1 /\ i = N + 1
    BY DEF ConvTypes, Progress
  <2>2. \A j \in DOMAIN messages : j < next /\ j < i /\ j \in Positions
    BY <2>1, SlotsExist DEF Positions
  <2> QED
    BY <2>2 DEF FilledSoFar
<1>2. \A j \in InFull(t) : /\ items[j].kind = "tool_result"
                            /\ items[j].content.text \in Forms[t]
                            /\ Kept(j)
  <2> SUFFICES ASSUME NEW j \in InFull(t)
               PROVE  /\ items[j].kind = "tool_result"
                      /\ items[j].content.text \in Forms[t]
                      /\ Kept(j)
    OBVIOUS
  <2>1. /\ j \in DOMAIN messages /\ IsBlockResult(messages[j])
        /\ TextOf(messages[j]) = t /\ out[j] # Marker
    BY DEF InFull
  <2>2. KindOf(messages[j]) = "tool_result" /\ FormsOf(messages[j]) = Forms[t]
    BY <2>1 DEF IsBlockResult, KindOf, FormsOf, IsText, Textual
  <2>3. PICK x \in Forms[t] : items[j].content = [text |-> x, extra |-> messages[j].extra]
    BY <1>1, <2>1, <2>2 DEF Filled
  <2>4. Kept(j)
    BY <1>1, <2>1 DEF DedupInv, OnlyResultsReplaced
  <2> QED
    BY <1>1, <2>1, <2>2, <2>3, <2>4 DEF Filled
<1>3. ASSUME NEW h \in InFull(t), NEW j \in InFull(t), h < j,
             items[h].content.text = items[j].content.text
      PROVE  FALSE
  <2>1. h \in Positions /\ j \in Positions /\ j < i
    BY <1>1 DEF InFull
  <2>2. items[j].content.text # Empty
    BY <1>2
  <2>3. ~Kept(j)
    BY <1>2, <1>3, <2>1, <2>2 DEF DedupInv, LoopInvariant
  <2> QED
    BY <1>2, <2>3
<1>4. \A h, j \in InFull(t) : h < j \/ h = j \/ j < h
  <2>1. \A j \in InFull(t) : j \in Nat
    BY <1>1, PositionsAreIntegers DEF InFull
  <2> QED
    BY <2>1
<1> QED
  BY <1>2, <1>3, <1>4

(* Of the blocks with the same text no more are sent in full than the text *)
(* has optimized forms, in bodies of any length.                           *)
THEOREM RepeatsAreBounded == ConvSpec => []RepeatsBoundedByForms
<1>1. ConvInv => RepeatsBoundedByForms
  <2> SUFFICES ASSUME ConvInv, phase = "sent", dedupOn,
                      NEW t \in Texts, Empty \notin Forms[t]
               PROVE  Cardinality(InFull(t)) <= Cardinality(Forms[t])
    BY DEF RepeatsBoundedByForms, InFull
  <2> DEFINE f == [j \in InFull(t) |-> items[j].content.text]
  <2>1. f \in Injection(InFull(t), Forms[t])
    <3>1. /\ \A j \in InFull(t) : items[j].content.text \in Forms[t]
          /\ \A h, j \in InFull(t) :
               items[h].content.text = items[j].content.text => h = j
      BY FormOfEachInFull
    <3> QED
      BY <3>1 DEF Injection, IsInjective
  <2>2. IsFiniteSet(Forms[t])
    BY ConversationAssumption
  <2> HIDE DEF f
  <2> QED
    BY <2>1, <2>2, FS_Injection
<1> QED
  BY <1>1, ConversationInvariant, PTL

-----------------------------------------------------------------------------
(* The length of each text as it came and as it is after optimizeText, and *)
(* the messages whose text optimizeMessage has been through.               *)
Before == [k \in DOMAIN messages |-> Size[TextOf(messages[k])]]
After == [k \in DOMAIN messages |-> Size[items[k].content.text]]
Behind == {k \in DOMAIN messages : k < next /\ messages[k].form \in Textual}

(* The report adds up exactly those.                                       *)
ReportInv ==
  /\ report \in [original : Nat, optimized : Nat, strategies : Nat]
  /\ report.strategies = Cardinality(Behind)
  /\ report.original = Total(Before, Behind)
  /\ report.optimized = Total(After, Behind)

(* What is added up are numbers, finitely many.                            *)
LEMMA ReportTypes ==
  ASSUME ConvTypes, DedupTypeOK
  PROVE  /\ IsFiniteSet(DOMAIN messages)
         /\ DOMAIN messages \subseteq Positions
         /\ Before \in [DOMAIN messages -> Nat]
         /\ After \in [DOMAIN messages -> Nat]
         /\ Behind \subseteq DOMAIN messages
         /\ Texted \subseteq DOMAIN messages
<1>1. /\ DOMAIN messages = 1 .. Len(messages)
      /\ Len(messages) \in Nat /\ Len(messages) <= N
      /\ \A k \in DOMAIN messages : messages[k] \in Message
  BY DEF ConvTypes
<1>2. DOMAIN messages \subseteq Positions
  BY <1>1, SlotsExist DEF Positions
<1>3. \A k \in DOMAIN messages : TextOf(messages[k]) \in Texts
  BY <1>1, FormsOfTexts DEF ConvTypes
<1>4. \A k \in DOMAIN messages : items[k].content.text \in Texts
  BY <1>2 DEF DedupTypeOK, Item, Content
<1>5. \A t \in Texts : Size[t] \in Nat
  BY ConversationAssumption
<1>6. Before \in [DOMAIN messages -> Nat] /\ After \in [DOMAIN messages -> Nat]
  BY <1>3, <1>4, <1>5 DEF Before, After
<1>7. IsFiniteSet(DOMAIN messages)
  BY <1>1, FS_Interval
<1> QED
  BY <1>2, <1>6, <1>7 DEF Behind, Texted

LEMMA ReportStarts == ConvInit => ReportInv
<1> SUFFICES ASSUME ConvInit PROVE ReportInv
  OBVIOUS
<1>1. Behind = {}
  BY DEF ConvInit, Behind
<1>2. IsFiniteSet({}) /\ Cardinality({}) = 0
  BY FS_EmptySet
<1>3. Total(Before, {}) = 0 /\ Total(After, {}) = 0
  BY <1>2, TotalZero
<1> QED
  BY <1>1, <1>2, <1>3 DEF ConvInit, ReportInv

(* Nothing is added where neither the report nor what it counts changes.   *)
LEMMA ReportKept ==
  ASSUME ReportInv, UNCHANGED report, Behind' = Behind,
         \A k \in Behind : Before'[k] = Before[k],
         \A k \in Behind : After'[k] = After[k],
         ConvTypes, DedupTypeOK
  PROVE  ReportInv'
<1>1. /\ IsFiniteSet(Behind)
      /\ \A k \in Behind : Before[k] \in Int
      /\ \A k \in Behind : After[k] \in Int
  BY ReportTypes, FS_Subset
<1>2. Total(Before', Behind) = Total(Before, Behind)
  BY <1>1, TotalSame
<1>3. Total(After', Behind) = Total(After, Behind)
  BY <1>1, TotalSame
<1> QED
  BY <1>2, <1>3 DEF ReportInv

(* optimizeMessage adds the text it has been through.                      *)
LEMMA ReportGrows ==
  ASSUME ReportInv, ConvInv, OptimizeMessage
  PROVE  ReportInv'
<1> USE DEF ConvInv
<1>1. PICK new \in Forms[TextOf(messages[next])] :
        Fill(new) /\ report' = Merged(TextOf(messages[next]), new)
  BY DEF OptimizeMessage
<1> DEFINE old == TextOf(messages[next])
<1>2. /\ next \in DOMAIN messages /\ next \in Nat /\ messages[next].form \in Textual
      /\ UNCHANGED messages /\ next' = next + 1
      /\ items' = [items EXCEPT ![next] =
           [kind |-> KindOf(messages[next]),
            content |-> [text |-> new, extra |-> messages[next].extra]]]
  <2>1. next \in DOMAIN messages /\ next \in Nat /\ messages[next].form \in Textual
    BY DEF OptimizeMessage, Optimizing, IsText, ConvTypes
  <2> QED
    BY <1>1, <2>1 DEF Fill, codecVars
<1>3. /\ IsFiniteSet(DOMAIN messages)
      /\ DOMAIN messages \subseteq Positions
      /\ Before \in [DOMAIN messages -> Nat]
      /\ After \in [DOMAIN messages -> Nat]
      /\ Behind \subseteq DOMAIN messages
  BY ReportTypes DEF DedupInv
<1>4. /\ next \notin Behind /\ Behind' = Behind \cup {next}
      /\ IsFiniteSet(Behind)
  <2>1. \A k \in DOMAIN messages : k \in Nat
    BY DEF ConvTypes
  <2> QED
    BY <1>2, <1>3, <2>1, FS_Subset DEF Behind
<1>5. Before' = Before
  BY <1>2 DEF Before, TextOf
<1>6. After'[next] = Size[new] /\ \A k \in DOMAIN messages \ {next} : After'[k] = After[k]
  <2>1. \A k \in DOMAIN messages :
          items'[k] = IF k = next THEN [kind |-> KindOf(messages[next]),
                                        content |-> [text |-> new, extra |-> messages[next].extra]]
                                  ELSE items[k]
    BY <1>2, <1>3 DEF DedupInv, DedupTypeOK
  <2>2. \A k \in DOMAIN messages : After'[k] = Size[items'[k].content.text]
    BY <1>2 DEF After
  <2>3. \A k \in DOMAIN messages : After[k] = Size[items[k].content.text]
    BY DEF After
  <2>4. items'[next].content.text = new
    BY <1>2, <2>1
  <2>5. \A k \in DOMAIN messages \ {next} : items'[k] = items[k]
    BY <2>1
  <2> HIDE DEF After
  <2> QED
    BY <1>2, <2>2, <2>3, <2>4, <2>5
<1>7. Size[old] \in Nat /\ Size[new] \in Nat
  <2>1. old \in Texts /\ Forms[old] \subseteq Texts
    BY <1>2, FormsOfTexts, ConversationAssumption DEF ConvTypes
  <2> QED
    BY <1>1, <2>1, ConversationAssumption
<1>8. Cardinality(Behind') = Cardinality(Behind) + 1
  BY <1>4, FS_AddElement
<1>9. Total(Before, Behind') = Size[old] + Total(Before, Behind)
  <2>1. \A k \in Behind \cup {next} : Before[k] \in Int
    BY <1>2, <1>3
  <2>2. Before[next] = Size[old]
    BY <1>2 DEF Before
  <2> QED
    BY <1>4, <2>1, <2>2, TotalAdd
<1>10. Total(After', Behind') = Size[new] + Total(After, Behind)
  <2>1. \A k \in Behind : After'[k] = After[k] /\ After[k] \in Int
    BY <1>2, <1>3, <1>4, <1>6
  <2>2. \A k \in Behind \cup {next} : After'[k] \in Int
    BY <1>6, <1>7, <2>1
  <2>3. Total(After', Behind \cup {next}) = After'[next] + Total(After', Behind)
    BY <1>4, <2>2, TotalAdd
  <2>4. Total(After', Behind) = Total(After, Behind)
    BY <1>4, <2>1, TotalSame
  <2> QED
    BY <1>4, <1>6, <2>3, <2>4
<1>11. /\ report'.strategies = report.strategies + 1
       /\ report'.original = report.original + Size[old]
       /\ report'.optimized = report.optimized + Size[new]
       /\ report' \in [original : Nat, optimized : Nat, strategies : Nat]
  BY <1>1, <1>7 DEF ReportInv, Merged
<1> HIDE DEF old
<1> QED
  BY <1>5, <1>7, <1>8, <1>9, <1>10, <1>11 DEF ReportInv

LEMMA ReportStep ==
  ASSUME ReportInv, ConvInv, [ConvNext]_convVars
  PROVE  ReportInv'
<1> USE DEF ConvInv
<1>1. CASE OptimizeMessage
  BY <1>1, ReportGrows
<1>2. CASE LeaveMessage
  <2>1. /\ next \in DOMAIN messages /\ next \in Nat /\ messages[next].form \notin Textual
        /\ UNCHANGED <<messages, report>> /\ next' = next + 1
        /\ \A k \in DOMAIN messages \ {next} : items'[k] = items[k]
    <3>1. DOMAIN messages \subseteq Positions
      BY ReportTypes DEF DedupInv
    <3> QED
      BY <1>2, <3>1 DEF LeaveMessage, Optimizing, IsText, Fill, codecVars, ConvTypes,
                        DedupInv, DedupTypeOK
  <2>2. Behind' = Behind
    <3>1. \A k \in DOMAIN messages : k \in Nat
      BY DEF ConvTypes
    <3> QED
      BY <2>1, <3>1 DEF Behind
  <2>3. Before' = Before
    BY <2>1 DEF Before, TextOf
  <2>4. \A k \in Behind : After'[k] = After[k]
    BY <2>1 DEF After, Behind
  <2> QED
    BY <2>1, <2>2, <2>3, <2>4, ReportKept DEF DedupInv
<1>3. CASE Parse
  <2>1. next = 1 /\ UNCHANGED <<next, report>> /\ messages = <<>>
    BY <1>3 DEF Parse, Progress
  <2>2. messages' \in Seq(Message)
    BY <1>3, ParseStep DEF ConvTypes
  <2>3. Behind = {} /\ Behind' = {}
    BY <2>1, <2>2 DEF Behind
  <2> QED
    BY <2>1, <2>3, ReportKept DEF DedupInv
<1>4. CASE EndOptimize \/ Deduplicate \/ EndDedup \/ Rebuild \/ UNCHANGED convVars
  <2>1. UNCHANGED <<messages, next, report, items>>
    BY <1>4 DEF EndOptimize, Deduplicate, EndDedup, Rebuild, convVars, codecVars, vars,
                Skip, First, Duplicate
  <2>2. Behind' = Behind /\ Before' = Before /\ After' = After
    BY <2>1 DEF Behind, Before, After, TextOf
  <2> QED
    BY <2>1, <2>2, ReportKept DEF DedupInv
<1> QED
  BY <1>1, <1>2, <1>3, <1>4 DEF ConvNext

(* When the body is sent, replacing results changes the lengths added up.  *)
LEMMA ReportAtEnd == ConvInv /\ ReportInv => ReportBeforeDedup
<1> SUFFICES ASSUME ConvInv, ReportInv, phase = "sent"
             PROVE  ReportBeforeDedup
  BY DEF ReportBeforeDedup
<1> USE DEF ConvInv
<1>1. Behind = Texted
  BY DEF Behind, Texted, Progress, ConvTypes
<1>2. /\ DOMAIN messages \subseteq Positions
      /\ Before \in [DOMAIN messages -> Nat]
      /\ After \in [DOMAIN messages -> Nat]
      /\ Texted \subseteq DOMAIN messages
      /\ IsFiniteSet(Texted)
  BY ReportTypes, FS_Subset DEF DedupInv
<1>3. Replacements \subseteq Texted
  <2> SUFFICES ASSUME NEW k \in DOMAIN messages, out[k] = Marker
               PROVE  messages[k].form \in Textual
    BY DEF Replacements, Texted
  <2>1. k \in Positions
    BY <1>2
  <2>2. ~Kept(k)
    BY <2>1, MarkerNotKept DEF DedupInv
  <2>3. items[k].kind \in {"tool", "tool_result"}
    BY <2>1, <2>2 DEF DedupInv, OnlyResultsReplaced
  <2>4. Filled(k)
    BY DEF FilledSoFar, Progress, ConvTypes
  <2> QED
    BY <2>3, <2>4 DEF Filled, KindOf, Textual
<1>4. ASSUME NEW k \in Texted
      PROVE  out[k] # Marker => out[k].text = items[k].content.text
  <2>1. k \in Positions
    BY <1>2
  <2>2. out[k] # Marker => Kept(k)
    BY <2>1 DEF DedupInv, OnlyResultsReplaced
  <2> QED
    BY <2>2 DEF Kept
<1> DEFINE c == Size[Marker]
           f == [k \in Texted |-> After[k]]
           g == [k \in Texted |-> IF k \in Replacements THEN c ELSE f[k]]
           G == [k \in Texted |-> IF out[k] = Marker THEN c ELSE Size[out[k].text]]
           F == [k \in Replacements |-> Size[items[k].content.text]]
           B == [k \in Texted |-> Size[TextOf(messages[k])]]
<1>5. c \in Int /\ f \in [Texted -> Int]
  BY <1>2, ConversationAssumption
<1>6. G = g
  BY <1>2, <1>4 DEF Replacements, After
<1>7. Total(g, Texted) + Total(f, Replacements)
        = Total(f, Texted) + Cardinality(Replacements) * c
  <2> HIDE DEF f, c
  <2> QED
    BY <1>2, <1>3, <1>5, TotalReplaced
<1>8. Total(f, Texted) = Total(After, Texted)
  <2>1. \A k \in Texted : After[k] \in Int /\ f[k] = After[k]
    BY <1>2
  <2> HIDE DEF f
  <2> QED
    BY <1>2, <2>1, TotalSame
<1>9. Total(F, Replacements) = Total(f, Replacements)
  <2>1. IsFiniteSet(Replacements)
    BY <1>2, <1>3, FS_Subset
  <2>2. \A k \in Replacements : f[k] \in Int /\ F[k] = f[k]
    BY <1>2, <1>3 DEF After
  <2> HIDE DEF f, F
  <2> QED
    BY <2>1, <2>2, TotalSame
<1>10. Total(B, Texted) = Total(Before, Texted)
  <2>1. \A k \in Texted : Before[k] \in Int /\ B[k] = Before[k]
    BY <1>2 DEF Before
  <2> HIDE DEF B
  <2> QED
    BY <1>2, <2>1, TotalSame
<1>11. /\ MapThenSumSet(LAMBDA k : Size[TextOf(messages[k])], Texted) = Total(B, Texted)
       /\ MapThenSumSet(LAMBDA k : IF out[k] = Marker THEN Size[Marker] ELSE Size[out[k].text],
                        Texted) = Total(G, Texted)
       /\ MapThenSumSet(LAMBDA k : Size[items[k].content.text], Replacements)
            = Total(F, Replacements)
  BY ZenonT(60) DEF Total, MapThenSumSet, MapThenFoldSet
<1>12. report.optimized + Cardinality(Replacements) * c = Total(G, Texted) + Total(F, Replacements)
  <2> HIDE DEF c, f, g, G, F
  <2> QED
    BY <1>1, <1>6, <1>7, <1>8, <1>9 DEF ReportInv
<1>13. /\ report.strategies = Cardinality(Texted)
       /\ report.original = Total(B, Texted)
  <2> HIDE DEF B
  <2> QED
    BY <1>1, <1>10 DEF ReportInv
<1> QED
  BY <1>11, <1>12, <1>13 DEF ReportBeforeDedup

(* For every body: the report adds up the texts before and after           *)
(* optimizeText, and is off by exactly the results replaced afterwards.    *)
THEOREM ReportIsOfBeforeDedup == ConvSpec => []ReportBeforeDedup
<1>1. ConvSpec => [](ConvInv /\ ReportInv)
  BY ConvStarts, ConvStep, ReportStarts, ReportStep, PTL DEF ConvSpec
<1> QED
  BY <1>1, ReportAtEnd, PTL

=============================================================================
