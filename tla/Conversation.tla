---------------------------- MODULE Conversation ----------------------------
(***************************************************************************)
(* A request body on its way through the gateway: parseRequest and         *)
(* rebuildRequest of internal/proxy/proxy.go around OptimizeMessages of    *)
(* internal/optimizer/optimizer.go, with the deduplication of ToolDedup in *)
(* the middle.                                                             *)
(*                                                                         *)
(* A provider other than Anthropic has no special case in this code: all   *)
(* of them are "openai" here.                                              *)
(*                                                                         *)
(* The blocks of a message are dealt with one after the other by every     *)
(* loop of this code, so a message has one content item here and further   *)
(* blocks are further messages of the same role.  What optimizeText makes  *)
(* of a text (TextOptimizer) is one of the texts of Forms: one, or several *)
(* where the order of a Go map shows.                                      *)
(***************************************************************************)
EXTENDS ToolDedup, Sequences, FiniteSetsExt

CONSTANTS
  Bodies,    \* the request bodies
  Forms,     \* the texts a text may be optimized to
  Size,      \* the length of each text, and of Marker
  Missing,   \* the text of a text block that has none
  Fields,    \* what a message has besides role and content
  NoFields,  \* a message with role and content only
  Reencoded, \* what decoding and encoding makes of the extras of a content
  NoBody     \* nothing has been sent

(* The forms of content that have a text to optimize. *)
Textual == {"string", "text", "result", "result_blocks"}

Message == [role : {"system", "user", "assistant", "tool"}, form : Textual \cup {"other"},
            text : Texts \cup {Missing}, extra : Extras, fields : Fields]

System == [form : {"string", "null", "blocks", "absent"}, text : Texts]

(* Only a block may lack its text.  The virtual system message takes one   *)
(* of the N slots.                                                         *)
ASSUME ConversationAssumption ==
  /\ Forms \in [Texts -> (SUBSET Texts) \ {{}}]
  /\ Forms[Empty] = {Empty}
  /\ \A t \in Texts : IsFiniteSet(Forms[t])
  /\ Size \in [Texts \cup {Marker} -> Nat]
  /\ Missing \notin Texts
  /\ NoFields \in Fields \cap Extras
  /\ Reencoded \in [Extras -> Extras]
  /\ \A b \in Bodies :
       /\ b \in [provider : {"anthropic", "openai"}, system : System, messages : Seq(Message)]
       /\ Len(b.messages) < N
       /\ \A k \in DOMAIN b.messages :
            b.messages[k].text = Missing => b.messages[k].form \in {"text", "result_blocks"}

VARIABLES
  body,       \* the body as it came
  dedupOn,    \* deduplicate_tool_results
  phase,      \* "parse", "optimize", "dedup", "rebuild" or "sent"
  messages,   \* what parseRequest made of the body
  next,       \* the message optimizeMessage has next
  report,     \* the totals and the number of strategies reported
  sent        \* the body that is forwarded

codecVars == <<body, dedupOn, messages>>
convVars == <<vars, codecVars, phase, next, report, sent>>

(* The slots of ToolDedup are blank until a message fills them. *)
BlankItem == [kind |-> "other", content |-> [text |-> Empty, extra |-> NoFields]]

ConvInit ==
  /\ body \in Bodies
  /\ dedupOn \in BOOLEAN
  /\ phase = "parse"
  /\ messages = <<>>
  /\ next = 1
  /\ report = [original |-> 0, optimized |-> 0, strategies |-> 0]
  /\ sent = NoBody
  /\ items = [j \in Positions |-> BlankItem]
  /\ i = 1
  /\ seen = {}
  /\ out = [j \in Positions |-> BlankItem.content]
  /\ deduped = 0

-----------------------------------------------------------------------------
(* Mutants of the definitions that follow, one plausible bug each. *)

MutIsText(m) == m.form \in Textual /\ m.text # Missing
MutKindOf(m) ==
  CASE m.role = "tool" /\ m.form = "string" -> "tool"
    [] m.role = "user" /\ m.form = "result" -> "tool_result"
    [] OTHER -> "other"
MutHasSystem == body.provider = "anthropic" /\ body.system.form = "string"
MutMerged(old, new) ==
  [report EXCEPT !.original = @ + Size[old], !.strategies = @ + 1,
                 !.optimized = IF new = old THEN @ ELSE @ + Size[new]]

-----------------------------------------------------------------------------
(* json.Unmarshal into a string takes a string, and null as the empty one. *)
SystemText ==
  CASE body.system.form = "string" -> {body.system.text}
    [] body.system.form = "null"   -> {Empty}
    [] OTHER                       -> {}

VirtualSystem(t) ==
  [role |-> "system", form |-> "string", text |-> t, extra |-> NoFields, fields |-> NoFields]

(* A Message has a role and a content: the other fields are not read.  The *)
(* content is decoded into an interface{}, its numbers into float64, which *)
(* is what rebuildRequest encodes again: an integer above 2^53 is rounded. *)
Decoded(m) == [m EXCEPT !.fields = NoFields, !.extra = Reencoded[@]]

Given == [k \in DOMAIN body.messages |-> Decoded(body.messages[k])]

TakesSystem == body.provider = "anthropic" /\ SystemText # {}

Parse ==
  /\ phase = "parse"
  /\ \/ TakesSystem /\ \E t \in SystemText : messages' = <<VirtualSystem(t)>> \o Given
     \/ ~TakesSystem /\ messages' = Given
  /\ phase' = "optimize"
  /\ UNCHANGED <<vars, body, dedupOn, next, report, sent>>

(* A text block without text reads as the empty string. *)
TextOf(m) == IF m.text = Missing THEN Empty ELSE m.text

(* A string, or a text or tool_result block with text; the rest is left. *)
IsText(m) == m.form \in Textual

(* What deduplicateToolResults takes a message for. *)
KindOf(m) ==
  CASE m.role = "tool" /\ m.form = "string"                       -> "tool"
    [] m.role = "user" /\ m.form \in {"result", "result_blocks"} -> "tool_result"
    [] OTHER                                                      -> "other"

Merged(old, new) ==
  [original   |-> report.original + Size[old],
   optimized  |-> report.optimized + Size[new],
   strategies |-> report.strategies + 1]

(* optimizeMessage; a block's map is changed where it is, and the next     *)
(* pass sees it changed.                                                   *)
Fill(t) ==
  LET m == messages[next]
      c == [text |-> t, extra |-> m.extra]
  IN /\ items' = [items EXCEPT ![next] = [kind |-> KindOf(m), content |-> c]]
     /\ out' = [out EXCEPT ![next] = c]
     /\ next' = next + 1
     /\ UNCHANGED <<i, seen, deduped, codecVars, phase, sent>>

Optimizing == phase = "optimize" /\ next \in DOMAIN messages

OptimizeMessage ==
  /\ Optimizing
  /\ IsText(messages[next])
  /\ LET old == TextOf(messages[next])
     IN \E new \in Forms[old] : Fill(new) /\ report' = Merged(old, new)

LeaveMessage ==
  /\ Optimizing
  /\ ~IsText(messages[next])
  /\ Fill(messages[next].text)
  /\ UNCHANGED report

EndOptimize ==
  /\ phase = "optimize" /\ ~Optimizing
  /\ phase' = IF dedupOn THEN "dedup" ELSE "rebuild"
  /\ UNCHANGED <<vars, codecVars, next, report, sent>>

Deduplicate ==
  /\ phase = "dedup"
  /\ Skip \/ First \/ Duplicate
  /\ UNCHANGED <<codecVars, phase, next, report, sent>>

EndDedup ==
  /\ phase = "dedup" /\ ~Looking
  /\ phase' = "rebuild"
  /\ UNCHANGED <<vars, codecVars, next, report, sent>>

(* Any leading system message of an Anthropic body is taken for the one    *)
(* that parseRequest put there.                                            *)
HasSystem ==
  body.provider = "anthropic" /\ messages # <<>> /\ messages[1].role = "system"

Written(k) == [role |-> messages[k].role, form |-> messages[k].form,
               content |-> out[k], fields |-> messages[k].fields]

Rebuilt ==
  LET system == IF HasSystem THEN 1 ELSE 0
  IN [system   |-> IF HasSystem THEN Written(1) ELSE body.system,
      messages |-> [k \in 1 .. Len(messages) - system |-> Written(k + system)]]

Rebuild ==
  /\ phase = "rebuild"
  /\ sent' = Rebuilt
  /\ phase' = "sent"
  /\ UNCHANGED <<vars, codecVars, next, report>>

ConvNext ==
  \/ Parse
  \/ OptimizeMessage \/ LeaveMessage \/ EndOptimize
  \/ Deduplicate \/ EndDedup
  \/ Rebuild

ConvSpec == ConvInit /\ [][ConvNext]_convVars

-----------------------------------------------------------------------------
(* Properties *)

IsBlockResult(m) == m.role = "user" /\ m.form \in {"result", "result_blocks"}

(* optimizer.go:554 asserts that every inner text block has a string: no   *)
(* tool result reaches the deduplication without a text, because           *)
(* optimizeMessage has put one there.                                      *)
TextsFilledIn ==
  phase = "dedup" =>
    \A j \in Positions : items[j].kind = "tool_result" => items[j].content.text # Missing

(* The system prompt of an Anthropic body is overwritten by a leading      *)
(* system message when it is not a string itself.                          *)
Overwritten ==
  /\ body.provider = "anthropic" /\ ~TakesSystem
  /\ body.messages # <<>> /\ body.messages[1].role = "system"

(* What m carries besides text, exact or as float64 holds its numbers. *)
Carries(extra, m) == extra = m.extra \/ extra = Reencoded[m.extra]

IsToolResult(m) == IsBlockResult(m) \/ (m.role = "tool" /\ m.form = "string")

CarriedOver(s, m) ==
  /\ s.role = m.role /\ s.form = m.form
  /\ \/ dedupOn /\ IsToolResult(m) /\ s.content = Marker
     \/ /\ s.content # Marker
        /\ Carries(s.content.extra, m)
        /\ s.content.text \in IF m.form \in Textual THEN Forms[TextOf(m)] ELSE {m.text}

(* Unless the system prompt is lost (Transparent is about that), what      *)
(* is sent has the messages of the body in their order and no other, each  *)
(* with its role, its form and one of the texts it may be optimized to, or *)
(* the marker if it was a tool result; and the virtual system message goes *)
(* back to where it came from, and nothing else does.  Of the numbers in a *)
(* content, and of the fields beside it, Transparent says more.            *)
SentAsGiven ==
  phase = "sent" /\ ~Overwritten =>
    /\ Len(sent.messages) = Len(body.messages)
    /\ \A k \in DOMAIN sent.messages : CarriedOver(sent.messages[k], body.messages[k])
    /\ IF TakesSystem THEN \E t \in SystemText : CarriedOver(sent.system, VirtualSystem(t))
                      ELSE sent.system = body.system

(* A system prompt that the optimizer does not read, an array of blocks,   *)
(* is sent as it came.                                                     *)
SystemPromptKept == body.system.form = "blocks" => sent.system = body.system

(* How far the messages move when the first is sent as the system prompt. *)
Shift == Len(body.messages) - Len(sent.messages)

(* What a content carries besides text, the input of a tool call for one,  *)
(* is sent as it came.                                                     *)
NumbersKept ==
  \A k \in DOMAIN sent.messages :
    sent.messages[k].content # Marker =>
      sent.messages[k].content.extra = body.messages[k + Shift].extra

(* A message is sent with what it had besides role and content. *)
FieldsKept ==
  \A k \in DOMAIN sent.messages : sent.messages[k].fields = body.messages[k + Shift].fields

(* README.md:9, "completely transparent to the agent": apart from the      *)
(* texts it optimizes the gateway sends what it was given.  (It does not.  *)
(* Any leading system message replaces a system prompt of blocks; integers *)
(* that a float64 does not hold are rounded; a message loses every field   *)
(* but role and content, as a "tool" message does its tool_call_id.)       *)
Transparent == phase = "sent" => SystemPromptKept /\ NumbersKept /\ FieldsKept

Replacements == {k \in DOMAIN messages : out[k] = Marker}
Texted == {k \in DOMAIN messages : messages[k].form \in Textual}

(* optimizer.go:76, the report "tracks what the optimizer did across all   *)
(* messages": it adds up the texts before and after optimizeText, with one *)
(* strategy for each, and is off by exactly the tool results replaced      *)
(* afterwards, each of them counted at its own length and not the marker's.*)
ReportBeforeDedup ==
  phase = "sent" =>
    /\ report.strategies = Cardinality(Texted)
    /\ report.original = MapThenSumSet(LAMBDA k : Size[TextOf(messages[k])], Texted)
    /\ report.optimized + Cardinality(Replacements) * Size[Marker] =
         MapThenSumSet(LAMBDA k : IF out[k] = Marker THEN Size[Marker] ELSE Size[out[k].text], Texted)
           + MapThenSumSet(LAMBDA k : Size[items[k].content.text], Replacements)

(* README.md:37, "Replaces repeated tool results": of the blocks that came *)
(* with the same text at most as many are sent in full as that text has    *)
(* optimized forms, so that all repeats are replaced if it has only one.   *)
(* (With several, which the order of a Go map makes, a repeat may go       *)
(* unnoticed, but only until each form has been seen.)                     *)
RepeatsBoundedByForms ==
  phase = "sent" /\ dedupOn =>
    \A t \in Texts :
      Empty \notin Forms[t] =>
        Cardinality({j \in DOMAIN messages :
                       /\ IsBlockResult(messages[j])
                       /\ TextOf(messages[j]) = t
                       /\ out[j] # Marker}) <= Cardinality(Forms[t])

=============================================================================
