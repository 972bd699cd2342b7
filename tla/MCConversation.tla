--------------------------- MODULE MCConversation ---------------------------
(* Bodies of up to three messages of many kinds, with and without a system *)
(* prompt, and of four tool results; texts of which one is blank and one   *)
(* has two optimized forms; and a number that float64 does not hold.       *)
EXTENDS Conversation, TLC

CONSTANTS empty, blank, ta, tb, tc, none, image, big, rounded, calls, marker, missing, nobody

MCTexts == {empty, blank, ta, tb, tc}
MCExtras == {none, image, big, rounded}
MCFields == {none, calls}
MCReencoded == [e \in MCExtras |-> IF e = big THEN rounded ELSE e]
MCForms ==
  (empty :> {empty}) @@ (blank :> {empty}) @@ (ta :> {ta}) @@ (tb :> {tb, tc}) @@ (tc :> {tc})
MCSize ==
  (empty :> 0) @@ (blank :> 1) @@ (ta :> 1) @@ (tb :> 5) @@ (tc :> 3) @@ (marker :> 2)

M(r, f, t, e, fields) == [role |-> r, form |-> f, text |-> t, extra |-> e, fields |-> fields]

MCResults ==
  {M("user", "result", t, none, none) : t \in {blank, ta, tb}}
    \cup {M("user", "result_blocks", t, e, none) : t \in {ta, missing}, e \in {image}}
    \cup {M("tool", "string", t, none, calls) : t \in {ta, empty}}

MCMessages ==
  MCResults
    \cup {M("user", "string", ta, none, none), M("user", "text", missing, none, none),
          M("assistant", "other", empty, big, calls), M("assistant", "result", ta, none, none),
          M("system", "string", tb, none, none)}

MCSystems ==
  {[form |-> "absent", text |-> empty], [form |-> "null", text |-> empty],
   [form |-> "string", text |-> tb], [form |-> "blocks", text |-> ta]}

UpTo(n, S) == UNION {[1 .. k -> S] : k \in 0 .. n}

MCBodies ==
  [provider : {"anthropic"}, system : MCSystems, messages : UpTo(3, MCMessages)]
    \cup [provider : {"openai"}, system : {[form |-> "absent", text |-> empty]},
          messages : [1 .. 3 -> MCMessages] \cup [1 .. 4 -> MCResults]]

(* A conversation with OpenAI tool calls. *)
MCToolBodies ==
  [provider : {"openai"}, system : {[form |-> "absent", text |-> empty]},
   messages : UpTo(2, {M("user", "string", ta, none, none), M("tool", "string", tb, none, calls),
                       M("assistant", "other", empty, none, calls)})]

(* A system prompt of blocks, a leading system message, and a tool call    *)
(* with a number that float64 does not hold, in a message of more fields.  *)
MCOpaqueBodies ==
  [provider : {"anthropic"}, system : {[form |-> "blocks", text |-> ta]},
   messages : {<<M("system", "string", tb, none, none),
                 M("assistant", "other", empty, big, calls)>>}]

=============================================================================
