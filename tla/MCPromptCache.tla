--------------------------- MODULE MCPromptCache ---------------------------
(* The prompt cache on its own: two handlers, two keys, one response and two lifetimes. *)
EXTENDS PromptCache, TLC

CONSTANTS c1, c2, k1, k2, r1, none, nokey

MCKeys == {k1, k2}
MCCallers == {c1, c2}
MCResponses == {r1}
MCCallTTLs == {0, 2}
MCConfigs == {[enabled |-> TRUE, backend |-> "memory"],
              [enabled |-> TRUE, backend |-> "redis"],
              [enabled |-> FALSE, backend |-> ""]}
MCSymmetry == Permutations(MCKeys) \cup Permutations(MCCallers)

=============================================================================
