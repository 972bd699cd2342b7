------------------------- MODULE MCMetricsCollector -------------------------
(* The collector on its own: three goroutines recording for two agents. *)
EXTENDS MetricsCollector, TLC

CONSTANTS c1, c2, c3, a1, a2, p1, none, nocall

MCCallers == {c1, c2, c3}
MCAgents == {a1, a2}
MCProviders == {p1}
MCTokenPairs == {[original |-> 2, optimized |-> 1], [original |-> 1, optimized |-> 2]}
MCSymmetry == Permutations(MCCallers) \cup Permutations(MCAgents)

=============================================================================
