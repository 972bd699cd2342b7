---------------------------- MODULE MCLifecycle ----------------------------
(* The process with three requests. *)
EXTENDS Lifecycle, TLC

CONSTANTS q1, q2, q3

MCRequests == {q1, q2, q3}
MCSymmetry == Permutations(MCRequests)

=============================================================================
