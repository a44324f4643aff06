------------------------- MODULE MCOptimizationGate -------------------------
(***************************************************************************)
(* Instances of OptimizationGate for TLC: two requests per window.         *)
(***************************************************************************)
EXTENDS OptimizationGate, TLC

CONSTANTS m1, m2, m3, m4

RequestSymmetry == Permutations(Requests)
=============================================================================
