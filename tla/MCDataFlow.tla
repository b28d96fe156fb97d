----------------------------- MODULE MCDataFlow -----------------------------
(* Model checking of DataFlow.                                             *)
EXTENDS DataFlowInv, TLC

Symmetry == Permutations(Tasks) \cup Permutations(Handles) \cup Permutations(Devices)
=============================================================================
