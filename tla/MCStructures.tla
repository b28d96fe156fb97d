---------------------------- MODULE MCStructures ----------------------------
(***************************************************************************)
(* Model checking of Structures on a small instance.                       *)
(***************************************************************************)
EXTENDS Structures

MCHash == [k \in MapKeys |-> k % 2]

\* Two matrices, one square; a call that reads a triangle of one and writes
\* the other, and one the other way round; a mapping by columns and a forced
\* two-dimensional one.
MCBlasCalls ==
    {[kernel |-> "trsm", in |-> "S", inuplo |-> "lower", out |-> "R", outuplo |-> "all"],
     [kernel |-> "syrk", in |-> "R", inuplo |-> "all", out |-> "S", outuplo |-> "upper"]}
MCMapCalls ==
    {[how |-> "col", b |-> 1, p |-> 2, q |-> 0, force |-> FALSE],
     [how |-> "2D", b |-> 1, p |-> 2, q |-> 2, force |-> TRUE]}
MCDim == [R |-> [m |-> 2000, n |-> 3000], S |-> [m |-> 2000, n |-> 2000]]
=============================================================================
