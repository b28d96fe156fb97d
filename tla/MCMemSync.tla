----------------------------- MODULE MCMemSync ------------------------------
(***************************************************************************)
(* Model-checking instances of MemSync.                                    *)
(***************************************************************************)
EXTENDS MemSyncInv, TLC

\* The tiles play the same part.
TileSymmetry == Permutations(Tiles)

=============================================================================
