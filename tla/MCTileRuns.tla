----------------------------- MODULE MCTileRuns -----------------------------
(* TileRuns by itself, for single calls.                                      *)
EXTENDS TileRuns, TileCalls

=============================================================================
