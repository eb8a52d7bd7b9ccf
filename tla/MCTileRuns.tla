------------------------------ MODULE MCTileRuns ------------------------------
(* Small instances of a tile's runs for TLC.                               *)
EXTENDS TileRuns, TLC

CONSTANTS c1, c2, d1

(* Callers are interchangeable; the run has no liveness property.          *)
CallerSymmetry == Permutations({c1, c2})

=============================================================================
