------------------------------ MODULE MCEnvMove ------------------------------
(* Small instances of an environment's moves for TLC.                      *)
EXTENDS EnvMove, TLC

CONSTANTS n1, n2, t1, t2

TileSymmetry == Permutations(Tiles)

(* The states past a race are checked and not expanded: every property but *)
(* the type invariant leaves them out.                                     *)
NotRaced == ~raced

=============================================================================
