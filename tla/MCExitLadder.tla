---------------------------- MODULE MCExitLadder ----------------------------
(* Small instances of the exit ladder for TLC.                             *)
EXTENDS ExitLadder

=============================================================================
