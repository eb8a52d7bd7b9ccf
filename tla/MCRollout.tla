------------------------------ MODULE MCRollout ------------------------------
(* Small instances of one tile's rollout for TLC.                          *)
EXTENDS Rollout
=============================================================================
