---------------------------- MODULE MCCARollover ----------------------------
(* Small instances of the root rollover for TLC.                           *)
EXTENDS CARollover

CONSTANTS w1, w2

=============================================================================
