---------------------------- MODULE MCMeshRotate ----------------------------
(* Small instances of the key rotation for TLC.                            *)
EXTENDS MeshRotate

CONSTANTS w1, w2

=============================================================================
