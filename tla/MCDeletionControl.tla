------------------------- MODULE MCDeletionControl --------------------------
(* Instances of DeletionControl for TLC. *)
EXTENDS DeletionControl

CONSTANTS r1, r2, w1, w2
=============================================================================
