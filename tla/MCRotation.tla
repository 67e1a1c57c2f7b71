----------------------------- MODULE MCRotation -----------------------------
(* The instance of Rotation: two operators, two candidates.                *)
EXTENDS Rotation
=============================================================================
