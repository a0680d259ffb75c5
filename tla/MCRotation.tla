----------------------------- MODULE MCRotation -----------------------------
(* Instances of SFRotation for TLC: more records than a round has room for. *)
EXTENDS SFRotation
=============================================================================
