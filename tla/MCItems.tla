------------------------------- MODULE MCItems -------------------------------
(* Instances of SFItems for TLC: every bill has all the materials. *)
EXTENDS SFItems

AllLines == [b \in Bills |-> Skus]
=============================================================================
