--------------------------- MODULE MCInterception ---------------------------
(* Instances of SFInterception for TLC. *)
EXTENDS SFInterception, TLC

Symmetry == Permutations(Workers) \cup Permutations(Callers)
=============================================================================
