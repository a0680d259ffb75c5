----------------------------- MODULE MCResources -----------------------------
(* Instances of SFResources for TLC: as many connections as tasks that would *)
(* deadlock if they all nested.                                              *)
EXTENDS SFResources
=============================================================================
