----------------------------- MODULE MCOutstock -----------------------------
(* Instances of SFOutstock for TLC. *)
EXTENDS SFOutstock, TLC

Symmetry == Permutations(Docs) \cup Permutations(Rounds)

\* What rounds and users read, and the histories OneServiceDoc and
\* CreatedKeepsItsNumber are about: without a retrier nothing reads the rest.
RoundsView == <<doc, ours, pushedBlind, status, xno, callback, shipped, kills,
                lock, locals>>
=============================================================================
