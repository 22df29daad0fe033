------------------------------- MODULE MCUserSet -------------------------------
(* Small instances of UserSet for TLC. *)
EXTENDS UserSet, TLC

CONSTANTS p1, p2

MCPartitions == {p1, p2}
MCPageIds == 0 .. 1

Symmetry == Permutations(MCPartitions)

=============================================================================
