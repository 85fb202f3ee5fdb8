--------------------------- MODULE MCPartitionLog ---------------------------
(* Instances of PartitionLog for TLC.                                      *)
EXTENDS PartitionLogRefinement, TLC

CONSTANTS m1, m2

MsgsOne == {m1}
MsgsTwo == {m1, m2}

Symmetry == Permutations(MsgsTwo)

=============================================================================
