---------------------------- MODULE MCConsumers -----------------------------
(* Instances of Consumers for TLC.                                         *)
EXTENDS Consumers, TLC

CONSTANTS c1, c2, p1, p2

Symmetry == Permutations(Members) \cup Permutations(Partitions)

=============================================================================
