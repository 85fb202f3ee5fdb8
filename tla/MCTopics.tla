------------------------------ MODULE MCTopics ------------------------------
(* Instances of Topics for TLC.                                            *)
EXTENDS Topics, TLC

CONSTANTS t1, h1, h2

Symmetry == Permutations(Handlers)

=============================================================================
