-------------------------- MODULE MCOffsetManager --------------------------
(* Instances of OffsetManager for TLC.                                     *)
EXTENDS OffsetManager, TLC

CONSTANTS g1, g2, k1, k2, h1, h2, h3

Symmetry == Permutations(Groups) \cup Permutations(Keys) \cup Permutations(Handlers)

=============================================================================
