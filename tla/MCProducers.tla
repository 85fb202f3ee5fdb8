---------------------------- MODULE MCProducers -----------------------------
(* Instances of Producers for TLC.                                         *)
EXTENDS Producers, TLC

CONSTANTS c1, c2, t1, t2, t3, k1

\* Topics of two partitions, of one and of none: what a partitioner has come to for
\* one of them need not suit another.
TopicSizes == (t1 :> 2) @@ (t2 :> 1) @@ (t3 :> 0)

\* The hash of the key leads to partition 1 of t1, no key to partition 0.
OneHash == (k1 :> 3)

\* A message alone, one before a message that goes elsewhere, and two that stay
\* together.
SomeBatches == {<<k1>>, <<k1, NoKey>>, <<k1, k1>>}

Symmetry == Permutations(Clients)

=============================================================================
