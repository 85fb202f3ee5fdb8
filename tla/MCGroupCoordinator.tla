------------------------- MODULE MCGroupCoordinator -------------------------
(* Instances of GroupCoordinator for TLC.                                  *)
EXTENDS GroupCoordinator, TLC

CONSTANTS g1, g2, c1, c2, c3, t1, t2

OneGroup == [m \in Members |-> g1]

TwoGroups == [m \in Members |-> IF m = c3 THEN g2 ELSE g1]

TwoTopics == t1 :> 3 @@ t2 :> 1

OneTopic == t1 :> 2

FirstGroup == Permutations({c1, c2})

=============================================================================
