----------------------------- MODULE MCCluster -----------------------------
(* Instances of Cluster for TLC: this broker b1 and another one.           *)
EXTENDS Cluster, TLC

CONSTANTS b1, b2

=============================================================================
