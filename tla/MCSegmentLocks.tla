--------------------------- MODULE MCSegmentLocks ---------------------------
(* Instances of SegmentLocks for TLC.                                      *)
EXTENDS SegmentLocks, TLC

CONSTANTS t1, t2, t3

Mixed == t1 :> {"append"} @@ t2 :> {"append", "fetch"}
             @@ t3 :> {"fetch", "flush", "next_offset"}

=============================================================================
