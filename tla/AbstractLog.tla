---------------------------- MODULE AbstractLog ----------------------------
(***************************************************************************)
(* What a partition promises its callers: one append-only sequence of      *)
(* records, numbered from 0 without a gap, in which the records of an      *)
(* append are contiguous and what was acknowledged stays.                  *)
(***************************************************************************)
EXTENDS Naturals, Sequences

CONSTANTS Msgs, MaxBatch

VARIABLES log,    \* the records a reader can see
          acked   \* the ones whose append returned Ok

Numbered(batch) ==
    [i \in DOMAIN batch |-> [offset |-> Len(log) + i - 1, msg |-> batch[i]]]

Init == log = <<>> /\ acked = {}

\* A batch becomes visible as a whole, and its producer is told of it ...
Publish(batch) ==
    /\ log' = log \o Numbered(batch)
    /\ acked' = acked \cup {Numbered(batch)[i] : i \in DOMAIN batch}

\* ... or the broker stops before it answers, and the batch, or the part of it
\* that was written, is there when the broker is back.
Leave(batch) ==
    /\ log' = log \o Numbered(batch)
    /\ UNCHANGED acked

Next ==
    \E n \in 1 .. MaxBatch : \E batch \in [1 .. n -> Msgs] :
        Publish(batch) \/ Leave(batch)

Spec == Init /\ [][Next]_<<log, acked>>

=============================================================================
