----------------------- MODULE PartitionLogRefinement -----------------------
(***************************************************************************)
(* PartitionLog implements AbstractLog: the abstract sequence is the       *)
(* concatenation, in the order of their base offsets, of what can be       *)
(* decoded from each segment's memory map (from its file, while the broker *)
(* is down).                                                               *)
(***************************************************************************)
EXTENDS PartitionLog

Visible(b) ==
    LET n == IF b \in DOMAIN segs THEN segs[b].mapped
             ELSE IF status = "up" THEN 0
             ELSE Len(disk[b].log)
    IN  RecordsFrom(SubSeq(disk[b].log, 1, n), 0)

Contents ==
    LET upTo[b \in DOMAIN disk] ==
            LET before == {c \in DOMAIN disk : c < b}
                prev   == CHOOSE c \in before : \A d \in before : d <= c
            IN  IF before = {} THEN Visible(b) ELSE upTo[prev] \o Visible(b)
    IN  upTo[CHOOSE b \in DOMAIN disk : \A c \in DOMAIN disk : c <= b]

Abstract == INSTANCE AbstractLog WITH log <- Contents

\* Segments, rotation, memory maps, index files, crashes and rescans together
\* behave as one append-only log: what readers see only grows, by whole batches
\* (or by the written part of the one a crash interrupted), numbered without a
\* gap or a repetition, and an acknowledgement covers exactly what became
\* visible in its step.
RefinesLog == Abstract!Spec

=============================================================================
