---------------------------- MODULE PartitionLog ----------------------------
(***************************************************************************)
(* The storage engine of one partition: storage/src/partition.rs (the list *)
(* of segments behind one lock), storage/src/segment.rs (a log file, its   *)
(* memory map and its counters) and storage/src/index.rs (the sparse       *)
(* offset index).  Files survive a crash, everything in `segs' does not.   *)
(*                                                                         *)
(* A log file is a sequence of cells.  Every encoded record is written as  *)
(* two cells, a head and a tail, so that a position in a file is a number  *)
(* of cells and a write that stops half way leaves a head without a tail:  *)
(* bytes that DiskRecord::decode rejects.  The index stores positions, so  *)
(* alignment matters: decoding from the middle of a record fails.          *)
(***************************************************************************)
EXTENDS Naturals, Sequences, FiniteSets

CONSTANTS
    Msgs,           \* the messages producers append
    MaxSize,        \* SegmentConfig::max_size, in cells
    IndexInterval,  \* SegmentConfig::index_interval, in records
    MaxBatch,       \* bound: messages in one append
    MaxOffset,      \* bound: offsets 0 .. MaxOffset - 1 are written
    MaxFailures,    \* bound: I/O calls that return an error
    MaxCrashes,     \* bound: times the broker stops
    CrashPoints,    \* writer steps before which the broker may stop
    PowerLoss       \* whether a crash may lose what was not synced

ASSUME PartitionLogAssumption ==
    /\ MaxSize \in Nat \ {0}
    /\ IndexInterval \in Nat
    /\ MaxBatch \in Nat
    /\ MaxOffset \in Nat
    /\ MaxFailures \in Nat
    /\ MaxCrashes \in Nat
    /\ CrashPoints \subseteq {"idle", "create_index", "write", "index", "sync"}
    /\ PowerLoss \in BOOLEAN

VARIABLES
    disk,     \* base offset -> the .log and .index files of that segment
    segs,     \* base offset -> the open LogSegment; empty when the broker is down
    active,   \* base offset of the last segment of the list
    status,   \* "up", "down", or "failed" when Partition::open returned an error
    writer,   \* the append that holds the write lock on the list of segments
    acked,    \* history: the records of every append that returned Ok
    failures, crashes  \* how many faults have happened

vars == <<disk, segs, active, status, writer, acked, failures, crashes>>

-----------------------------------------------------------------------------
(* Files and records.                                                      *)

Record == [offset : Nat, msg : Msgs]

Cell == [part : {"head", "tail"}, offset : Nat, msg : Msgs]

Entry == [offset : Nat, position : Nat]

File == [log : Seq(Cell), synced : Nat, hasIdx : BOOLEAN, idx : Seq(Entry)]

Segment == [size : Nat, next : Nat, since : Nat, mapped : Nat,
            entries : Nat, cursor : Nat, imapped : Nat]

\* DiskRecord::encode.
Encode(offset, msg) ==
    <<[part |-> "head", offset |-> offset, msg |-> msg],
      [part |-> "tail", offset |-> offset, msg |-> msg]>>

\* DiskRecord::decode at position p of the bytes `log' succeeds: both parts of
\* one record are there (length and CRC agree).
Decodes(log, p) ==
    /\ p + 2 <= Len(log)
    /\ log[p + 1].part = "head"
    /\ log[p + 2] = [log[p + 1] EXCEPT !.part = "tail"]

\* How many records can be decoded one after the other from position p.
Decodable(log, p) ==
    CHOOSE n \in 0 .. Len(log) :
        /\ ~Decodes(log, p + 2 * n)
        /\ \A i \in 0 .. n - 1 : Decodes(log, p + 2 * i)

\* The records a cursor at position p yields until decode returns an error.
RecordsFrom(log, p) ==
    [i \in 1 .. Decodable(log, p) |->
        [offset |-> log[p + 2 * i - 1].offset, msg |-> log[p + 2 * i - 1].msg]]

\* Wrong variants: the last decodable offset is given again, or one is skipped.
ScanRepeats(log, base) ==
    LET n == Decodable(log, 0)
    IN  IF n = 0 THEN base ELSE log[2 * n].offset

ScanSkips(log, base) ==
    LET n == Decodable(log, 0)
    IN  IF n = 0 THEN base ELSE log[2 * n].offset + 2

\* LogSegment::scan_for_next_offset: the last decodable offset plus one, where
\* "last" starts as the base offset even if nothing can be decoded.
ScanForNextOffset(log, base) ==
    IF log = <<>> THEN base
    ELSE LET n == Decodable(log, 0)
         IN  IF n = 0 THEN base + 1 ELSE log[2 * n].offset + 1

EmptyFile(indexed) ==
    [log |-> <<>>, synced |-> 0, hasIdx |-> indexed, idx |-> <<>>]

\* Wrong variant: the base offset is off by one.
CreateBelow(base) ==
    [size |-> 0, next |-> base - 1, since |-> 0, mapped |-> 0,
     entries |-> 0, cursor |-> 0, imapped |-> 0]

\* LogSegment::create.
CreateSegment(base) ==
    [size |-> 0, next |-> base, since |-> 0, mapped |-> 0,
     entries |-> 0, cursor |-> 0, imapped |-> 0]

\* LogSegment::open with OffsetIndex::open: the whole file counts, whether it
\* can be decoded or not, and the index file is written from its start.
OpenSegment(file, base) ==
    [size |-> Len(file.log), next |-> ScanForNextOffset(file.log, base),
     since |-> 0, mapped |-> Len(file.log),
     entries |-> Len(file.idx), cursor |-> 0, imapped |-> Len(file.idx)]

-----------------------------------------------------------------------------
(* Reads.  They run under the read lock on the list of segments, so never  *)
(* between the steps of an append.                                         *)

Nothing == [kind |-> "none"]
At(position) == [kind |-> "at", position |-> position]
Panic == [kind |-> "panic"]

\* Wrong variant: the search leaves out an entry equal to the target.
LookupBelow(b, target) ==
    LET idx  == disk[b].idx
        hits == {i \in 1 .. segs[b].entries : idx[i].offset < target}
    IN  IF hits = {} THEN Nothing
        ELSE At(idx[CHOOSE i \in hits : \A j \in hits : j <= i].position)

\* OffsetIndex::lookup: binary search for the last entry at or below target,
\* over `entries' entries of an index file of which `imapped' are mapped.
Lookup(b, target) ==
    LET idx == disk[b].idx
        seg == segs[b]
        search[range \in (0 .. seg.entries) \X (0 .. seg.entries)] ==
            LET left  == range[1]
                right == range[2]
                mid   == (left + right) \div 2
                later == search[<<mid + 1, right>>]
            IN  IF left >= right THEN Nothing
                ELSE IF mid >= seg.imapped THEN Panic
                ELSE IF idx[mid + 1].offset > target THEN search[<<left, mid>>]
                ELSE IF later = Nothing THEN At(idx[mid + 1].position)
                ELSE later
    IN  IF seg.entries = 0 \/ seg.imapped = 0
        THEN Nothing
        ELSE search[<<0, seg.entries>>]

Error == [ok |-> FALSE, recs |-> <<>>]
Found(recs) == [ok |-> TRUE, recs |-> recs]

\* The loop of LogSegment::read_batch over the records it decodes: those at or
\* after start are kept until max are there.
Keep(recs, start, max) ==
    LET kept[i \in 0 .. Len(recs)] ==
            LET before == kept[i - 1]
            IN  IF i = 0 THEN <<>>
                ELSE IF Len(before) < max /\ recs[i].offset >= start
                THEN Append(before, recs[i])
                ELSE before
    IN  kept[Len(recs)]

\* LogSegment::read_batch: decode from the indexed position, keep what is at
\* or after start, stop at max records or at the first decoding error.
ReadBatch(b, start, max) ==
    LET seg   == segs[b]
        found == Lookup(b, start)
        pos   == IF found.kind = "at" THEN found.position ELSE 0
    IN  IF start < b THEN Error
        ELSE IF start >= seg.next THEN Found(<<>>)
        ELSE IF seg.mapped = 0 \/ found = Panic \/ pos > seg.mapped THEN Error
        ELSE Found(Keep(RecordsFrom(SubSeq(disk[b].log, 1, seg.mapped), pos), start, max))

\* Wrong variant: an offset equal to a base is looked for one segment earlier.
FindEarlier(offset) ==
    CHOOSE b \in DOMAIN segs :
        /\ b < offset \/ b = 0
        /\ \A c \in DOMAIN segs : c < offset => c <= b

\* Partition::find_segment_index: the last segment whose base is not above.
FindSegment(offset) ==
    CHOOSE b \in DOMAIN segs :
        /\ b <= offset
        /\ \A c \in DOMAIN segs : c <= offset => c <= b

\* The segments of the list after b, and the first of some.
Later(b) == {c \in DOMAIN segs : b < c}
First(S) == CHOOSE c \in S : \A d \in S : c <= d

\* Partition::fetch: read segment after segment until max records are there
\* or a segment has nothing to give; an error of any segment is returned.
Fetch(offset, max) ==
    LET loop[call \in (DOMAIN segs) \X Nat \X (0 .. max)] ==
            LET b         == call[1]
                remaining == call[3]
                got       == ReadBatch(b, call[2], remaining)
                n         == Len(got.recs)
                rest      == loop[<<First(Later(b)), got.recs[n].offset + 1, remaining - n>>]
            IN  IF remaining = 0 THEN Found(<<>>)
                ELSE IF ~got.ok \/ n = 0 \/ Later(b) = {} THEN got
                ELSE IF rest.ok THEN Found(got.recs \o rest.recs)
                ELSE Error
    IN  loop[<<FindSegment(offset), offset, max>>]

-----------------------------------------------------------------------------
(* Partition::append, step by step.  The write lock on the list of         *)
(* segments is held from the first step to the last.                       *)

Idle == [pc |-> "idle", batch |-> <<>>, done |-> <<>>, pos |-> 0, base |-> 0]

Batches == UNION {[1 .. n -> Msgs] : n \in 1 .. MaxBatch}

Init ==
    /\ disk = [b \in {0} |-> EmptyFile(TRUE)]
    /\ segs = [b \in {0} |-> CreateSegment(0)]
    /\ active = 0
    /\ status = "up"
    /\ writer = Idle
    /\ acked = {}
    /\ failures = 0
    /\ crashes = 0

\* LogSegment::should_rotate.
ShouldRotate == segs[active].size >= MaxSize

CanAppend(batch) ==
    /\ status = "up"
    /\ writer.pc = "idle"
    /\ segs[active].next + Len(batch) <= MaxOffset

\* The active segment has room: its locks are taken, the file is positioned
\* at its end, and current_position starts from the recorded size.
BeginAppend(batch) ==
    /\ CanAppend(batch)
    /\ ~ShouldRotate
    /\ writer' = [pc |-> "write", batch |-> batch, done |-> <<>>,
                  pos |-> segs[active].size, base |-> active]
    /\ UNCHANGED <<disk, segs, active, status, acked, failures, crashes>>

\* The active segment is full: LogSegment::create opens the log file of the
\* next offset, creating it when it is missing.
RotateLog(batch) ==
    LET base == segs[active].next
    IN  /\ CanAppend(batch)
        /\ ShouldRotate
        /\ disk' = [b \in DOMAIN disk \cup {base} |->
                        IF b \in DOMAIN disk THEN disk[b] ELSE EmptyFile(FALSE)]
        /\ writer' = [pc |-> "create_index", batch |-> batch, done |-> <<>>,
                      pos |-> 0, base |-> base]
        /\ UNCHANGED <<segs, active, status, acked, failures, crashes>>

\* ... then its index file, and pushes the segment on the list.
CreateIndex ==
    LET base == writer.base
    IN  /\ writer.pc = "create_index"
        /\ disk' = [disk EXCEPT ![base].hasIdx = TRUE]
        /\ segs' = [b \in DOMAIN segs \cup {base} |->
                        IF b = base THEN CreateSegment(base) ELSE segs[b]]
        /\ active' = base
        /\ writer' = [writer EXCEPT !.pc = "write"]
        /\ UNCHANGED <<status, acked, failures, crashes>>

\* write_all of one encoded record.
WriteRecord ==
    LET b == writer.base
    IN  /\ writer.pc = "write"
        /\ disk' = [disk EXCEPT ![b].log =
                       @ \o Encode(segs[b].next, Head(writer.batch))]
        /\ writer' = [writer EXCEPT !.pc = "index"]
        /\ UNCHANGED <<segs, active, status, acked, failures, crashes>>

\* What OffsetIndex::append writes to the file, at the file's cursor.
PutEntry(idx, cursor, entry) ==
    IF cursor < Len(idx) THEN [idx EXCEPT ![cursor + 1] = entry]
                         ELSE Append(idx, entry)

NewEntry(b) == [offset |-> segs[b].next, position |-> writer.pos]

IndexDue(b) == segs[b].since >= IndexInterval

\* The index is extended when due, then the counters move past the record.
IndexRecord ==
    LET b   == writer.base
        seg == segs[b]
        idx == IF IndexDue(b) THEN PutEntry(disk[b].idx, seg.cursor, NewEntry(b))
                              ELSE disk[b].idx
        rec == [offset |-> seg.next, msg |-> Head(writer.batch)]
    IN  /\ writer.pc = "index"
        /\ disk' = [disk EXCEPT ![b].idx = idx]
        /\ segs' = [segs EXCEPT ![b] =
              IF IndexDue(b)
              THEN [seg EXCEPT !.next = @ + 1, !.since = 1, !.entries = @ + 1,
                               !.cursor = @ + 1, !.imapped = Len(idx)]
              ELSE [seg EXCEPT !.next = @ + 1, !.since = @ + 1]]
        /\ writer' = [writer EXCEPT
              !.pc = IF Len(writer.batch) = 1 THEN "sync" ELSE "write",
              !.batch = Tail(@), !.done = Append(@, rec), !.pos = @ + 2]
        /\ UNCHANGED <<active, status, acked, failures, crashes>>

\* Wrong variant: Ok without sync_data.
SyncSkipped ==
    /\ writer.pc = "sync"
    /\ segs' = [segs EXCEPT ![writer.base].size = writer.pos,
                            ![writer.base].mapped = Len(disk[writer.base].log)]
    /\ acked' = acked \cup {writer.done[i] : i \in DOMAIN writer.done}
    /\ writer' = Idle
    /\ UNCHANGED <<disk, active, status, failures, crashes>>

\* sync_data, the new size, the new memory map, and Ok to the caller.
SyncLog ==
    LET b == writer.base
        n == Len(disk[b].log)
    IN  /\ writer.pc = "sync"
        /\ disk' = [disk EXCEPT ![b].synced = n]
        /\ segs' = [segs EXCEPT ![b].size = writer.pos, ![b].mapped = n]
        /\ acked' = acked \cup {writer.done[i] : i \in DOMAIN writer.done}
        /\ writer' = Idle
        /\ UNCHANGED <<active, status, failures, crashes>>

-----------------------------------------------------------------------------
(* The error paths of append: each `?' returns with the locks released and *)
(* the steps before it done.                                               *)

Fail ==
    /\ failures < MaxFailures
    /\ failures' = failures + 1
    /\ writer' = Idle

\* OffsetIndex::create fails: the log file exists, the segment is not listed.
CreateIndexFails ==
    /\ writer.pc = "create_index"
    /\ Fail
    /\ UNCHANGED <<disk, segs, active, status, acked, crashes>>

\* write_all fails, before or after part of the record reached the file.
WriteRecordFails ==
    LET b == writer.base
    IN  /\ writer.pc = "write"
        /\ Fail
        /\ \E k \in 0 .. 1 :
              disk' = [disk EXCEPT ![b].log =
                  @ \o SubSeq(Encode(segs[b].next, Head(writer.batch)), 1, k)]
        /\ UNCHANGED <<segs, active, status, acked, crashes>>

\* OffsetIndex::append fails, in its write or in its sync: the entry may be in
\* the file, with the cursor past it, but it is not counted.
IndexRecordFails ==
    LET b   == writer.base
        seg == segs[b]
    IN  /\ writer.pc = "index"
        /\ IndexDue(b)
        /\ Fail
        /\ \/ UNCHANGED <<disk, segs>>
           \/ /\ disk' = [disk EXCEPT ![b].idx = PutEntry(@, seg.cursor, NewEntry(b))]
              /\ segs' = [segs EXCEPT ![b].cursor = @ + 1]
        /\ UNCHANGED <<active, status, acked, crashes>>

\* sync_data fails, or the remap after it.
SyncLogFails ==
    LET b == writer.base
    IN  /\ writer.pc = "sync"
        /\ Fail
        /\ \/ UNCHANGED <<disk, segs>>
           \/ /\ disk' = [disk EXCEPT ![b].synced = Len(disk[b].log)]
              /\ segs' = [segs EXCEPT ![b].size = writer.pos]
        /\ UNCHANGED <<active, status, acked, crashes>>

-----------------------------------------------------------------------------
(* Partition::flush, and the life of the process.                          *)

Flush ==
    /\ status = "up"
    /\ writer.pc = "idle"
    /\ disk' = [b \in DOMAIN disk |->
                   IF b \in DOMAIN segs
                   THEN [disk[b] EXCEPT !.synced = Len(disk[b].log)]
                   ELSE disk[b]]
    /\ UNCHANGED <<segs, active, status, writer, acked, failures, crashes>>

\* The process stops; in the middle of a write it may leave part of a record.
Crash ==
    /\ status = "up"
    /\ writer.pc \in CrashPoints
    /\ crashes < MaxCrashes
    /\ crashes' = crashes + 1
    /\ status' = "down"
    /\ segs' = <<>>
    /\ writer' = Idle
    /\ \/ UNCHANGED disk
       \/ /\ writer.pc = "write"
          /\ disk' = [disk EXCEPT ![writer.base].log =
                @ \o SubSeq(Encode(segs[writer.base].next, Head(writer.batch)), 1, 1)]
    /\ UNCHANGED <<active, acked, failures>>

\* The machine stops as well: a log file keeps what was synced and any prefix
\* of the rest.
LoseTail(b) ==
    /\ PowerLoss
    /\ status = "down"
    /\ \E k \in disk[b].synced .. Len(disk[b].log) - 1 :
          disk' = [disk EXCEPT ![b].log = SubSeq(@, 1, k), ![b].synced = k]
    /\ UNCHANGED <<segs, active, status, writer, acked, failures, crashes>>

\* Partition::open_with_config: every .log file of the directory is opened; an
\* error of any (a missing index file) is returned and nothing is served.
Open ==
    /\ status \in {"down", "failed"}
    /\ IF \A b \in DOMAIN disk : disk[b].hasIdx
       THEN /\ segs' = [b \in DOMAIN disk |-> OpenSegment(disk[b], b)]
            /\ active' = CHOOSE b \in DOMAIN disk : \A c \in DOMAIN disk : c <= b
            /\ status' = "up"
       ELSE /\ status' = "failed"
            /\ UNCHANGED <<segs, active>>
    /\ UNCHANGED <<disk, writer, acked, failures, crashes>>

Next ==
    \/ \E batch \in Batches : BeginAppend(batch) \/ RotateLog(batch)
    \/ CreateIndex \/ WriteRecord \/ IndexRecord \/ SyncLog
    \/ CreateIndexFails \/ WriteRecordFails \/ IndexRecordFails \/ SyncLogFails
    \/ Flush \/ Crash \/ Open
    \/ \E b \in DOMAIN disk : LoseTail(b)

Spec == Init /\ [][Next]_vars

-----------------------------------------------------------------------------
(* Properties.                                                             *)

\* Type invariant: the files, the open segments with their counters, and the
\* append in progress have the shapes the structs of segment.rs and index.rs give.
TypeOK ==
    /\ DOMAIN disk \subseteq Nat /\ disk \in [DOMAIN disk -> File]
    /\ DOMAIN segs \subseteq DOMAIN disk /\ segs \in [DOMAIN segs -> Segment]
    /\ active \in DOMAIN disk
    /\ status \in {"up", "down", "failed"}
    /\ writer \in [pc : {"idle", "create_index", "write", "index", "sync"},
                   batch : Seq(Msgs), done : Seq(Record), pos : Nat, base : Nat]
    /\ acked \subseteq Record
    /\ failures \in Nat /\ crashes \in Nat

\* The partition answers fetches: it is open and no append holds the lock.
Serving == status = "up" /\ writer.pc = "idle"

\* The record r lies whole in the first n cells of a log file.
Holds(log, n, r) ==
    \E p \in 0 .. n - 2 :
        /\ Decodes(log, p)
        /\ log[p + 1].offset = r.offset
        /\ log[p + 1].msg = r.msg

\* Every record of an append that returned Ok can be fetched from its offset,
\* alone, as Partition::append and Partition::fetch promise to their callers.
AckedReadable ==
    Serving => \A r \in acked : Fetch(r.offset, 1) = Found(<<r>>)

\* Every record of an append that returned Ok is whole in the synced part of
\* some log file: sync_data comes before the answer, and neither later failed
\* appends, crashes, lost tails nor reopening overwrite or cut what was synced.
AckedDurable ==
    \A r \in acked : \E b \in DOMAIN disk : Holds(disk[b].log, disk[b].synced, r)

\* Whatever fails, and wherever the broker stops and rescans its files, the
\* offset ranges of the open segments never overlap, so find_segment_index has
\* one answer for an offset and a rotation never reopens a listed segment.
SegmentsDisjoint ==
    \A b, c \in DOMAIN segs : b < c => segs[b].next <= c

\* No log file has bytes in it that scan_for_next_offset stops at.
Intact == \A b \in DOMAIN disk : 2 * Decodable(disk[b].log, 0) = Len(disk[b].log)

\* An append that fails half way does not lead two later answers to hand out
\* one offset for two messages, and neither does a restart that rescans files
\* without a torn record: next_offset never falls behind what it gave.
OffsetsNotReused ==
    (crashes = 0 \/ Intact) =>
        \A r, s \in acked : r.offset = s.offset => r = s

\* Entries went to the start of a reopened index file that had some already.
Reindexed(b) == segs[b].cursor \notin {0, segs[b].entries}

\* No I/O call failed, and no index was reopened a second time or written
\* since it was reopened.
IndexKept ==
    /\ failures = 0
    /\ crashes <= 1
    /\ \A b \in DOMAIN segs : ~Reindexed(b)

\* A fetch answers with exactly the records at offset, offset + 1, ... up to
\* max of them or the end of the log, across segment boundaries and whatever
\* index entry the search starts from, also after a restart as long as the
\* index files are what they were: nothing skipped, repeated or reordered.
FetchMatchesLog ==
    Serving /\ IndexKept => \A o \in 0 .. MaxOffset, max \in 1 .. MaxOffset :
        LET got  == Fetch(o, max)
            next == segs[active].next
            left == IF o < next THEN next - o ELSE 0
        IN  /\ got.ok
            /\ Len(got.recs) = IF left < max THEN left ELSE max
            /\ \A i \in DOMAIN got.recs :
                  /\ got.recs[i].offset = o + i - 1
                  /\ \E b \in DOMAIN disk :
                        Holds(disk[b].log, Len(disk[b].log), got.recs[i])

\* What a search of the first n entries must find for a target: the position
\* of the greatest offset at or below it.
NearestEntry(idx, n, target) ==
    LET below == {i \in 1 .. n : idx[i].offset <= target}
    IN  IF below = {} THEN Nothing
        ELSE At(idx[CHOOSE i \in below :
                      \A j \in below : idx[j].offset <= idx[i].offset].position)

\* Every counted index entry names the position of the record with its offset,
\* and the search finds the nearest entry at or below any target, so that a
\* read that starts there misses nothing; reopening the files keeps it so.
IndexSound ==
    Serving /\ IndexKept => \A b \in DOMAIN segs :
        LET idx == disk[b].idx
            n   == segs[b].entries
        IN  /\ n <= Len(idx)
            /\ \A i \in 1 .. n :
                  /\ Decodes(disk[b].log, idx[i].position)
                  /\ disk[b].log[idx[i].position + 1].offset = idx[i].offset
            /\ \A target \in b .. MaxOffset :
                  Lookup(b, target) = NearestEntry(idx, n, target)

=============================================================================
