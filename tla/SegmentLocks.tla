---------------------------- MODULE SegmentLocks ----------------------------
(***************************************************************************)
(* The locks of one partition and its active segment: Partition::append,   *)
(* fetch, flush and next_offset of storage/src/partition.rs take the lock  *)
(* on the list of segments and then, in storage/src/segment.rs, the locks  *)
(* of the segment's fields one by one, in different orders.  What the      *)
(* fields hold is reduced to numbers of records: how many are in the file  *)
(* and in its index (next_offset counts them), and in the memory map.  The  *)
(* content of the files is the subject of PartitionLog.                    *)
(***************************************************************************)
EXTENDS Naturals, Sequences, FiniteSets

CONSTANTS
    Threads,    \* the tasks that call the partition
    CallsOf,    \* thread -> the operations it calls
    MaxRecords  \* bound: records appended

ASSUME SegmentLocksAssumption ==
    /\ MaxRecords \in Nat
    /\ CallsOf \in [Threads -> SUBSET {"append", "fetch", "flush", "next_offset"}]

VARIABLES
    call,     \* thread -> the operation it runs
    step,     \* thread -> the step of that operation it is at
    queue,    \* lock -> the requests for it in the order they came, held ones too
    next,     \* next_offset; the index has entries for offsets below it
    mapped,   \* the records in the memory map
    limit,    \* thread -> how many records its read_batch knows of, from next_offset
              \* and then from the index
    failed    \* whether an append returned an error after next_offset moved

vars == <<call, step, queue, next, mapped, limit, failed>>

Locks == {"segments", "log", "index", "size", "next", "since", "mmap"}

-----------------------------------------------------------------------------
(* The operations as lists of steps, guards dropped where the code drops   *)
(* them or where their scope ends.                                         *)

Take(lock, mode) == [act |-> "take", lock |-> lock, mode |-> mode]
Give(locks) == [act |-> "give", locks |-> locks]
Do(what) == [act |-> "do", what |-> what]

\* Wrong variant: the lock on the list of segments is given back before the
\* segment is written.
AppendUnlocked ==
    <<Take("segments", "write"), Take("size", "read"), Give({"size", "segments"}),
      Take("log", "write"), Take("index", "write"), Take("size", "write"),
      Take("next", "write"), Take("since", "write"), Do("write"), Do("sync"),
      Give({"log"}), Take("log", "read"), Take("mmap", "write"), Do("remap"),
      Give({"mmap", "log", "since", "next", "size", "index"})>>

\* Wrong variant: the new map is made after the locks are given back.
AppendRemapsLate ==
    <<Take("segments", "write"), Take("size", "read"), Give({"size"}),
      Take("log", "write"), Take("index", "write"), Take("size", "write"),
      Take("next", "write"), Take("since", "write"), Do("write"), Do("sync"),
      Give({"log", "since", "next", "size", "index", "segments"}),
      Take("log", "read"), Take("mmap", "write"), Do("remap"), Give({"mmap", "log"})>>

\* Partition::append: should_rotate, then LogSegment::append, which gives the
\* log back before remap takes it again and keeps the other guards.
AppendSteps ==
    <<Take("segments", "write"), Take("size", "read"), Give({"size"}),
      Take("log", "write"), Take("index", "write"), Take("size", "write"),
      Take("next", "write"), Take("since", "write"), Do("write"), Do("sync"),
      Give({"log"}), Take("log", "read"), Take("mmap", "write"), Do("remap"),
      Give({"mmap", "log", "since", "next", "size", "index", "segments"})>>

\* Partition::fetch with LogSegment::read_batch.
FetchSteps ==
    <<Take("segments", "read"), Take("next", "read"), Do("limit"), Give({"next"}),
      Take("mmap", "read"), Take("index", "read"), Do("lookup"), Give({"index"}),
      Do("decode"), Give({"mmap", "segments"})>>

\* Partition::flush with LogSegment::flush.
FlushSteps ==
    <<Take("segments", "read"), Take("log", "write"), Do("sync_all"),
      Take("index", "write"), Do("flush"), Give({"index", "log", "segments"})>>

\* Partition::next_offset.
NextOffsetSteps ==
    <<Take("segments", "read"), Take("next", "read"), Give({"next", "segments"})>>

Calls == {"append", "fetch", "flush", "next_offset"}

Steps(c) == CASE c = "append" -> AppendSteps
              [] c = "fetch" -> FetchSteps
              [] c = "flush" -> FlushSteps
              [] c = "next_offset" -> NextOffsetSteps
              [] OTHER -> <<>>

-----------------------------------------------------------------------------
(* tokio::sync::RwLock: requests are granted in the order they come, a run *)
(* of readers together.                                                    *)

\* The i-th request for a lock is granted.
Granted(lock, i) ==
    LET q == queue[lock]
    IN  i = 1 \/ \A j \in 1 .. i : q[j].mode = "read"

Requests(t, lock) == {i \in DOMAIN queue[lock] : queue[lock][i].thread = t}

Holds(t, lock) == \E i \in Requests(t, lock) : Granted(lock, i)

\* A new request does not have to wait.
Free(take) ==
    \A i \in DOMAIN queue[take.lock] :
        queue[take.lock][i].mode = "read" /\ take.mode = "read"

\* A task asks for a lock at most once before it gives it back.
Without(q, t) ==
    IF \E i \in DOMAIN q : q[i].thread = t
    THEN LET k == CHOOSE i \in DOMAIN q : q[i].thread = t
         IN  [j \in 1 .. Len(q) - 1 |-> IF j < k THEN q[j] ELSE q[j + 1]]
    ELSE q

-----------------------------------------------------------------------------

Init ==
    /\ call = [t \in Threads |-> "none"]
    /\ step = [t \in Threads |-> 1]
    /\ queue = [l \in Locks |-> <<>>]
    /\ next = 0
    /\ mapped = 0
    /\ limit = [t \in Threads |-> 0]
    /\ failed = FALSE

At(t) == Steps(call[t])[step[t]]

Running(t) == call[t] # "none"

\* The appends under way count against the bound.
Begin(t, c) ==
    /\ ~Running(t)
    /\ c = "append" =>
          next + Cardinality({u \in Threads : call[u] = "append"}) < MaxRecords
    /\ call' = [call EXCEPT ![t] = c]
    /\ UNCHANGED <<step, queue, next, mapped, limit, failed>>

\* The operation returns and its guards are dropped.
Return(t) ==
    /\ call' = [call EXCEPT ![t] = "none"]
    /\ step' = [step EXCEPT ![t] = 1]
    /\ limit' = [limit EXCEPT ![t] = 0]
    /\ queue' = [l \in Locks |-> Without(queue[l], t)]

\* The future asks for a lock: it is granted at once, or its request waits.
Ask(t) ==
    /\ Running(t)
    /\ At(t).act = "take"
    /\ Requests(t, At(t).lock) = {}
    /\ queue' = [queue EXCEPT ![At(t).lock] =
                    Append(@, [thread |-> t, mode |-> At(t).mode])]
    /\ step' = [step EXCEPT ![t] = IF Free(At(t)) THEN @ + 1 ELSE @]
    /\ UNCHANGED <<call, next, mapped, limit, failed>>

\* A waiting request is granted and the task goes on.
Enter(t) ==
    /\ Running(t)
    /\ At(t).act = "take"
    /\ Holds(t, At(t).lock)
    /\ step' = [step EXCEPT ![t] = @ + 1]
    /\ UNCHANGED <<call, queue, next, mapped, limit, failed>>

\* Guards are dropped; with the last ones the operation is over.
Drop(t) ==
    /\ Running(t)
    /\ At(t).act = "give"
    /\ IF step[t] = Len(Steps(call[t]))
       THEN Return(t)
       ELSE /\ queue' = [l \in Locks |->
                  IF l \in At(t).locks THEN Without(queue[l], t) ELSE queue[l]]
            /\ step' = [step EXCEPT ![t] = @ + 1]
            /\ UNCHANGED <<call, limit>>
    /\ UNCHANGED <<next, mapped, failed>>

\* read_batch returns early when the offset asked for does not exist yet.
ReturnEmpty(t) ==
    /\ Running(t)
    /\ At(t) = Do("limit")
    /\ Return(t)
    /\ UNCHANGED <<next, mapped, failed>>

\* Wrong variant: read_batch goes on when nothing more can be decoded.
WorkSpins(t) ==
    /\ Running(t)
    /\ At(t).act = "do"
    /\ At(t) = Do("limit") => next > 0
    /\ next' = IF At(t).what = "write" THEN next + 1 ELSE next
    /\ mapped' = IF At(t).what = "remap" THEN next ELSE mapped
    /\ limit' = [limit EXCEPT ![t] = IF At(t).what \in {"limit", "lookup"} THEN next ELSE @]
    /\ step' = [step EXCEPT ![t] = IF At(t).what = "decode" THEN @ ELSE @ + 1]
    /\ UNCHANGED <<call, queue, failed>>

\* What the operation does with the fields between taking and giving locks.
Work(t) ==
    /\ Running(t)
    /\ At(t).act = "do"
    /\ At(t) = Do("limit") => next > 0
    /\ next' = IF At(t).what = "write" THEN next + 1 ELSE next
    /\ mapped' = IF At(t).what = "remap" THEN next ELSE mapped
    /\ limit' = [limit EXCEPT ![t] = IF At(t).what \in {"limit", "lookup"} THEN next ELSE @]
    /\ step' = [step EXCEPT ![t] = @ + 1]
    /\ UNCHANGED <<call, queue, failed>>

\* An I/O call fails and its error is returned.
Fail(t) ==
    /\ Running(t)
    /\ At(t) \in {Do("write"), Do("sync"), Do("remap"), Do("sync_all"), Do("flush")}
    /\ Return(t)
    /\ failed' = (failed \/ At(t) \in {Do("sync"), Do("remap")})
    /\ UNCHANGED <<next, mapped>>

Run(t) == Ask(t) \/ Enter(t) \/ Drop(t) \/ Work(t) \/ ReturnEmpty(t)

Next ==
    \E t \in Threads :
        \/ \E c \in CallsOf[t] : Begin(t, c)
        \/ Run(t)
        \/ Fail(t)

Spec == Init /\ [][Next]_vars

\* The runtime polls a task that can go on.
Fairness == \A t \in Threads : WF_vars(Run(t))

FairSpec == Spec /\ Fairness

-----------------------------------------------------------------------------
(* Properties.                                                             *)

\* t waits for a lock behind u.
WaitsFor(t, u) ==
    \E l \in Locks : \E i \in Requests(t, l), j \in Requests(u, l) :
        j < i /\ ~Granted(l, i)

\* No set of tasks waits for itself: although append takes the log lock again
\* while it holds the index, and readers take the map before the index, the
\* lock on the list of segments keeps appends apart from everything, and the
\* operations that share it take their locks in one order.
NoWaitCycle ==
    \A S \in SUBSET Threads :
        S # {} => \E t \in S : \A u \in S : ~WaitsFor(t, u)

\* A read that has found an offset below next_offset finds it in the map, and
\* the index never sends it past the map's end, where slicing would panic: the
\* three are read under three locks one after the other and still agree.
ReadAgrees ==
    \A t \in Threads :
        (~failed /\ Running(t) /\ At(t) = Do("decode")) =>
            limit[t] <= mapped

\* Every call of append, fetch, flush and next_offset returns: no task waits
\* for ever, not even a writer behind readers that keep coming.
CallsReturn ==
    \A t \in Threads : Running(t) ~> ~Running(t)

=============================================================================
