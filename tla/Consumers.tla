----------------------------- MODULE Consumers ------------------------------
(***************************************************************************)
(* The consumers of one group and what they make of the group's committed  *)
(* offsets: Consumer of client/src/consumer.rs with the parts of           *)
(* broker/src/server.rs it talks to.  A request and its answer are one     *)
(* step here (Connection has them apart); the steps of different consumers *)
(* interleave, a request may fail before or after the broker acted on it,  *)
(* and consumers stop and come back.  One whose connection is lost is one  *)
(* whose requests all fail.  How the coordinator divides the partitions    *)
(* and whom it counts as a member is the subject of GroupCoordinator: here *)
(* the group may have other members and a joining consumer gets any share, *)
(* of which the others learn nothing, since only a join brings             *)
(* assignments.                                                            *)
(***************************************************************************)
EXTENDS Naturals, FiniteSets

CONSTANTS
    Members,     \* the consumers
    Partitions,  \* the partitions of the group's topic
    AutoCommit,  \* with_auto_commit
    MaxOffset,   \* bound: records per partition
    MaxBatch,    \* max_messages
    MaxDeaths,   \* bound: consumers that stop
    MaxCalls     \* bound: calls that the applications begin

ASSUME ConsumersAssumption ==
    /\ IsFiniteSet(Members) /\ IsFiniteSet(Partitions)
    /\ AutoCommit \in BOOLEAN
    /\ MaxOffset \in Nat /\ MaxBatch \in Nat
    /\ MaxDeaths \in Nat /\ MaxCalls \in Nat

VARIABLES
    end,        \* partition -> next_offset of its log
    committed,  \* partition -> the group's offset; 0 when there is none
    alive,      \* the consumers that exist
    assigned,   \* consumer -> assignments
    offsets,    \* consumer -> offsets, a map on some of the partitions
    call,       \* consumer -> what it runs, partitions to do, records in hand
    delivered,  \* history: the records that polls returned
    excused,    \* history: records fetched and dropped, or passed over by a seek
    again,      \* history: partitions with a record returned twice
    shared,     \* history: partitions that two consumers had an offset for at a time
    reset,      \* history: partitions whose offset did not come from the group
    unsaved,    \* history: partitions whose commit failed
    deaths,
    calls

server == <<end, committed>>
bounds == <<deaths, calls>>
noted == <<delivered, excused, again, shared, reset, unsaved>>
history == <<noted, bounds>>
vars == <<server, alive, assigned, offsets, call, history>>

NoCall == [op |-> "none", todo |-> {}, hand |-> {}]

NoOffsets == [p \in {} |-> 0]

\* HashMap::insert.
Put(f, p, x) == [q \in DOMAIN f \cup {p} |-> IF q = p THEN x ELSE f[q]]

Idle(c) == c \in alive /\ call[c] = NoCall

\* The application of c calls an operation.
Begins(c) == Idle(c) /\ calls < MaxCalls /\ calls' = calls + 1

\* c is about to have an offset for p while another consumer has one.
SharedWith(c, p) ==
    IF \E d \in alive \ {c} : p \in DOMAIN offsets[d] THEN shared \cup {p} ELSE shared

Init ==
    /\ end = [p \in Partitions |-> 0]
    /\ committed = [p \in Partitions |-> 0]
    /\ alive = Members
    /\ assigned = [c \in Members |-> {}]
    /\ offsets = [c \in Members |-> NoOffsets]
    /\ call = [c \in Members |-> NoCall]
    /\ delivered = {} /\ excused = {} /\ again = {}
    /\ shared = {} /\ reset = {} /\ unsaved = {}
    /\ deaths = 0 /\ calls = 0

-----------------------------------------------------------------------------
(* Joining and leaving.                                                    *)

\* join_group: the answer sets member_id and assignments.
Join(c) ==
    /\ Begins(c)
    /\ \E S \in SUBSET Partitions :
          /\ assigned' = [assigned EXCEPT ![c] = S]
          /\ call' = [call EXCEPT ![c] =
                IF S = {} THEN NoCall ELSE [op |-> "join_group", todo |-> S, hand |-> {}]]
    /\ UNCHANGED <<server, alive, offsets, noted, deaths>>

\* Wrong variant: the group's offset is ignored.
FetchCommittedZero(c, p) ==
    /\ call[c].op = "join_group" /\ p \in call[c].todo
    /\ offsets' = [offsets EXCEPT ![c] = Put(@, p, 0)]
    /\ shared' = SharedWith(c, p)
    /\ call' = [call EXCEPT ![c] =
          IF @.todo = {p} THEN NoCall ELSE [call[c] EXCEPT !.todo = @ \ {p}]]
    /\ UNCHANGED <<server, alive, assigned, delivered, excused, again, reset,
                   unsaved, bounds>>

\* fetch_committed_offset for one assignment.
FetchCommitted(c, p) ==
    /\ call[c].op = "join_group" /\ p \in call[c].todo
    /\ offsets' = [offsets EXCEPT ![c] = Put(@, p, committed[p])]
    /\ shared' = SharedWith(c, p)
    /\ call' = [call EXCEPT ![c] =
          IF @.todo = {p} THEN NoCall ELSE [call[c] EXCEPT !.todo = @ \ {p}]]
    /\ UNCHANGED <<server, alive, assigned, delivered, excused, again, reset,
                   unsaved, bounds>>

\* ... fails: join_group returns the error, with assignments already set.
JoinFails(c) ==
    /\ call[c].op = "join_group"
    /\ call' = [call EXCEPT ![c] = NoCall]
    /\ UNCHANGED <<server, alive, assigned, offsets, history>>

\* leave_group succeeds; a member that has expired gets an error, which changes
\* nothing here.  The offsets stay.
Leave(c) ==
    /\ Begins(c) /\ assigned[c] # {}
    /\ assigned' = [assigned EXCEPT ![c] = {}]
    /\ UNCHANGED <<server, alive, offsets, call, noted, deaths>>

-----------------------------------------------------------------------------
(* Polling and committing.                                                 *)

\* poll_group returns at once when there are no assignments.
Poll(c) ==
    /\ Begins(c) /\ assigned[c] # {}
    /\ call' = [call EXCEPT ![c] = [op |-> "poll_group", todo |-> assigned[c], hand |-> {}]]
    /\ UNCHANGED <<server, alive, assigned, offsets, noted, deaths>>

Position(c, p) == IF p \in DOMAIN offsets[c] THEN offsets[c][p] ELSE 0

\* Ok(all_records).
Returned(hand) ==
    /\ delivered' = delivered \cup hand
    /\ again' = again \cup {r[1] : r \in hand \cap delivered}

\* Wrong variant: the offset moves by what was asked for, not by what came.
FetchAsked(c, p) ==
    \E n \in 0 .. MaxBatch :
        LET from == Position(c, p)
            got  == {<<p, o>> : o \in from .. from + n - 1}
            hand == call[c].hand \cup got
            last == call[c].todo = {p}
            offs == IF n = 0 THEN offsets[c] ELSE Put(offsets[c], p, from + MaxBatch)
        IN  /\ call[c].op = "poll_group" /\ p \in call[c].todo
            /\ from + n <= end[p] \/ n = 0
            /\ offsets' = [offsets EXCEPT ![c] = offs]
            /\ shared' = IF n = 0 THEN shared ELSE SharedWith(c, p)
            /\ reset' = IF p \in DOMAIN offsets[c] THEN reset ELSE reset \cup {p}
            /\ IF ~last
               THEN /\ call' = [call EXCEPT ![c].todo = @ \ {p}, ![c].hand = hand]
                    /\ UNCHANGED <<delivered, again>>
               ELSE IF AutoCommit /\ hand # {}
               THEN /\ call' = [call EXCEPT ![c] =
                          [op |-> "auto_commit", todo |-> DOMAIN offs, hand |-> hand]]
                    /\ UNCHANGED <<delivered, again>>
               ELSE call' = [call EXCEPT ![c] = NoCall] /\ Returned(hand)
            /\ UNCHANGED <<server, alive, assigned, excused, unsaved, bounds>>

\* fetch of one partition from the consumer's offset, which is 0 if there is none;
\* after the last partition the offsets are committed before the records are
\* returned.
Fetch(c, p) ==
    \E n \in 0 .. MaxBatch :
        LET from == Position(c, p)
            got  == {<<p, o>> : o \in from .. from + n - 1}
            hand == call[c].hand \cup got
            last == call[c].todo = {p}
            offs == IF n = 0 THEN offsets[c] ELSE Put(offsets[c], p, from + n)
        IN  /\ call[c].op = "poll_group" /\ p \in call[c].todo
            /\ from + n <= end[p] \/ n = 0
            /\ offsets' = [offsets EXCEPT ![c] = offs]
            /\ shared' = IF n = 0 THEN shared ELSE SharedWith(c, p)
            /\ reset' = IF p \in DOMAIN offsets[c] THEN reset ELSE reset \cup {p}
            /\ IF ~last
               THEN /\ call' = [call EXCEPT ![c].todo = @ \ {p}, ![c].hand = hand]
                    /\ UNCHANGED <<delivered, again>>
               ELSE IF AutoCommit /\ hand # {}
               THEN /\ call' = [call EXCEPT ![c] =
                          [op |-> "auto_commit", todo |-> DOMAIN offs, hand |-> hand]]
                    /\ UNCHANGED <<delivered, again>>
               ELSE call' = [call EXCEPT ![c] = NoCall] /\ Returned(hand)
            /\ UNCHANGED <<server, alive, assigned, excused, unsaved, bounds>>

\* The fetch fails and poll_group returns the error: the records it has are
\* dropped, but their offsets have moved.
PollFails(c) ==
    /\ call[c].op = "poll_group"
    /\ call' = [call EXCEPT ![c] = NoCall]
    /\ excused' = excused \cup call[c].hand
    /\ UNCHANGED <<server, alive, assigned, offsets, delivered, again, shared,
                   reset, unsaved, bounds>>

\* commit_offsets commits every offset the consumer has, assigned or not.
CommitOffsets(c) ==
    /\ Begins(c) /\ DOMAIN offsets[c] # {}
    /\ call' = [call EXCEPT ![c] =
          [op |-> "commit_offsets", todo |-> DOMAIN offsets[c], hand |-> {}]]
    /\ UNCHANGED <<server, alive, assigned, offsets, noted, deaths>>

Committing(c) == call[c].op \in {"commit_offsets", "auto_commit"}

\* Wrong variant: the auto-commit stops after its first partition.
CommitFirst(c, p) ==
    /\ Committing(c) /\ p \in call[c].todo
    /\ committed' = [committed EXCEPT ![p] = offsets[c][p]]
    /\ call' = [call EXCEPT ![c] = NoCall]
    /\ Returned(call[c].hand)
    /\ UNCHANGED <<end, alive, assigned, offsets, excused, shared,
                   reset, unsaved, bounds>>

\* CommitOffset for one partition; after the last one poll_group returns its records.
Commit(c, p) ==
    /\ Committing(c) /\ p \in call[c].todo
    /\ committed' = [committed EXCEPT ![p] = offsets[c][p]]
    /\ IF call[c].todo = {p}
       THEN call' = [call EXCEPT ![c] = NoCall] /\ Returned(call[c].hand)
       ELSE call' = [call EXCEPT ![c].todo = @ \ {p}] /\ UNCHANGED <<delivered, again>>
    /\ UNCHANGED <<end, alive, assigned, offsets, excused, shared,
                   reset, unsaved, bounds>>

\* A commit fails: the broker could not save it, having changed its memory; or
\* the connection was lost before or after.  poll_group returns its records all
\* the same.
CommitFails(c, p) ==
    /\ Committing(c) /\ p \in call[c].todo
    /\ committed' \in {committed, [committed EXCEPT ![p] = offsets[c][p]]}
    /\ call' = [call EXCEPT ![c] = NoCall]
    /\ Returned(call[c].hand)
    /\ unsaved' = unsaved \cup call[c].todo
    /\ UNCHANGED <<end, alive, assigned, offsets, excused, shared, reset,
                   bounds>>

\* seek, and commit_offset and subscribe, which insert offsets as well: the
\* application moves the offset, not past the end of the log here.
Seek(c, p, o) ==
    /\ Begins(c)
    /\ offsets' = [offsets EXCEPT ![c] = Put(@, p, o)]
    /\ shared' = SharedWith(c, p)
    /\ reset' = reset \cup {p}
    /\ excused' = excused \cup {<<p, x>> : x \in 0 .. o - 1}
    /\ UNCHANGED <<server, alive, assigned, call, delivered, again, unsaved,
                   deaths>>

-----------------------------------------------------------------------------
(* The broker, the network and the processes.                              *)

\* A record is appended.
Produce(p) ==
    /\ end[p] < MaxOffset
    /\ end' = [end EXCEPT ![p] = @ + 1]
    /\ UNCHANGED <<committed, alive, assigned, offsets, call, history>>

\* The consumer's process stops, or drops it, perhaps in the middle of a call.
Die(c) ==
    /\ c \in alive
    /\ deaths < MaxDeaths
    /\ deaths' = deaths + 1
    /\ alive' = alive \ {c}
    /\ assigned' = [assigned EXCEPT ![c] = {}]
    /\ offsets' = [offsets EXCEPT ![c] = NoOffsets]
    /\ call' = [call EXCEPT ![c] = NoCall]
    /\ excused' = excused \cup call[c].hand
    /\ UNCHANGED <<server, delivered, again, shared, reset, unsaved, calls>>

\* Consumer::connect.
Connect(c) ==
    /\ c \notin alive
    /\ alive' = alive \cup {c}
    /\ UNCHANGED <<server, assigned, offsets, call, history>>

Next ==
    \/ \E c \in Members :
          \/ Join(c) \/ JoinFails(c) \/ Leave(c)
          \/ Poll(c) \/ PollFails(c) \/ CommitOffsets(c)
          \/ \E p \in Partitions :
                \/ FetchCommitted(c, p) \/ Fetch(c, p)
                \/ Commit(c, p) \/ CommitFails(c, p)
                \/ \E o \in 0 .. end[p] : Seek(c, p, o)
          \/ Die(c) \/ Connect(c)
    \/ \E p \in Partitions : Produce(p)

Spec == Init /\ [][Next]_vars

-----------------------------------------------------------------------------
(* Properties.                                                             *)

Records == Partitions \X (0 .. MaxOffset - 1)

\* Type invariant: consumers that do not exist run nothing, and offsets stay
\* within the logs.
TypeOK ==
    /\ end \in [Partitions -> 0 .. MaxOffset]
    /\ committed \in [Partitions -> 0 .. MaxOffset]
    /\ alive \subseteq Members
    /\ assigned \in [Members -> SUBSET Partitions]
    /\ \A c \in Members :
          /\ DOMAIN offsets[c] \subseteq Partitions
          /\ \A p \in DOMAIN offsets[c] : offsets[c][p] <= end[p]
          /\ call[c].todo \subseteq Partitions /\ call[c].hand \subseteq Records
          /\ c \notin alive => call[c] = NoCall /\ DOMAIN offsets[c] = {}
    /\ delivered \subseteq Records /\ excused \subseteq Records
    /\ again \subseteq Partitions /\ shared \subseteq Partitions
    /\ reset \subseteq Partitions /\ unsaved \subseteq Partitions
    /\ deaths \in 0 .. MaxDeaths /\ calls \in 0 .. MaxCalls

InHand == UNION {call[c].hand : c \in Members}

\* The group's offset is never ahead of the records: every record below it was
\* returned by some poll, or is in the hands of a poll that commits before it
\* returns, or was dropped by a poll that failed or died, or passed over by a
\* seek.  Whoever commits, in whatever order, skips nothing else.
NothingSkipped ==
    \A p \in Partitions : \A o \in 0 .. committed[p] - 1 :
        <<p, o>> \in delivered \cup InHand \cup excused

\* The group's offset moves back only for a partition that two consumers had an
\* offset for at the same time, one of them after it lost the partition, or
\* whose offset the application or a failed join had reset: a partition that is
\* handed from a consumer that is gone to its successor only goes forward.
CommitsGoForward ==
    [][\A p \in Partitions : committed'[p] < committed[p] => p \in shared \cup reset]_vars

\* With auto-commit a record is returned twice only after such a reset or
\* sharing, or after a commit that failed.
DeliveredOnce ==
    AutoCommit => again \subseteq shared \cup reset \cup unsaved

=============================================================================
