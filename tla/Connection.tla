----------------------------- MODULE Connection -----------------------------
(***************************************************************************)
(* One consumer of client/src/consumer.rs on its TCP connection.  The      *)
(* application's calls and the heartbeat tasks share the connection under  *)
(* a mutex; an exchange sends a request and takes the next response as its *)
(* answer, by kind: the protocol has no request numbers.  The broker's     *)
(* side is handle_connection of broker/src/server.rs, which answers the    *)
(* requests in order, and codec.rs, which refuses messages that are too    *)
(* large.  A request carries who sent it (by), which the code does not,    *)
(* so that the properties can tell whose answer is read.                   *)
(***************************************************************************)
EXTENDS Naturals, Sequences, FiniteSets

CONSTANTS
    Partitions,  \* the topic partitions of the consumer's topic
    AutoCommit,  \* with_auto_commit
    MaxTasks,    \* bound: heartbeat tasks at a time
    MaxSlips     \* bound: heartbeats stopped before their answer was read

ASSUME ConnectionAssumption ==
    /\ IsFiniteSet(Partitions) /\ Partitions # {}
    /\ AutoCommit \in BOOLEAN
    /\ MaxTasks \in Nat \ {0}
    /\ MaxSlips \in Nat

VARIABLES
    call,        \* what the application runs: op, exchanges to do, records fetched
    at,          \* actor -> where it is in its exchange
    queue,       \* the mutex: who holds it, then who waits
    sent,        \* requests on their way to the broker
    replies,     \* responses on their way to the consumer
    open,        \* whether the connection is
    handle,      \* heartbeat_task; 0 for none
    member,      \* whether member_id is set
    assigned,    \* assignments
    subscribed,  \* the partitions of the topic in subscriptions
    offsets,     \* the partitions that have an offset
    dropped,     \* whether the consumer was dropped
    slips,       \* history: heartbeats stopped before their answer was read
    leaked,      \* history: tasks whose handle was replaced
    adrift       \* history: a leave or a failed join left no heartbeat task

vars == <<call, at, queue, sent, replies, open, handle, member, assigned, subscribed,
          offsets, dropped, slips, leaked, adrift>>

App == 0
Tasks == 1 .. MaxTasks
Actors == {App} \cup Tasks

Kinds == {"JoinGroup", "LeaveGroup", "Heartbeat", "CommitOffset", "FetchOffset",
          "Fetch", "GetMetadata"}

NoCall == [op |-> "none", todo |-> <<>>, some |-> FALSE]

Exchange(kind, ps) == [i \in DOMAIN ps |-> [kind |-> kind, partition |-> ps[i]]]

\* A request that is not about one partition.
Single(kind) == <<[kind |-> kind, partition |-> CHOOSE p \in Partitions : TRUE]>>

\* The orders in which a HashMap or a list may give its entries.
Orders(S) == {f \in [1 .. Cardinality(S) -> S] : \A x \in S : \E i \in DOMAIN f : f[i] = x}

\* What a is waiting for an answer to.
Asked(a) == IF a = App THEN Head(call.todo).kind ELSE "Heartbeat"

-----------------------------------------------------------------------------

Init ==
    /\ call = NoCall
    /\ at = [a \in Actors |-> IF a = App THEN "idle" ELSE "gone"]
    /\ queue = <<>>
    /\ sent = <<>> /\ replies = <<>> /\ open = TRUE
    /\ handle = 0 /\ member = FALSE
    /\ assigned = <<>> /\ subscribed = {} /\ offsets = {}
    /\ dropped = FALSE
    /\ slips = 0 /\ leaked = {} /\ adrift = FALSE

(* The application's calls.                                                *)

\* A call takes its place for the mutex and runs its first exchange.
Begin(op, todo) ==
    /\ ~dropped /\ call = NoCall
    /\ todo # <<>>
    /\ call' = [op |-> op, todo |-> todo, some |-> FALSE]

\* join_group.
Join ==
    /\ \E i \in Tasks : at[i] = "gone"
    /\ Begin("join_group", Single("JoinGroup"))
    /\ at' = [at EXCEPT ![App] = "lock"]
    /\ queue' = Append(queue, App)
    /\ UNCHANGED <<sent, replies, open, handle, member, assigned, subscribed, offsets,
                   dropped, slips, leaked, adrift>>

\* poll_group, commit_offsets, subscribe, poll and fetch, each with its exchanges.
Ask ==
    /\ \/ Begin("poll_group", Exchange("Fetch", assigned))
       \/ \E o \in Orders(offsets) : Begin("commit_offsets", Exchange("CommitOffset", o))
       \/ Begin("subscribe", Single("GetMetadata"))
       \/ \E o \in Orders(subscribed) : Begin("poll", Exchange("Fetch", o))
       \/ \E p \in Partitions : Begin("fetch", Exchange("Fetch", <<p>>))
    /\ at' = [at EXCEPT ![App] = "lock"]
    /\ queue' = Append(queue, App)
    /\ UNCHANGED <<sent, replies, open, handle, member, assigned, subscribed, offsets,
                   dropped, slips, leaked, adrift>>

\* a, who is in the queue once if at all, gives up its place.
Without(q, a) ==
    IF \E i \in DOMAIN q : q[i] = a
    THEN LET k == CHOOSE i \in DOMAIN q : q[i] = a
         IN  [j \in 1 .. Len(q) - 1 |-> IF j < k THEN q[j] ELSE q[j + 1]]
    ELSE q

\* Whether stopping the task leaves an answer that nobody will read.
Slips == handle # 0 /\ at[handle] = "wait"

\* The task of the handle is stopped wherever it waits, and gives up the mutex or
\* its place in line.
Abort ==
    /\ handle' = 0
    /\ slips' = IF Slips THEN slips + 1 ELSE slips

\* leave_group stops the heartbeat task first.
Leave ==
    /\ member
    /\ Slips => slips < MaxSlips
    /\ Begin("leave_group", Single("LeaveGroup"))
    /\ Abort
    /\ at' = [a \in Actors |-> CASE a = App -> "lock"
                                 [] a = handle /\ handle # 0 -> "gone"
                                 [] OTHER -> at[a]]
    /\ queue' = Append(Without(queue, handle), App)
    /\ adrift' = TRUE
    /\ UNCHANGED <<sent, replies, open, member, assigned, subscribed, offsets, dropped, leaked>>

\* Wrong variant: the consumer is dropped and its heartbeat task runs on.
DropRuns ==
    /\ ~dropped /\ call = NoCall
    /\ dropped' = TRUE
    /\ handle' = 0
    /\ open' = (open /\ \E i \in Tasks : at[i] # "gone")
    /\ UNCHANGED <<call, at, queue, sent, replies, member, assigned, subscribed, offsets,
                   slips, leaked, adrift>>

\* Drop for Consumer; the connection closes with the last task that uses it.
DropConsumer ==
    /\ ~dropped /\ call = NoCall
    /\ Slips => slips < MaxSlips
    /\ dropped' = TRUE
    /\ Abort
    /\ at' = [a \in Actors |-> IF a = handle /\ handle # 0 THEN "gone" ELSE at[a]]
    /\ queue' = Without(queue, handle)
    /\ open' = (open /\ \E i \in Tasks : at'[i] # "gone")
    /\ UNCHANGED <<call, sent, replies, member, assigned, subscribed, offsets, leaked, adrift>>

-----------------------------------------------------------------------------
(* Exchanges.                                                              *)

\* interval.tick() fires and the task asks for the mutex.
Tick(i) ==
    /\ at[i] = "sleep"
    /\ at' = [at EXCEPT ![i] = "lock"]
    /\ queue' = Append(queue, i)
    /\ UNCHANGED <<call, sent, replies, open, handle, member, assigned, subscribed, offsets,
                   dropped, slips, leaked, adrift>>

\* Wrong variant: the request goes out before the mutex is granted.
SendUnlocked(a) ==
    /\ at[a] = "lock"
    /\ at' = [at EXCEPT ![a] = "wait"]
    /\ sent' = IF open THEN Append(sent, [by |-> a, kind |-> Asked(a)]) ELSE sent
    /\ UNCHANGED <<call, queue, replies, open, handle, member, assigned, subscribed,
                   offsets, dropped, slips, leaked, adrift>>

\* framed.send; on a connection that was lost it may not notice yet.
Send(a) ==
    /\ at[a] = "lock" /\ Head(queue) = a
    /\ at' = [at EXCEPT ![a] = "wait"]
    /\ sent' = IF open THEN Append(sent, [by |-> a, kind |-> Asked(a)]) ELSE sent
    /\ UNCHANGED <<call, queue, replies, open, handle, member, assigned, subscribed,
                   offsets, dropped, slips, leaked, adrift>>

\* The exchange is over and the call goes on with the others, behind the tasks
\* that wait for the mutex; or it returns.
GoOn(todo, some) ==
    IF todo = <<>>
    THEN /\ call' = NoCall
         /\ at' = [at EXCEPT ![App] = "idle"]
         /\ queue' = Tail(queue)
    ELSE /\ call' = [call EXCEPT !.todo = todo, !.some = some]
         /\ at' = [at EXCEPT ![App] = "lock"]
         /\ queue' = Append(Tail(queue), App)

\* An error is returned.  A join that fails after it was answered has set
\* member_id and starts no heartbeat task.
FailCall ==
    /\ GoOn(<<>>, FALSE)
    /\ adrift' = (adrift \/ (Head(call.todo).kind = "FetchOffset" /\ handle = 0))
    /\ UNCHANGED <<sent, open, handle, member, assigned, subscribed, offsets, dropped,
                   slips, leaked>>

\* The encoder refuses a request that is too large: nothing was written.
TooLarge ==
    /\ at[App] = "lock" /\ Head(queue) = App
    /\ FailCall
    /\ UNCHANGED replies

\* The send or the read fails because the connection is closed.
CallFails ==
    /\ ~open
    /\ \/ at[App] = "lock" /\ Head(queue) = App
       \/ at[App] = "wait" /\ replies = <<>>
    /\ FailCall
    /\ UNCHANGED replies

TaskFails(i) ==
    /\ ~open
    /\ \/ at[i] = "lock" /\ Head(queue) = i
       \/ at[i] = "wait" /\ replies = <<>>
    /\ at' = [at EXCEPT ![i] = "gone"]
    /\ queue' = Tail(queue)
    /\ UNCHANGED <<call, sent, replies, open, handle, member, assigned, subscribed, offsets,
                   dropped, slips, leaked, adrift>>

\* Wrong variant: the task ends when the broker answers with an error.
HeartbeatEnds(i) ==
    /\ at[i] = "wait" /\ replies # <<>>
    /\ replies' = Tail(replies)
    /\ at' = [at EXCEPT ![i] = IF Head(replies).ok THEN "sleep" ELSE "gone"]
    /\ queue' = Tail(queue)
    /\ UNCHANGED <<call, sent, open, handle, member, assigned, subscribed, offsets,
                   dropped, slips, leaked, adrift>>

\* A heartbeat task reads a response, whatever it is, and sleeps again.
HeartbeatAnswered(i) ==
    /\ at[i] = "wait" /\ replies # <<>>
    /\ replies' = Tail(replies)
    /\ at' = [at EXCEPT ![i] = "sleep"]
    /\ queue' = Tail(queue)
    /\ UNCHANGED <<call, sent, open, handle, member, assigned, subscribed, offsets,
                   dropped, slips, leaked, adrift>>

\* The application's call reads a response.
Reads == at[App] = "wait" /\ replies # <<>>

\* It is of the kind asked for and not an error: its partition is not compared.
Accepts(kind) ==
    /\ Reads
    /\ Head(call.todo).kind = kind
    /\ Head(replies).kind = kind /\ Head(replies).ok
    /\ replies' = Tail(replies)

Refused ==
    /\ Reads
    /\ Head(replies).kind # Head(call.todo).kind \/ ~Head(replies).ok
    /\ replies' = Tail(replies)
    /\ FailCall

\* start_heartbeat_task, and join_group returns: the old handle is overwritten.
StartTask ==
    \E i \in Tasks :
        /\ at[i] = "gone"
        /\ call' = NoCall
        /\ at' = [at EXCEPT ![App] = "idle", ![i] = "sleep"]
        /\ queue' = Tail(queue)
        /\ handle' = i
        /\ leaked' = (leaked \cup ({handle} \ {0})) \ {i}
        /\ adrift' = FALSE

\* JoinGroupSuccess: the committed offsets are fetched, if there are any.
Joined ==
    /\ Accepts("JoinGroup")
    /\ member' = TRUE
    /\ assigned' = Head(replies).partitions
    /\ IF Head(replies).partitions = <<>>
       THEN StartTask
       ELSE /\ GoOn(Exchange("FetchOffset", Head(replies).partitions), FALSE)
            /\ UNCHANGED <<handle, leaked, adrift>>
    /\ UNCHANGED <<sent, open, subscribed, offsets, dropped, slips>>

\* FetchOffsetSuccess in join_group.
OffsetFetched ==
    /\ Accepts("FetchOffset")
    /\ offsets' = offsets \cup {Head(call.todo).partition}
    /\ IF Len(call.todo) = 1
       THEN StartTask
       ELSE /\ GoOn(Tail(call.todo), FALSE)
            /\ UNCHANGED <<handle, leaked, adrift>>
    /\ UNCHANGED <<sent, open, member, assigned, subscribed, dropped, slips>>

\* FetchSuccess: a poll moves the offset if there are records, and when it is done
\* poll_group may commit every offset the consumer has.
Fetched ==
    LET got == Head(replies).partitions # <<>>
        some == call.some \/ got
        moved == IF got /\ call.op \in {"poll", "poll_group"}
                 THEN offsets \cup {Head(call.todo).partition} ELSE offsets
    IN  /\ Accepts("Fetch")
        /\ offsets' = moved
        /\ IF Len(call.todo) = 1 /\ call.op = "poll_group" /\ AutoCommit /\ some
           THEN \E o \in Orders(moved) : GoOn(Exchange("CommitOffset", o), some)
           ELSE GoOn(Tail(call.todo), some)
        /\ UNCHANGED <<sent, open, handle, member, assigned, subscribed, dropped, slips,
                       leaked, adrift>>

\* CommitOffsetSuccess.
Committed ==
    /\ Accepts("CommitOffset")
    /\ GoOn(Tail(call.todo), call.some)
    /\ UNCHANGED <<sent, open, handle, member, assigned, subscribed, offsets, dropped,
                   slips, leaked, adrift>>

\* LeaveGroupSuccess: the offsets stay.
Left ==
    /\ Accepts("LeaveGroup")
    /\ GoOn(<<>>, FALSE)
    /\ member' = FALSE
    /\ assigned' = <<>>
    /\ UNCHANGED <<sent, open, handle, subscribed, offsets, dropped, slips, leaked, adrift>>

\* Metadata with the topic in it: all its partitions are subscribed to, from offset 0.
Subscribed ==
    /\ Accepts("GetMetadata")
    /\ GoOn(<<>>, FALSE)
    /\ subscribed' = Partitions
    /\ offsets' = offsets \cup Partitions
    /\ UNCHANGED <<sent, open, handle, member, assigned, dropped, slips, leaked, adrift>>

-----------------------------------------------------------------------------
(* The broker and the network.                                             *)

\* What a response says: the assignments of a JoinGroupSuccess, whether a
\* FetchSuccess has records.
Says(r, ok, ps) == [by |-> r.by, kind |-> r.kind, ok |-> ok, partitions |-> ps]

Answers(r) ==
    {Says(r, FALSE, <<>>), Says(r, TRUE, <<>>)}
        \cup (IF r.kind = "Fetch" THEN {Says(r, TRUE, <<CHOOSE p \in Partitions : TRUE>>)} ELSE {})
        \cup (IF r.kind = "JoinGroup"
              THEN {Says(r, TRUE, o) : o \in UNION {Orders(S) : S \in SUBSET Partitions}}
              ELSE {})

\* Wrong variant: a request that fails is not answered.
ServeSilent ==
    /\ open /\ sent # <<>>
    /\ sent' = Tail(sent)
    /\ \E r \in Answers(Head(sent)) : replies' = IF r.ok THEN Append(replies, r) ELSE replies
    /\ UNCHANGED <<call, at, queue, open, handle, member, assigned, subscribed, offsets,
                   dropped, slips, leaked, adrift>>

\* Wrong variant: the request read last is answered first.
ServeLast ==
    /\ open /\ sent # <<>>
    /\ sent' = SubSeq(sent, 1, Len(sent) - 1)
    /\ \E r \in Answers(sent[Len(sent)]) : replies' = Append(replies, r)
    /\ UNCHANGED <<call, at, queue, open, handle, member, assigned, subscribed, offsets,
                   dropped, slips, leaked, adrift>>

\* handle_connection answers one request after the other.
Serve ==
    /\ open /\ sent # <<>>
    /\ sent' = Tail(sent)
    /\ \E r \in Answers(Head(sent)) : replies' = Append(replies, r)
    /\ UNCHANGED <<call, at, queue, open, handle, member, assigned, subscribed, offsets,
                   dropped, slips, leaked, adrift>>

\* The encoder refuses a response that is too large, and the handler returns.
Oversized ==
    /\ open /\ sent # <<>>
    /\ Head(sent).kind \in {"Fetch", "GetMetadata", "JoinGroup"}
    /\ open' = FALSE
    /\ sent' = <<>>
    /\ UNCHANGED <<call, at, queue, replies, handle, member, assigned, subscribed, offsets,
                   dropped, slips, leaked, adrift>>

\* The connection is lost, with what was on its way.
Close ==
    /\ open
    /\ open' = FALSE
    /\ sent' = <<>>
    /\ \E n \in 0 .. Len(replies) : replies' = SubSeq(replies, 1, n)
    /\ UNCHANGED <<call, at, queue, handle, member, assigned, subscribed, offsets,
                   dropped, slips, leaked, adrift>>

-----------------------------------------------------------------------------

AppRun ==
    \/ Send(App) \/ CallFails \/ Refused
    \/ Joined \/ OffsetFetched \/ Fetched \/ Committed \/ Left \/ Subscribed

TaskRun(i) == Send(i) \/ HeartbeatAnswered(i) \/ TaskFails(i)

Next ==
    \/ Join \/ Ask \/ Leave \/ DropConsumer
    \/ AppRun \/ TooLarge
    \/ \E i \in Tasks : Tick(i) \/ TaskRun(i)
    \/ Serve \/ Oversized \/ Close

Spec == Init /\ [][Next]_vars

\* The runtime polls tasks that can go on, and the broker answers what it reads.
Fairness == WF_vars(AppRun) /\ WF_vars(Serve) /\ \A i \in Tasks : WF_vars(TaskRun(i))

FairSpec == Spec /\ Fairness

-----------------------------------------------------------------------------
(* Properties.                                                             *)

Waiting == {a \in Actors : at[a] = "wait"}

\* Type invariant: the mutex is queued for once by everyone in an exchange, and a
\* call is in one as long as it lasts.
TypeOK ==
    /\ call.todo \in Seq([kind : Kinds, partition : Partitions])
    /\ at \in [Actors -> {"idle", "gone", "sleep", "lock", "wait"}]
    /\ at[App] = "idle" <=> call = NoCall
    /\ queue \in Seq(Actors)
    /\ \A a \in Actors :
          Cardinality({i \in DOMAIN queue : queue[i] = a})
              = IF at[a] \in {"lock", "wait"} THEN 1 ELSE 0
    /\ sent \in Seq([by : Actors, kind : Kinds])
    /\ \A i \in DOMAIN replies : replies[i].by \in Actors /\ replies[i].kind \in Kinds
    /\ handle \in Actors /\ leaked \subseteq Tasks
    /\ slips \in 0 .. MaxSlips

\* The requests and responses on the connection are one for the actor that waits,
\* the last of them, and one for every heartbeat task that was stopped between its
\* request and the response: nothing else puts the exchanges out of step.
InStep ==
    open =>
        /\ Len(replies) + Len(sent) = slips + Cardinality(Waiting)
        /\ \A a \in Waiting :
              /\ sent # <<>> => sent[Len(sent)] = [by |-> a, kind |-> Asked(a)]
              /\ sent = <<>> => /\ replies[Len(replies)].by = a
                                /\ replies[Len(replies)].kind = Asked(a)

\* Unless a heartbeat was stopped in the middle, the response that a call or a
\* task reads is the answer to the request it sent, although responses are told
\* apart by kind alone and several actors take turns on one connection.
AnswersOwn ==
    slips = 0 =>
        \A a \in Waiting : replies # <<>> =>
            Len(replies) = 1 /\ Head(replies).by = a /\ Head(replies).kind = Asked(a)

\* A heartbeat task that runs is the consumer's own, which leave_group and Drop
\* stop, or one that a second join_group forgot: none outlives its consumer.
TasksOwned ==
    \A i \in Tasks : at[i] # "gone" => i \in {handle} \cup leaked

\* As long as the connection lasts, a consumer that is in a group has a running
\* heartbeat task, whatever the broker answers to heartbeats, unless it tried to
\* leave or its join failed while it fetched the committed offsets.
HeartbeatsGoOn ==
    (open /\ ~dropped /\ member /\ ~adrift /\ call.op # "join_group") =>
        handle # 0 /\ at[handle] # "gone"

\* Every call of the application returns, also when heartbeats queue for the
\* connection again and again and when the connection is lost: there are no
\* timeouts, so it rests on the broker answering every request that it reads.
CallsReturn == (call # NoCall) ~> (call = NoCall)

=============================================================================
