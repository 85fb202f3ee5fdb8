-------------------------- MODULE ConnectionProofs --------------------------
(***************************************************************************)
(* Proofs about Connection: for any partitions and any number of heartbeat *)
(* tasks, the mutex keeps the exchanges on the connection in step, answers *)
(* go to whoever asked, and heartbeat tasks live as long as they should.   *)
(***************************************************************************)
EXTENDS Connection, FiniteSetTheorems, TLAPS

-----------------------------------------------------------------------------
(* The inductive invariant.                                                *)

Ops == {"none", "join_group", "poll_group", "commit_offsets", "subscribe", "poll",
        "fetch", "leave_group"}

Request == [kind : Kinds, partition : Partitions]

States == {"idle", "gone", "sleep", "lock", "wait"}

Response == [by : Actors, kind : Kinds, ok : BOOLEAN, partitions : Seq(Partitions)]

\* What has which type.
Types ==
    /\ call \in [op : Ops, todo : Seq(Request), some : BOOLEAN]
    /\ at \in [Actors -> States]
    /\ queue \in Seq(Actors)
    /\ sent \in Seq([by : Actors, kind : Kinds])
    /\ replies \in Seq(Response)
    /\ open \in BOOLEAN /\ member \in BOOLEAN /\ dropped \in BOOLEAN /\ adrift \in BOOLEAN
    /\ handle \in Actors
    /\ assigned \in Seq(Partitions)
    /\ subscribed \subseteq Partitions /\ offsets \subseteq Partitions
    /\ slips \in 0 .. MaxSlips
    /\ leaked \subseteq Tasks

\* A call has exchanges to do, of the kinds its operation asks for, and the
\* application is in one of them; tasks are never idle, the application is never gone.
Calling ==
    /\ call = NoCall \/ call.todo # <<>>
    /\ at[App] = "idle" <=> call = NoCall
    /\ at[App] \notin {"gone", "sleep"}
    /\ \A i \in Tasks : at[i] # "idle"
    /\ \A j \in DOMAIN call.todo :
          /\ call.op = "join_group" <=> call.todo[j].kind \in {"JoinGroup", "FetchOffset"}
          /\ call.todo[j].kind = "JoinGroup" => Len(call.todo) = 1

\* The mutex, with queue q and the actors where s says: it is queued for once by
\* everyone in an exchange, and whoever waits for an answer holds it.
Queued(q, s) ==
    /\ \A i, j \in DOMAIN q : q[i] = q[j] => i = j
    /\ \A a \in Actors : s[a] \in {"lock", "wait"} <=> \E i \in DOMAIN q : q[i] = a
    /\ \A a \in Actors : s[a] = "wait" => q[1] = a

Mutex == Queued(queue, at)

\* InStep with the number of those who wait written out.
Balance ==
    open =>
        /\ Len(replies) + Len(sent) = slips + (IF \E a \in Actors : at[a] = "wait" THEN 1 ELSE 0)
        /\ \A a \in Actors : at[a] = "wait" =>
              /\ sent # <<>> => sent[Len(sent)] = [by |-> a, kind |-> Asked(a)]
              /\ sent = <<>> => /\ replies[Len(replies)].by = a
                                /\ replies[Len(replies)].kind = Asked(a)

\* AnswersOwn needs it also of a closed connection, on which responses remain to be
\* read: somebody waits for them.
Own ==
    slips = 0 /\ replies # <<>> =>
        /\ Len(replies) = 1
        /\ \E a \in Actors : at[a] = "wait"
        /\ \A a \in Actors : at[a] = "wait" =>
              replies[1].by = a /\ replies[1].kind = Asked(a)

\* The consumer's own task runs as long as the connection lasts.
Beats == open /\ handle # 0 => at[handle] # "gone"

\* HeartbeatsGoOn needs it of a second join_group, until that is answered.
Kept ==
    open /\ ~dropped /\ member /\ ~adrift
        /\ (call.op = "join_group" => call.todo[1].kind = "JoinGroup") => handle # 0

Inv == Types /\ Calling /\ Mutex /\ Balance /\ Own /\ TasksOwned /\ Beats /\ Kept

-----------------------------------------------------------------------------
(* Facts about the mutex.                                                  *)

LEMMA ActorsType == App \in Actors /\ Tasks \subseteq Actors /\ App \notin Tasks
                      /\ \A a \in Actors : a # App => a \in Tasks
  BY ConnectionAssumption DEF App, Actors, Tasks

\* Whoever asks for the mutex gets in line, behind whoever holds it.
LEMMA QueueAppend ==
    ASSUME NEW q \in Seq(Actors), NEW s \in [Actors -> States], Queued(q, s),
           NEW a \in Actors, s[a] \notin {"lock", "wait"}
    PROVE  Queued(Append(q, a), [s EXCEPT ![a] = "lock"]) /\ Append(q, a) \in Seq(Actors)
  <1> DEFINE r == Append(q, a)
             t == [s EXCEPT ![a] = "lock"]
  <1>1. /\ r \in Seq(Actors) /\ Len(q) \in Nat /\ Len(r) = Len(q) + 1
        /\ DOMAIN q = 1 .. Len(q) /\ DOMAIN r = 1 .. Len(q) + 1
        /\ \A i \in 1 .. Len(q) : r[i] = q[i]
        /\ r[Len(q) + 1] = a
    OBVIOUS
  <1>2. \A i \in DOMAIN q : q[i] # a
    BY DEF Queued
  <1>3. \A i, j \in DOMAIN r : r[i] = r[j] => i = j
    BY <1>1, <1>2 DEF Queued
  <1>4. \A b \in Actors : t[b] = IF b = a THEN "lock" ELSE s[b]
    OBVIOUS
  <1> HIDE DEF r, t
  <1>5. ASSUME NEW b \in Actors PROVE t[b] \in {"lock", "wait"} <=> \E i \in DOMAIN r : r[i] = b
    <2>1. CASE b = a
      <3>1. Len(q) + 1 \in DOMAIN r
        BY <1>1
      <3> QED BY <2>1, <1>1, <1>4, <3>1
    <2>2. CASE b # a
      <3>1. (\E i \in DOMAIN r : r[i] = b) <=> (\E i \in DOMAIN q : q[i] = b)
        BY <1>1, <2>2
      <3> QED BY <2>2, <3>1, <1>4 DEF Queued
    <2> QED BY <2>1, <2>2
  <1>6. ASSUME NEW b \in Actors, t[b] = "wait" PROVE r[1] = b
    <2>1. b # a /\ s[b] = "wait" /\ q[1] = b
      BY <1>4, <1>6 DEF Queued
    <2>2. 1 \in DOMAIN q
      BY <2>1, <1>1 DEF Queued
    <2> QED BY <2>1, <2>2, <1>1
  <1> QED BY <1>1, <1>3, <1>5, <1>6 DEF Queued, r, t

\* Whoever is first in line is the one who may send, and nobody waits for an answer.
LEMMA QueueGrant ==
    ASSUME NEW q \in Seq(Actors), NEW s \in [Actors -> States], Queued(q, s),
           NEW a \in Actors, s[a] = "lock", q[1] = a
    PROVE  Queued(q, [s EXCEPT ![a] = "wait"]) /\ \A b \in Actors : s[b] # "wait"
  BY DEF Queued

\* Whoever holds the mutex gives it up: nobody waits for an answer then.
LEMMA QueueTail ==
    ASSUME NEW q \in Seq(Actors), NEW s \in [Actors -> States], Queued(q, s),
           NEW a \in Actors, s[a] \in {"lock", "wait"}, q[1] = a,
           NEW x \in {"idle", "gone", "sleep"}
    PROVE  /\ Queued(Tail(q), [s EXCEPT ![a] = x]) /\ Tail(q) \in Seq(Actors)
           /\ \A b \in Actors : b # a => s[b] # "wait"
  <1> DEFINE r == Tail(q)
             t == [s EXCEPT ![a] = x]
  <1>1. q # <<>> /\ 1 \in DOMAIN q
    BY DEF Queued
  <1>2. /\ r \in Seq(Actors) /\ Len(q) \in Nat /\ Len(q) >= 1
        /\ DOMAIN q = 1 .. Len(q) /\ DOMAIN r = 1 .. Len(q) - 1
        /\ \A i \in 1 .. Len(q) - 1 : r[i] = q[i + 1]
    BY <1>1
  <1>3. \A b \in Actors : t[b] = IF b = a THEN x ELSE s[b]
    OBVIOUS
  <1>4. \A b \in Actors : b # a => s[b] # "wait"
    BY DEF Queued
  <1> HIDE DEF r, t
  <1>5. ASSUME NEW i \in DOMAIN r, NEW j \in DOMAIN r, r[i] = r[j] PROVE i = j
    <2>1. i + 1 \in DOMAIN q /\ j + 1 \in DOMAIN q /\ q[i + 1] = q[j + 1]
      BY <1>2, <1>5
    <2>2. i + 1 = j + 1
      BY <2>1 DEF Queued
    <2> QED BY <2>2, <1>2
  <1>6. ASSUME NEW b \in Actors PROVE t[b] \in {"lock", "wait"} <=> \E i \in DOMAIN r : r[i] = b
    <2>1. CASE b = a
      <3>1. \A i \in DOMAIN r : r[i] # a
        BY <1>1, <1>2 DEF Queued
      <3> QED BY <2>1, <3>1, <1>3
    <2>2. CASE b # a
      <3>1. ASSUME NEW i \in DOMAIN q, q[i] = b PROVE \E j \in DOMAIN r : r[j] = b
        <4>1. i # 1 /\ i - 1 \in DOMAIN r /\ r[i - 1] = b
          BY <2>2, <3>1, <1>2
        <4> QED BY <4>1
      <3>2. ASSUME NEW i \in DOMAIN r, r[i] = b PROVE \E j \in DOMAIN q : q[j] = b
        <4>1. i + 1 \in DOMAIN q /\ q[i + 1] = b
          BY <3>2, <1>2
        <4> QED BY <4>1
      <3>3. (\E i \in DOMAIN r : r[i] = b) <=> (\E i \in DOMAIN q : q[i] = b)
        BY <3>1, <3>2
      <3> QED BY <2>2, <3>3, <1>3 DEF Queued
    <2> QED BY <2>1, <2>2
  <1>7. \A b \in Actors : t[b] # "wait"
    BY <1>3, <1>4
  <1> QED BY <1>2, <1>4, <1>5, <1>6, <1>7 DEF Queued, r, t

\* Whoever is not in line may change without the mutex.
LEMMA QueueAside ==
    ASSUME NEW q \in Seq(Actors), NEW s \in [Actors -> States], Queued(q, s),
           NEW a \in Actors, s[a] \notin {"lock", "wait"}, NEW x \in {"idle", "gone", "sleep"}
    PROVE  Queued(q, [s EXCEPT ![a] = x])
  BY DEF Queued

\* A task that is stopped leaves the line wherever it is.
LEMMA QueueWithout ==
    ASSUME NEW q \in Seq(Actors), NEW s \in [Actors -> States], Queued(q, s), NEW a \in Actors
    PROVE  Queued(Without(q, a), [s EXCEPT ![a] = "gone"]) /\ Without(q, a) \in Seq(Actors)
  <1>1. CASE ~\E i \in DOMAIN q : q[i] = a
    <2>1. Without(q, a) = q /\ s[a] \notin {"lock", "wait"}
      BY <1>1 DEF Without, Queued
    <2> QED BY <2>1, QueueAside
  <1>2. CASE \E i \in DOMAIN q : q[i] = a
    <2> DEFINE k == CHOOSE i \in DOMAIN q : q[i] = a
               r == [j \in 1 .. Len(q) - 1 |-> IF j < k THEN q[j] ELSE q[j + 1]]
               t == [s EXCEPT ![a] = "gone"]
    <2>1. k \in DOMAIN q /\ q[k] = a /\ Without(q, a) = r
      BY <1>2 DEF Without
    <2>2. Len(q) \in Nat /\ DOMAIN q = 1 .. Len(q) /\ k \in 1 .. Len(q)
          /\ \A i \in 1 .. Len(q) : q[i] \in Actors
      BY <2>1
    <2> HIDE DEF k
    <2>3. /\ DOMAIN r = 1 .. Len(q) - 1
          /\ \A j \in 1 .. Len(q) - 1 : r[j] = IF j < k THEN q[j] ELSE q[j + 1]
      OBVIOUS
    <2>4. r \in Seq(Actors)
      BY <2>2
    <2>5. \A b \in Actors : t[b] = IF b = a THEN "gone" ELSE s[b]
      OBVIOUS
    <2> HIDE DEF r, t
    <2>6. ASSUME NEW i \in DOMAIN r, NEW j \in DOMAIN r, r[i] = r[j] PROVE i = j
      <3> DEFINE At(n) == IF n < k THEN n ELSE n + 1
      <3>1. At(i) \in DOMAIN q /\ At(j) \in DOMAIN q /\ q[At(i)] = q[At(j)]
        BY <2>2, <2>3, <2>6
      <3>2. At(i) = At(j)
        BY <3>1 DEF Queued
      <3> QED BY <3>2, <2>2, <2>3
    <2>7. ASSUME NEW b \in Actors PROVE t[b] \in {"lock", "wait"} <=> \E i \in DOMAIN r : r[i] = b
      <3>1. CASE b = a
        <4>1. \A i \in DOMAIN r : r[i] # a
          BY <2>1, <2>2, <2>3 DEF Queued
        <4> QED BY <3>1, <4>1, <2>5
      <3>2. CASE b # a
        <4>1. ASSUME NEW i \in DOMAIN q, q[i] = b PROVE \E j \in DOMAIN r : r[j] = b
          <5>1. CASE i < k
            <6>1. i \in DOMAIN r /\ r[i] = b
              BY <5>1, <4>1, <2>2, <2>3
            <6> QED BY <6>1
          <5>2. CASE ~(i < k)
            <6>1. i # k
              BY <3>2, <4>1, <2>1
            <6>2. i - 1 \in DOMAIN r /\ r[i - 1] = b
              BY <6>1, <5>2, <4>1, <2>2, <2>3
            <6> QED BY <6>2
          <5> QED BY <5>1, <5>2
        <4>2. ASSUME NEW i \in DOMAIN r, r[i] = b PROVE \E j \in DOMAIN q : q[j] = b
          <5>1. i \in DOMAIN q /\ i + 1 \in DOMAIN q /\ (q[i] = b \/ q[i + 1] = b)
            BY <4>2, <2>2, <2>3
          <5> QED BY <5>1
        <4>3. (\E i \in DOMAIN r : r[i] = b) <=> (\E i \in DOMAIN q : q[i] = b)
          BY <4>1, <4>2
        <4> QED BY <3>2, <4>3, <2>5 DEF Queued
      <3> QED BY <3>1, <3>2
    <2>8. ASSUME NEW b \in Actors, t[b] = "wait" PROVE r[1] = b
      <3>1. b # a /\ s[b] = "wait" /\ q[1] = b
        BY <2>5, <2>8 DEF Queued
      <3>2. k # 1 /\ 1 < k
        BY <3>1, <2>1, <2>2
      <3> QED BY <3>1, <3>2, <2>2, <2>3
    <2> QED BY <2>1, <2>4, <2>6, <2>7, <2>8 DEF Queued, t
  <1> QED BY <1>1, <1>2

-----------------------------------------------------------------------------
(* Facts about exchanges.                                                  *)

\* One request per partition.
LEMMA ExchangeType ==
    ASSUME NEW kind \in Kinds, NEW ps \in Seq(Partitions)
    PROVE  /\ Exchange(kind, ps) \in Seq(Request)
           /\ Len(Exchange(kind, ps)) = Len(ps)
           /\ Exchange(kind, ps) = <<>> <=> ps = <<>>
           /\ DOMAIN Exchange(kind, ps) = DOMAIN ps
           /\ \A j \in DOMAIN ps : Exchange(kind, ps)[j].kind = kind
  <1>1. Len(ps) \in Nat /\ DOMAIN ps = 1 .. Len(ps) /\ \A j \in 1 .. Len(ps) : ps[j] \in Partitions
    OBVIOUS
  <1> DEFINE e == [j \in 1 .. Len(ps) |-> [kind |-> kind, partition |-> ps[j]]]
  <1>2. Exchange(kind, ps) = e
    BY <1>1 DEF Exchange
  <1>3. \A j \in 1 .. Len(ps) : [kind |-> kind, partition |-> ps[j]] \in Request
    BY <1>1 DEF Request
  <1>4. e \in Seq(Request) /\ Len(e) = Len(ps) /\ DOMAIN e = 1 .. Len(ps)
    BY <1>1, <1>3
  <1>5. \A j \in DOMAIN ps : e[j].kind = kind
    BY <1>1
  <1> HIDE DEF e
  <1>6. e = <<>> <=> ps = <<>>
    BY <1>1, <1>4
  <1> QED BY <1>1, <1>2, <1>4, <1>5, <1>6

LEMMA SingleType ==
    ASSUME NEW kind \in Kinds
    PROVE  /\ Single(kind) \in Seq(Request) /\ Single(kind) # <<>> /\ Len(Single(kind)) = 1
           /\ DOMAIN Single(kind) = {1} /\ Single(kind)[1].kind = kind
  <1> DEFINE x == [kind |-> kind, partition |-> CHOOSE p \in Partitions : TRUE]
  <1>1. x \in Request /\ x.kind = kind
    BY ConnectionAssumption DEF Request
  <1>2. Single(kind) = <<x>>
    BY DEF Single
  <1> HIDE DEF x
  <1> QED BY <1>1, <1>2

\* The partitions in some order.
LEMMA OrdersType ==
    ASSUME NEW S \in SUBSET Partitions
    PROVE  Orders(S) \subseteq Seq(Partitions)
  <1>1. Cardinality(S) \in Nat
    BY ConnectionAssumption, FS_Subset, FS_CardinalityType
  <1> QED BY <1>1 DEF Orders

\* Whoever is first in line stops waiting: it has read its answer, or has sent
\* nothing, or the connection is closed.
LEMMA LetGo ==
    ASSUME Inv, NEW a \in Actors, queue[1] = a, at[a] \in {"lock", "wait"},
           at'[a] # "wait", \A b \in Actors : b # a /\ at'[b] = "wait" => at[b] = "wait",
           UNCHANGED <<sent, slips, open>>,
           \/ at[a] = "wait" /\ replies # <<>> /\ replies' = Tail(replies)
           \/ at[a] = "lock" /\ replies' = replies
           \/ ~open /\ replies = <<>> /\ replies' = replies
    PROVE  Balance' /\ Own' /\ \A b \in Actors : at'[b] # "wait"
  <1>1. \A b \in Actors : at'[b] # "wait"
    BY DEF Inv, Mutex, Queued
  <1>2. Len(replies) \in Nat /\ Len(sent) \in Nat /\ slips \in Nat
    BY ConnectionAssumption DEF Inv, Types
  <1>3. CASE at[a] = "wait" /\ replies # <<>> /\ replies' = Tail(replies)
    <2>1. Len(replies') = Len(replies) - 1 /\ (Len(replies) = 1 => replies' = <<>>)
      BY <1>3 DEF Inv, Types
    <2>2. open => Len(replies) + Len(sent) = slips + 1
      BY <1>3 DEF Inv, Balance
    <2>3. Balance'
      BY <1>1, <1>2, <2>1, <2>2 DEF Balance
    <2>4. Own'
      BY <1>3, <2>1 DEF Inv, Own
    <2> QED BY <1>1, <2>3, <2>4
  <1>4. CASE at[a] = "lock" /\ replies' = replies
    <2>1. \A b \in Actors : at[b] # "wait"
      BY <1>4 DEF Inv, Mutex, Queued
    <2>2. Balance'
      BY <1>1, <1>4, <2>1 DEF Inv, Balance
    <2>3. Own'
      BY <1>4, <2>1 DEF Inv, Own
    <2> QED BY <1>1, <2>2, <2>3
  <1>5. CASE ~open /\ replies = <<>> /\ replies' = replies
    BY <1>1, <1>5 DEF Balance, Own
  <1> QED BY <1>3, <1>4, <1>5

-----------------------------------------------------------------------------
(* The application's calls.                                                *)

LEMMA NoCallFields ==
    NoCall \in [op : Ops, todo : Seq(Request), some : BOOLEAN] /\ NoCall.todo = <<>>
        /\ NoCall.op = "none"
  BY DEF NoCall, Ops

LEMMA InitInv == Init => Inv
  <1> SUFFICES ASSUME Init PROVE Inv
    OBVIOUS
  <1> USE ConnectionAssumption, ActorsType, NoCallFields DEF Init
  <1>1. Types
    BY DEF Types, States, App
  <1>2. Calling
    BY DEF Calling
  <1>3. Mutex
    BY DEF Mutex, Queued
  <1>4. Balance /\ Own
    BY DEF Balance, Own
  <1>5. TasksOwned
    BY DEF TasksOwned
  <1>6. Beats /\ Kept
    BY DEF Beats, Kept
  <1> QED BY <1>1, <1>2, <1>3, <1>4, <1>5, <1>6 DEF Inv

\* A call begins; what the tasks wait for stays what it is.
LEMMA BeginStep ==
    ASSUME Inv, NEW op \in Ops \ {"none", "leave_group"}, NEW todo \in Seq(Request),
           Begin(op, todo),
           \A j \in DOMAIN todo :
              /\ op = "join_group" <=> todo[j].kind \in {"JoinGroup", "FetchOffset"}
              /\ todo[j].kind = "JoinGroup" => Len(todo) = 1,
           at' = [at EXCEPT ![App] = "lock"],
           queue' = Append(queue, App),
           UNCHANGED <<sent, replies, open, handle, member, assigned, subscribed, offsets,
                       dropped, slips, leaked, adrift>>
    PROVE  Inv'
  <1> USE ActorsType
  <1>1. /\ call = NoCall /\ todo # <<>> /\ call' = [op |-> op, todo |-> todo, some |-> FALSE]
        /\ call'.op = op /\ call'.todo = todo
    BY DEF Begin
  <1>2. /\ at \in [Actors -> States] /\ at[App] = "idle"
        /\ \A b \in Actors : at'[b] = IF b = App THEN "lock" ELSE at[b]
    BY <1>1 DEF Inv, Types, Calling
  <1>3. Mutex' /\ queue' \in Seq(Actors)
    BY <1>2, QueueAppend DEF Inv, Types, Mutex
  <1>4. Types'
    BY <1>1, <1>3 DEF Inv, Types, States
  <1>5. Calling'
    BY <1>1, <1>2, NoCallFields DEF Inv, Calling
  <1>6. \A b \in Actors : at'[b] = "wait" <=> at[b] = "wait"
    BY <1>2
  <1>7. \A b \in Actors : at[b] = "wait" => Asked(b)' = Asked(b)
    BY <1>2 DEF Asked
  <1>8. Balance' /\ Own'
    BY <1>6, <1>7 DEF Inv, Balance, Own
  <1>9. TasksOwned'
    BY <1>2 DEF Inv, TasksOwned
  <1>10. Beats'
    BY <1>2 DEF Inv, Beats, Types, App
  <1>11. Kept'
    BY <1>1, NoCallFields DEF Inv, Kept
  <1> QED BY <1>3, <1>4, <1>5, <1>8, <1>9, <1>10, <1>11 DEF Inv

LEMMA JoinStep == Inv /\ Join => Inv'
  <1> SUFFICES ASSUME Inv, Join PROVE Inv'
    OBVIOUS
  <1> DEFINE todo == Single("JoinGroup")
  <1>1. /\ todo \in Seq(Request) /\ Len(todo) = 1 /\ DOMAIN todo = {1}
        /\ todo[1].kind = "JoinGroup"
    BY SingleType DEF Kinds
  <1>2. Begin("join_group", todo)
    BY DEF Join
  <1> HIDE DEF todo
  <1>3. \A j \in DOMAIN todo : todo[j].kind = "JoinGroup"
    BY <1>1
  <1>4. "join_group" \in Ops \ {"none", "leave_group"}
    BY DEF Ops
  <1> QED BY <1>1, <1>2, <1>3, <1>4, BeginStep DEF Join

LEMMA AskStep == Inv /\ Ask => Inv'
  <1> SUFFICES ASSUME Inv, Ask PROVE Inv'
    OBVIOUS
  <1>1. \E op \in {"poll_group", "commit_offsets", "subscribe", "poll", "fetch"},
           todo \in Seq(Request) :
              /\ Begin(op, todo)
              /\ \A j \in DOMAIN todo :
                    todo[j].kind \in {"Fetch", "CommitOffset", "GetMetadata"}
    <2>1. ASSUME NEW op \in {"poll_group", "commit_offsets", "poll", "fetch"},
                 NEW kind \in {"Fetch", "CommitOffset"}, NEW ps \in Seq(Partitions),
                 Begin(op, Exchange(kind, ps))
          PROVE  <1>1
      <3>1. kind \in Kinds
        BY DEF Kinds
      <3>2. /\ Exchange(kind, ps) \in Seq(Request)
            /\ \A j \in DOMAIN Exchange(kind, ps) :
                  Exchange(kind, ps)[j].kind \in {"Fetch", "CommitOffset", "GetMetadata"}
        BY <3>1, ExchangeType
      <3> QED BY <2>1, <3>2
    <2>2. ASSUME Begin("subscribe", Single("GetMetadata"))
          PROVE  <1>1
      <3>1. /\ Single("GetMetadata") \in Seq(Request)
            /\ \A j \in DOMAIN Single("GetMetadata") : Single("GetMetadata")[j].kind = "GetMetadata"
        BY SingleType DEF Kinds
      <3> QED BY <2>2, <3>1
    <2>3. /\ assigned \in Seq(Partitions)
          /\ Orders(offsets) \subseteq Seq(Partitions) /\ Orders(subscribed) \subseteq Seq(Partitions)
          /\ \A p \in Partitions : <<p>> \in Seq(Partitions)
      <3>1. /\ assigned \in Seq(Partitions) /\ offsets \in SUBSET Partitions
            /\ subscribed \in SUBSET Partitions
        BY DEF Inv, Types
      <3>2. \A p \in Partitions : <<p>> \in Seq(Partitions)
        OBVIOUS
      <3> QED BY <3>1, <3>2, OrdersType
    <2> QED BY <2>1, <2>2, <2>3 DEF Ask
  <1>2. PICK op \in {"poll_group", "commit_offsets", "subscribe", "poll", "fetch"},
             todo \in Seq(Request) :
                /\ Begin(op, todo)
                /\ \A j \in DOMAIN todo :
                      todo[j].kind \in {"Fetch", "CommitOffset", "GetMetadata"}
    BY <1>1
  <1>3. op \in Ops \ {"none", "leave_group"} /\ op # "join_group"
    BY DEF Ops
  <1> QED BY <1>2, <1>3, BeginStep DEF Ask

\* Stopping the task of the handle takes it out of the line and, if it waits for
\* an answer, counts as a slip.
LEMMA AbortFacts ==
    ASSUME Inv, Abort, Slips => slips < MaxSlips, call = NoCall
    PROVE  LET t == [a \in Actors |-> IF a = handle /\ handle # 0 THEN "gone" ELSE at[a]]
           IN  /\ t \in [Actors -> States] /\ t[App] = "idle"
               /\ Queued(Without(queue, handle), t) /\ Without(queue, handle) \in Seq(Actors)
               /\ slips' \in 0 .. MaxSlips /\ slips <= slips'
               /\ \A a \in Actors : t[a] = "wait" => at[a] = "wait" /\ a # App
               /\ slips' = slips => \A a \in Actors : t[a] = "wait" <=> at[a] = "wait"
               /\ slips' # slips => /\ slips' = slips + 1 /\ \E a \in Actors : at[a] = "wait"
                                    /\ \A a \in Actors : t[a] # "wait"
  <1> DEFINE t == [a \in Actors |-> IF a = handle /\ handle # 0 THEN "gone" ELSE at[a]]
  <1> USE ActorsType
  <1>1. /\ at \in [Actors -> States] /\ at[App] = "idle" /\ handle \in Actors
        /\ queue \in Seq(Actors) /\ Queued(queue, at) /\ slips \in 0 .. MaxSlips
    BY DEF Inv, Types, Calling, Mutex
  <1>2. t \in [Actors -> States] /\ t[App] = "idle"
    BY <1>1 DEF States, App
  <1>3. Queued(Without(queue, handle), t) /\ Without(queue, handle) \in Seq(Actors)
    <2>1. CASE handle # 0
      <3>1. t = [at EXCEPT ![handle] = "gone"]
        BY <2>1, <1>1
      <3> HIDE DEF t
      <3> QED BY <3>1, <1>1, QueueWithout
    <2>2. CASE handle = 0
      <3>1. t = at
        BY <2>2, <1>1
      <3>2. ~\E i \in DOMAIN queue : queue[i] = handle
        BY <2>2, <1>1 DEF Queued, App
      <3>3. Without(queue, handle) = queue
        BY <3>2 DEF Without
      <3> HIDE DEF t
      <3> QED BY <3>1, <3>3, <1>1
    <2> QED BY <2>1, <2>2
  <1>4. slips' \in 0 .. MaxSlips /\ slips <= slips' /\ (slips' = slips \/ slips' = slips + 1)
        /\ (slips' = slips <=> ~Slips)
    BY <1>1, ConnectionAssumption DEF Abort
  <1>5. \A a \in Actors : t[a] = "wait" => at[a] = "wait" /\ a # App
    BY <1>1
  <1>6. ASSUME slips' = slips PROVE \A a \in Actors : t[a] = "wait" <=> at[a] = "wait"
    BY <1>4, <1>6 DEF Slips
  <1>7. ASSUME slips' # slips
        PROVE  /\ slips' = slips + 1 /\ \E a \in Actors : at[a] = "wait"
               /\ \A a \in Actors : t[a] # "wait"
    <2>1. handle # 0 /\ at[handle] = "wait"
      BY <1>4, <1>7 DEF Slips
    <2>2. \A a \in Actors : at[a] = "wait" => a = handle
      BY <2>1, <1>1 DEF Queued
    <2> QED BY <2>1, <2>2, <1>1, <1>4, <1>7
  <1> QED BY <1>2, <1>3, <1>4, <1>5, <1>6, <1>7

\* The balance after a task was stopped; s is where the actors are, who are not
\* waiting unless they were when it was.
LEMMA AbortBalance ==
    ASSUME Inv, UNCHANGED <<sent, replies>>, open' => open,
           slips \in Nat, slips' \in Nat, slips <= slips', at[App] = "idle",
           \A a \in Actors : at'[a] = "wait" => at[a] = "wait" /\ a # App,
           slips' = slips => \A a \in Actors : at'[a] = "wait" <=> at[a] = "wait",
           slips' # slips => /\ slips' = slips + 1 /\ \E a \in Actors : at[a] = "wait"
                             /\ \A a \in Actors : at'[a] # "wait"
    PROVE  Balance' /\ Own'
  <1>1. \A a \in Actors : a # App => Asked(a)' = Asked(a)
    BY DEF Asked
  <1>2. CASE slips' = slips
    BY <1>1, <1>2 DEF Inv, Balance, Own
  <1>3. CASE slips' # slips
    <2>1. Balance'
      BY <1>3 DEF Inv, Balance
    <2>2. Own'
      BY <1>3 DEF Own
    <2> QED BY <2>1, <2>2
  <1> QED BY <1>2, <1>3

LEMMA LeaveStep == Inv /\ Leave => Inv'
  <1> SUFFICES ASSUME Inv, Leave PROVE Inv'
    OBVIOUS
  <1> USE ActorsType
  <1> DEFINE t == [a \in Actors |-> IF a = handle /\ handle # 0 THEN "gone" ELSE at[a]]
             todo == Single("LeaveGroup")
  <1>1. /\ Begin("leave_group", todo) /\ Abort /\ (Slips => slips < MaxSlips)
        /\ queue' = Append(Without(queue, handle), App)
        /\ adrift' = TRUE /\ handle' = 0
        /\ UNCHANGED <<sent, replies, open, member, assigned, subscribed, offsets, dropped, leaked>>
    BY DEF Leave, Abort
  <1>2. /\ call = NoCall /\ call' = [op |-> "leave_group", todo |-> todo, some |-> FALSE]
        /\ call'.op = "leave_group" /\ call'.todo = todo
    BY <1>1 DEF Begin
  <1>3. /\ todo \in Seq(Request) /\ todo # <<>> /\ DOMAIN todo = {1}
        /\ todo[1].kind = "LeaveGroup"
    BY SingleType DEF Kinds
  <1> HIDE DEF todo
  <1>4. /\ t \in [Actors -> States] /\ t[App] = "idle"
        /\ Queued(Without(queue, handle), t) /\ Without(queue, handle) \in Seq(Actors)
        /\ slips' \in 0 .. MaxSlips /\ slips <= slips'
        /\ \A a \in Actors : t[a] = "wait" => at[a] = "wait" /\ a # App
        /\ slips' = slips => \A a \in Actors : t[a] = "wait" <=> at[a] = "wait"
        /\ slips' # slips => /\ slips' = slips + 1 /\ \E a \in Actors : at[a] = "wait"
                             /\ \A a \in Actors : t[a] # "wait"
    BY <1>1, <1>2, AbortFacts
  <1>5. at' = [t EXCEPT ![App] = "lock"]
    BY DEF Leave, App
  <1>6. \A i \in Tasks : at'[i] = IF i = handle THEN "gone" ELSE at[i]
    BY <1>5 DEF App
  <1> HIDE DEF t
  <1>7. Mutex' /\ queue' \in Seq(Actors)
    BY <1>1, <1>4, <1>5, QueueAppend DEF Mutex
  <1>8. Types'
    BY <1>1, <1>2, <1>3, <1>4, <1>5, <1>7 DEF Inv, Types, States, Ops, App
  <1>9. \A a \in Actors : at'[a] = IF a = App THEN "lock" ELSE t[a]
    BY <1>4, <1>5
  <1>10. Calling'
    BY <1>2, <1>3, <1>6, <1>9, NoCallFields DEF Inv, Calling
  <1>11. Balance' /\ Own'
    <2>1. slips \in Nat /\ slips' \in Nat /\ at[App] = "idle"
      BY <1>2, <1>4, ConnectionAssumption DEF Inv, Types, Calling
    <2>2. \A a \in Actors : at'[a] = "wait" <=> t[a] = "wait"
      BY <1>4, <1>9
    <2> QED BY <1>1, <1>4, <2>1, <2>2, AbortBalance
  <1>12. TasksOwned'
    BY <1>1, <1>6 DEF Inv, TasksOwned
  <1>13. Beats' /\ Kept'
    BY <1>1 DEF Beats, Kept
  <1> QED BY <1>7, <1>8, <1>10, <1>11, <1>12, <1>13 DEF Inv

LEMMA DropConsumerStep == Inv /\ DropConsumer => Inv'
  <1> SUFFICES ASSUME Inv, DropConsumer PROVE Inv'
    OBVIOUS
  <1> USE ActorsType
  <1> DEFINE t == [a \in Actors |-> IF a = handle /\ handle # 0 THEN "gone" ELSE at[a]]
  <1>1. /\ call = NoCall /\ Abort /\ (Slips => slips < MaxSlips)
        /\ dropped' = TRUE /\ queue' = Without(queue, handle) /\ handle' = 0
        /\ at' = t
        /\ (open' => open) /\ open' \in BOOLEAN
        /\ UNCHANGED <<call, sent, replies, member, assigned, subscribed, offsets, leaked, adrift>>
    BY DEF DropConsumer, Abort, Inv, Types
  <1>2. /\ t \in [Actors -> States] /\ t[App] = "idle"
        /\ Queued(Without(queue, handle), t) /\ Without(queue, handle) \in Seq(Actors)
        /\ slips' \in 0 .. MaxSlips /\ slips <= slips'
        /\ \A a \in Actors : t[a] = "wait" => at[a] = "wait" /\ a # App
        /\ slips' = slips => \A a \in Actors : t[a] = "wait" <=> at[a] = "wait"
        /\ slips' # slips => /\ slips' = slips + 1 /\ \E a \in Actors : at[a] = "wait"
                             /\ \A a \in Actors : t[a] # "wait"
    BY <1>1, AbortFacts
  <1>3. \A i \in Tasks : at'[i] = IF i = handle THEN "gone" ELSE at[i]
    BY <1>1 DEF App
  <1> HIDE DEF t
  <1>4. Mutex' /\ queue' \in Seq(Actors)
    BY <1>1, <1>2 DEF Mutex
  <1>5. Types'
    BY <1>1, <1>2, <1>4 DEF Inv, Types, App
  <1>6. Calling'
    BY <1>1, <1>2, <1>3 DEF Inv, Calling
  <1>7. Balance' /\ Own'
    <2>1. slips \in Nat /\ slips' \in Nat /\ at[App] = "idle"
      BY <1>1, <1>2, ConnectionAssumption DEF Inv, Types, Calling
    <2> QED BY <1>1, <1>2, <2>1, AbortBalance
  <1>8. TasksOwned'
    BY <1>1, <1>3 DEF Inv, TasksOwned
  <1>9. Beats' /\ Kept'
    BY <1>1 DEF Beats, Kept
  <1> QED BY <1>4, <1>5, <1>6, <1>7, <1>8, <1>9 DEF Inv

-----------------------------------------------------------------------------
(* The heartbeat tasks, and sending.                                       *)

LEMMA TickStep ==
    ASSUME Inv, NEW i \in Tasks, Tick(i)
    PROVE  Inv'
  <1> USE ActorsType
  <1>1. /\ at[i] = "sleep" /\ at' = [at EXCEPT ![i] = "lock"] /\ queue' = Append(queue, i)
        /\ UNCHANGED <<call, sent, replies, open, handle, member, assigned, subscribed, offsets,
                       dropped, slips, leaked, adrift>>
    BY DEF Tick
  <1>2. \A b \in Actors : at'[b] = IF b = i THEN "lock" ELSE at[b]
    BY <1>1 DEF Inv, Types
  <1>3. Mutex' /\ queue' \in Seq(Actors)
    BY <1>1, QueueAppend DEF Inv, Types, Mutex
  <1>4. Types'
    BY <1>1, <1>3 DEF Inv, Types, States
  <1>5. Calling'
    BY <1>1, <1>2 DEF Inv, Calling
  <1>6. \A b \in Actors : (at'[b] = "wait" <=> at[b] = "wait") /\ Asked(b)' = Asked(b)
    BY <1>1, <1>2 DEF Asked
  <1>7. Balance' /\ Own'
    BY <1>1, <1>6 DEF Inv, Balance, Own
  <1>8. TasksOwned'
    BY <1>1, <1>2 DEF Inv, TasksOwned
  <1>9. Beats' /\ Kept'
    BY <1>1, <1>2 DEF Inv, Types, Beats, Kept
  <1> QED BY <1>3, <1>4, <1>5, <1>7, <1>8, <1>9 DEF Inv

\* The request becomes the last one on the connection, and its sender the only
\* one who waits.
LEMMA SendStep ==
    ASSUME Inv, NEW a \in Actors, Send(a)
    PROVE  Inv'
  <1> USE ActorsType
  <1>1. /\ at[a] = "lock" /\ Head(queue) = a /\ at' = [at EXCEPT ![a] = "wait"]
        /\ sent' = IF open THEN Append(sent, [by |-> a, kind |-> Asked(a)]) ELSE sent
        /\ UNCHANGED <<call, queue, replies, open, handle, member, assigned, subscribed, offsets,
                       dropped, slips, leaked, adrift>>
    BY DEF Send
  <1>2. /\ at \in [Actors -> States]
        /\ \A b \in Actors : at'[b] = IF b = a THEN "wait" ELSE at[b]
    BY <1>1 DEF Inv, Types
  <1>3. queue \in Seq(Actors) /\ queue # <<>> /\ queue[1] = a
    BY <1>1 DEF Inv, Types, Mutex, Queued
  <1>4. Mutex' /\ \A b \in Actors : at[b] # "wait"
    BY <1>1, <1>2, <1>3, QueueGrant DEF Inv, Mutex
  <1>5. Asked(a) \in Kinds /\ \A b \in Actors : Asked(b)' = Asked(b)
    <2>1. CASE a = App
      <3>1. call.todo \in Seq(Request) /\ call.todo # <<>>
        BY <2>1, <1>1 DEF Inv, Types, Calling
      <3>2. Head(call.todo) \in Request
        BY <3>1
      <3> QED BY <2>1, <3>2, <1>1 DEF Asked, Request
    <2>2. CASE a # App
      BY <2>2, <1>1 DEF Asked, Kinds
    <2> QED BY <2>1, <2>2
  <1>6. /\ sent' \in Seq([by : Actors, kind : Kinds])
        /\ Len(sent) \in Nat
        /\ open => /\ Len(sent') = Len(sent) + 1 /\ sent' # <<>>
                   /\ sent'[Len(sent) + 1] = [by |-> a, kind |-> Asked(a)]
    <2> DEFINE R == [by : Actors, kind : Kinds]
    <2>1. PICK r \in R : r = [by |-> a, kind |-> Asked(a)]
      BY <1>5
    <2>2. sent \in Seq(R) /\ (sent' = Append(sent, r) \/ (~open /\ sent' = sent))
      BY <1>1, <2>1 DEF Inv, Types
    <2> HIDE DEF R
    <2>3. /\ sent' \in Seq(R) /\ Len(sent) \in Nat
          /\ open => /\ Len(sent') = Len(sent) + 1 /\ sent' # <<>>
                     /\ sent'[Len(sent) + 1] = r
      BY <2>2
    <2> QED BY <2>1, <2>3 DEF R
  <1>7. Types'
    BY <1>1, <1>2, <1>6 DEF Inv, Types, States
  <1>8. Calling'
    BY <1>1, <1>2 DEF Inv, Calling
  <1>9. Balance'
    <2> SUFFICES ASSUME open
                 PROVE  /\ Len(replies) + Len(sent') = slips + 1
                        /\ sent' # <<>> /\ sent'[Len(sent')] = [by |-> a, kind |-> Asked(a)]
      BY <1>1, <1>2, <1>4, <1>5 DEF Balance
    <2>1. /\ Len(sent') = Len(sent) + 1 /\ sent'[Len(sent) + 1] = [by |-> a, kind |-> Asked(a)]
          /\ sent' # <<>> /\ Len(sent) \in Nat /\ Len(replies) \in Nat /\ slips \in Nat
      BY <1>6, ConnectionAssumption DEF Inv, Types
    <2>2. Len(replies) + Len(sent) = slips
      BY <1>4, <2>1 DEF Inv, Balance
    <2> QED BY <2>1, <2>2
  <1>10. Own'
    BY <1>1, <1>4 DEF Inv, Own
  <1>11. TasksOwned'
    BY <1>1, <1>2 DEF Inv, TasksOwned
  <1>12. Beats' /\ Kept'
    BY <1>1, <1>2 DEF Inv, Types, Beats, Kept
  <1> QED BY <1>4, <1>7, <1>8, <1>9, <1>10, <1>11, <1>12 DEF Inv

\* A task's exchange is over: it sleeps, or it ends because the connection has.
LEMMA TaskOverStep ==
    ASSUME Inv, NEW i \in Tasks, TaskFails(i) \/ HeartbeatAnswered(i)
    PROVE  Inv'
  <1> USE ActorsType
  <1>1. PICK x \in {"gone", "sleep"} :
           /\ at[i] \in {"lock", "wait"} /\ queue[1] = i
           /\ at' = [at EXCEPT ![i] = x] /\ queue' = Tail(queue)
           /\ x = "gone" => ~open
           /\ \/ at[i] = "wait" /\ replies # <<>> /\ replies' = Tail(replies)
              \/ at[i] = "lock" /\ replies' = replies
              \/ ~open /\ replies = <<>> /\ replies' = replies
           /\ UNCHANGED <<call, sent, open, handle, member, assigned, subscribed, offsets,
                          dropped, slips, leaked, adrift>>
    <2>1. at[i] \in {"lock", "wait"}
      BY DEF TaskFails, HeartbeatAnswered
    <2>2. queue \in Seq(Actors) /\ queue # <<>> /\ (at[i] = "wait" => queue[1] = i)
      BY <2>1 DEF Inv, Types, Mutex, Queued
    <2>3. Head(queue) = queue[1]
      BY <2>2
    <2>4. CASE TaskFails(i)
      BY <2>1, <2>2, <2>3, <2>4 DEF TaskFails
    <2>5. CASE HeartbeatAnswered(i)
      BY <2>1, <2>2, <2>3, <2>5 DEF HeartbeatAnswered
    <2> QED BY <2>4, <2>5
  <1>2. \A b \in Actors : at'[b] = IF b = i THEN x ELSE at[b]
    BY <1>1 DEF Inv, Types
  <1>3. Mutex' /\ queue' \in Seq(Actors)
    BY <1>1, QueueTail DEF Inv, Types, Mutex
  <1>4. Balance' /\ Own'
    BY <1>1, <1>2, LetGo
  <1>5. replies' \in Seq(Response)
    <2>1. replies \in Seq(Response)
      BY DEF Inv, Types
    <2> QED BY <1>1, <2>1
  <1>6. Types'
    BY <1>1, <1>3, <1>5 DEF Inv, Types, States
  <1>7. Calling'
    BY <1>1, <1>2 DEF Inv, Calling
  <1>8. TasksOwned'
    BY <1>1, <1>2 DEF Inv, TasksOwned
  <1>9. Beats' /\ Kept'
    BY <1>1, <1>2 DEF Inv, Types, Beats, Kept
  <1> QED BY <1>3, <1>4, <1>6, <1>7, <1>8, <1>9 DEF Inv

-----------------------------------------------------------------------------
(* The application's exchanges.                                            *)

\* The application holds the mutex, and is done with an exchange: it has read its
\* answer, or has not sent its request, or there is nothing to read any more.
Done ==
    /\ at[App] \in {"lock", "wait"} /\ queue[1] = App
    /\ \/ at[App] = "wait" /\ replies # <<>> /\ replies' = Tail(replies)
       \/ at[App] = "lock" /\ replies' = replies
       \/ ~open /\ replies = <<>> /\ replies' = replies
    /\ UNCHANGED <<sent, open, dropped, slips>>
    /\ member' \in BOOLEAN /\ assigned' \in Seq(Partitions)
    /\ subscribed' \subseteq Partitions /\ offsets' \subseteq Partitions

\* What the application asks for is the first of its exchanges, one of those that
\* its operation makes.
LEMMA AsksFirst ==
    ASSUME Inv, at[App] \in {"lock", "wait"}
    PROVE  /\ queue \in Seq(Actors) /\ queue # <<>> /\ Head(queue) = queue[1]
           /\ call.todo \in Seq(Request) /\ call.todo # <<>> /\ call.op \in Ops
           /\ Head(call.todo) = call.todo[1] /\ 1 \in DOMAIN call.todo
           /\ call.todo[1] \in Request
           /\ call.op = "join_group" <=> call.todo[1].kind \in {"JoinGroup", "FetchOffset"}
           /\ at[App] = "wait" => queue[1] = App
  <1> USE ActorsType
  <1>1. /\ queue \in Seq(Actors) /\ queue # <<>> /\ (at[App] = "wait" => queue[1] = App)
    BY DEF Inv, Types, Mutex, Queued
  <1>2. call.todo \in Seq(Request) /\ call.todo # <<>> /\ call.op \in Ops
    BY DEF Inv, Types, Calling
  <1>3. Head(call.todo) = call.todo[1] /\ 1 \in DOMAIN call.todo /\ call.todo[1] \in Request
    BY <1>2
  <1> QED BY <1>1, <1>2, <1>3 DEF Inv, Calling

LEMMA RepliesType ==
    ASSUME Inv, Done
    PROVE  replies' \in Seq(Response)
  <1>1. replies \in Seq(Response)
    BY DEF Inv, Types
  <1> QED BY <1>1 DEF Done

\* The call goes on with the exchanges that remain, or returns.
LEMMA GoOnStep ==
    ASSUME Inv, Done, NEW todo \in Seq(Request), NEW some \in BOOLEAN, GoOn(todo, some),
           \A j \in DOMAIN todo :
              /\ call.op = "join_group" <=> todo[j].kind \in {"JoinGroup", "FetchOffset"}
              /\ todo[j].kind = "JoinGroup" => Len(todo) = 1,
           UNCHANGED <<handle, leaked>>, adrift' \in BOOLEAN, Kept'
    PROVE  Inv'
  <1> USE ActorsType
  <1>1. /\ at \in [Actors -> States] /\ queue \in Seq(Actors) /\ Queued(queue, at)
        /\ at[App] \in {"lock", "wait"} /\ queue[1] = App
        /\ call \in [op : Ops, todo : Seq(Request), some : BOOLEAN] /\ call # NoCall
    BY DEF Inv, Types, Mutex, Done, Calling
  <1>2. /\ Queued(Tail(queue), [at EXCEPT ![App] = "idle"]) /\ Tail(queue) \in Seq(Actors)
    BY <1>1, QueueTail
  <1>3. /\ Mutex' /\ queue' \in Seq(Actors)
        /\ at' = [at EXCEPT ![App] = IF todo = <<>> THEN "idle" ELSE "lock"]
    <2>1. CASE todo = <<>>
      BY <2>1, <1>2 DEF GoOn, Mutex
    <2>2. CASE todo # <<>>
      <3> DEFINE t == [at EXCEPT ![App] = "idle"]
      <3>1. t \in [Actors -> States] /\ t[App] = "idle" /\ [t EXCEPT ![App] = "lock"] = at'
        BY <2>2, <1>1 DEF GoOn, States
      <3> HIDE DEF t
      <3>2. Queued(Append(Tail(queue), App), [t EXCEPT ![App] = "lock"])
            /\ Append(Tail(queue), App) \in Seq(Actors)
        BY <1>2, <3>1, QueueAppend DEF t
      <3> QED BY <2>2, <3>1, <3>2 DEF GoOn, Mutex
    <2> QED BY <2>1, <2>2
  <1>4. \A b \in Actors : at'[b] = IF b # App THEN at[b] ELSE IF todo = <<>> THEN "idle" ELSE "lock"
    BY <1>1, <1>3
  <1>5. /\ call' \in [op : Ops, todo : Seq(Request), some : BOOLEAN]
        /\ todo = <<>> => call' = NoCall
        /\ todo # <<>> => call'.op = call.op /\ call'.todo = todo
    <2>1. CASE todo = <<>>
      BY <2>1, NoCallFields DEF GoOn
    <2>2. CASE todo # <<>>
      <3>1. call' = [call EXCEPT !.todo = todo, !.some = some]
        BY <2>2 DEF GoOn
      <3> QED BY <2>2, <3>1, <1>1
    <2> QED BY <2>1, <2>2
  <1>6. call'.todo = todo
    BY <1>5, NoCallFields
  <1>7. Balance' /\ Own'
    BY <1>1, <1>4, LetGo DEF Done
  <1>8. Types'
    BY <1>1, <1>3, <1>4, <1>5, RepliesType DEF Inv, Types, Done, States
  <1>9. Calling'
    <2>1. call' = NoCall <=> todo = <<>>
      BY <1>5, <1>6, NoCallFields
    <2>2. at'[App] = "idle" <=> todo = <<>>
      BY <1>4
    <2>3. at'[App] \notin {"gone", "sleep"} /\ \A i \in Tasks : at'[i] # "idle"
      BY <1>4 DEF Inv, Calling
    <2>4. \A j \in DOMAIN todo : call'.op = call.op
      BY <1>5
    <2> QED BY <1>6, <2>1, <2>2, <2>3, <2>4 DEF Calling
  <1>10. TasksOwned'
    BY <1>4 DEF Inv, TasksOwned
  <1>11. Beats'
    BY <1>4 DEF Inv, Types, Beats, Done, App
  <1> QED BY <1>3, <1>7, <1>8, <1>9, <1>10, <1>11 DEF Inv

\* join_group returns, with a task of its own.
LEMMA StartTaskStep ==
    ASSUME Inv, Done, StartTask
    PROVE  Inv'
  <1> USE ActorsType
  <1>1. PICK i \in Tasks :
           /\ at[i] = "gone" /\ call' = NoCall
           /\ at' = [at EXCEPT ![App] = "idle", ![i] = "sleep"]
           /\ queue' = Tail(queue) /\ handle' = i
           /\ leaked' = (leaked \cup ({handle} \ {0})) \ {i} /\ adrift' = FALSE
    BY DEF StartTask
  <1>2. /\ at \in [Actors -> States] /\ queue \in Seq(Actors) /\ Queued(queue, at)
        /\ at[App] \in {"lock", "wait"} /\ queue[1] = App
    BY DEF Inv, Types, Mutex, Done
  <1> DEFINE t == [at EXCEPT ![App] = "idle"]
  <1>3. t \in [Actors -> States] /\ t[i] = "gone" /\ at' = [t EXCEPT ![i] = "sleep"]
    BY <1>1, <1>2 DEF States
  <1>4. Queued(Tail(queue), t) /\ Tail(queue) \in Seq(Actors)
    BY <1>2, QueueTail
  <1>5. \A b \in Actors : at'[b] = IF b = App THEN "idle" ELSE IF b = i THEN "sleep" ELSE at[b]
    BY <1>1, <1>2
  <1> HIDE DEF t
  <1>6. Mutex' /\ queue' \in Seq(Actors)
    <2>1. Queued(Tail(queue), [t EXCEPT ![i] = "sleep"])
      BY <1>3, <1>4, QueueAside
    <2> QED BY <1>1, <1>3, <1>4, <2>1 DEF Mutex
  <1>7. Balance' /\ Own'
    BY <1>2, <1>5, LetGo DEF Done
  <1>8. Types'
    <2>1. at' \in [Actors -> States]
      BY <1>3 DEF States
    <2>2. leaked' \subseteq Tasks
      BY <1>1 DEF Inv, Types, App
    <2> QED BY <1>1, <1>6, <2>1, <2>2, RepliesType, NoCallFields DEF Inv, Types, Done
  <1>9. Calling'
    <2>1. call' = NoCall /\ at'[App] = "idle"
      BY <1>1, <1>5
    <2>2. \A b \in Tasks : at[b] # "idle" /\ b \in Actors /\ b # App
      BY DEF Inv, Calling
    <2>3. \A b \in Tasks : at'[b] # "idle"
      BY <1>5, <2>2
    <2> QED BY <2>1, <2>3, NoCallFields DEF Calling
  <1>10. TasksOwned'
    BY <1>1, <1>5 DEF Inv, TasksOwned, App
  <1>11. Beats' /\ Kept'
    <2>1. handle' = i /\ i # 0 /\ at'[i] = "sleep"
      BY <1>1, <1>5 DEF App
    <2> QED BY <2>1 DEF Beats, Kept
  <1> QED BY <1>6, <1>7, <1>8, <1>9, <1>10, <1>11 DEF Inv

\* The call fails.
LEMMA FailStep ==
    ASSUME Inv, TooLarge \/ CallFails \/ Refused
    PROVE  Inv'
  <1>1. /\ at[App] \in {"lock", "wait"} /\ GoOn(<<>>, FALSE)
        /\ adrift' = (adrift \/ (Head(call.todo).kind = "FetchOffset" /\ handle = 0))
        /\ UNCHANGED <<sent, open, handle, member, assigned, subscribed, offsets, dropped,
                       slips, leaked>>
    BY DEF TooLarge, CallFails, Refused, Reads, FailCall
  <1>2. /\ queue \in Seq(Actors) /\ queue # <<>> /\ Head(queue) = queue[1]
        /\ Head(call.todo) = call.todo[1]
        /\ call.op = "join_group" <=> call.todo[1].kind \in {"JoinGroup", "FetchOffset"}
        /\ at[App] = "wait" => queue[1] = App
    BY <1>1, AsksFirst
  <1>3. queue[1] = App
    BY <1>1, <1>2 DEF TooLarge, CallFails, Refused, Reads
  <1>4. \/ at[App] = "wait" /\ replies # <<>> /\ replies' = Tail(replies)
        \/ at[App] = "lock" /\ replies' = replies
        \/ ~open /\ replies = <<>> /\ replies' = replies
    BY DEF TooLarge, CallFails, Refused, Reads
  <1>5. /\ member \in BOOLEAN /\ assigned \in Seq(Partitions) /\ adrift \in BOOLEAN
        /\ subscribed \subseteq Partitions /\ offsets \subseteq Partitions
    BY DEF Inv, Types
  <1>6. Done
    BY <1>1, <1>3, <1>4, <1>5 DEF Done
  <1>7. call' = NoCall
    BY <1>1 DEF GoOn
  <1>8. Kept'
    BY <1>1, <1>2, <1>7 DEF Inv, Kept
  <1>9. adrift' \in BOOLEAN
    BY <1>1, <1>5
  <1>10. <<>> \in Seq(Request) /\ DOMAIN <<>> = {} /\ FALSE \in BOOLEAN
    OBVIOUS
  <1> QED BY <1>1, <1>6, <1>8, <1>9, <1>10, GoOnStep

\* What is known of an answer that the call accepts.
LEMMA AcceptsFacts ==
    ASSUME Inv, NEW kind \in Kinds, Accepts(kind)
    PROVE  /\ at[App] = "wait" /\ queue[1] = App /\ replies # <<>> /\ replies' = Tail(replies)
           /\ call.todo[1].kind = kind /\ Head(call.todo) = call.todo[1]
           /\ call.todo[1].partition \in Partitions
           /\ call.op = "join_group" <=> kind \in {"JoinGroup", "FetchOffset"}
           /\ call.todo \in Seq(Request) /\ call.todo # <<>>
           /\ Head(replies).partitions \in Seq(Partitions)
  <1>1. at[App] = "wait" /\ replies # <<>> /\ replies' = Tail(replies) /\ Head(call.todo).kind = kind
    BY DEF Accepts, Reads
  <1>2. /\ call.todo \in Seq(Request) /\ call.todo # <<>>
        /\ Head(call.todo) = call.todo[1] /\ call.todo[1] \in Request
        /\ call.op = "join_group" <=> call.todo[1].kind \in {"JoinGroup", "FetchOffset"}
        /\ queue[1] = App
    BY <1>1, AsksFirst
  <1>3. replies \in Seq(Response)
    BY DEF Inv, Types
  <1>4. Head(replies) \in Response
    BY <1>1, <1>3
  <1> QED BY <1>1, <1>2, <1>4 DEF Request, Response

\* The rest of the exchanges is like the first ones.
LEMMA RestFacts ==
    ASSUME Inv, call.todo # <<>>
    PROVE  /\ Tail(call.todo) \in Seq(Request)
           /\ \A j \in DOMAIN Tail(call.todo) :
                 /\ call.op = "join_group" <=>
                       Tail(call.todo)[j].kind \in {"JoinGroup", "FetchOffset"}
                 /\ Tail(call.todo)[j].kind # "JoinGroup"
           /\ Len(call.todo) # 1 => Tail(call.todo) # <<>> /\ 1 \in DOMAIN Tail(call.todo)
  <1> DEFINE s == call.todo
             r == Tail(s)
  <1>1. /\ s \in Seq(Request) /\ s # <<>> /\ call.op \in Ops
        /\ \A j \in DOMAIN s :
              /\ call.op = "join_group" <=> s[j].kind \in {"JoinGroup", "FetchOffset"}
              /\ s[j].kind = "JoinGroup" => Len(s) = 1
    BY DEF Inv, Types, Calling
  <1> HIDE DEF s
  <1>2. /\ r \in Seq(Request) /\ Len(s) \in Nat /\ Len(s) >= 1
        /\ DOMAIN s = 1 .. Len(s) /\ DOMAIN r = 1 .. Len(s) - 1 /\ Len(r) = Len(s) - 1
        /\ \A j \in 1 .. Len(s) - 1 : r[j] = s[j + 1]
    BY <1>1
  <1> HIDE DEF r
  <1>3. \A j \in DOMAIN r : j + 1 \in DOMAIN s /\ r[j] = s[j + 1] /\ Len(s) # 1
    BY <1>2
  <1>4. Len(s) # 1 => 1 \in DOMAIN r
    BY <1>2
  <1>5. 1 \in DOMAIN r => r # <<>>
    BY <1>2
  <1>6. \A j \in DOMAIN r :
            /\ call.op = "join_group" <=> r[j].kind \in {"JoinGroup", "FetchOffset"}
            /\ r[j].kind # "JoinGroup"
    BY <1>1, <1>3
  <1> QED BY <1>2, <1>4, <1>5, <1>6 DEF r, s

LEMMA JoinedStep == Inv /\ Joined => Inv'
  <1> SUFFICES ASSUME Inv, Joined PROVE Inv'
    OBVIOUS
  <1> DEFINE ps == Head(replies).partitions
  <1>1. /\ at[App] = "wait" /\ queue[1] = App /\ replies # <<>> /\ replies' = Tail(replies)
        /\ call.op = "join_group" /\ ps \in Seq(Partitions)
    <2>1. "JoinGroup" \in Kinds /\ Accepts("JoinGroup")
      BY DEF Joined, Kinds
    <2> QED BY <2>1, AcceptsFacts
  <1>2. /\ member' = TRUE /\ assigned' = ps
        /\ UNCHANGED <<sent, open, subscribed, offsets, dropped, slips>>
        /\ IF ps = <<>> THEN StartTask
           ELSE GoOn(Exchange("FetchOffset", ps), FALSE) /\ UNCHANGED <<handle, leaked, adrift>>
    BY DEF Joined
  <1> HIDE DEF ps
  <1>3. Done
    BY <1>1, <1>2 DEF Done, Inv, Types
  <1>4. CASE ps = <<>>
    BY <1>2, <1>3, <1>4, StartTaskStep
  <1>5. CASE ps # <<>>
    <2> DEFINE todo == Exchange("FetchOffset", ps)
    <2>1. /\ todo \in Seq(Request) /\ todo # <<>>
          /\ \A j \in DOMAIN todo : todo[j].kind = "FetchOffset"
      BY <1>1, <1>5, ExchangeType DEF Kinds
    <2>2. GoOn(todo, FALSE) /\ UNCHANGED <<handle, leaked, adrift>>
      BY <1>2, <1>5
    <2> HIDE DEF todo
    <2>3. call'.op = "join_group" /\ call'.todo = todo
      <3>1. call' = [call EXCEPT !.todo = todo, !.some = FALSE]
        BY <2>1, <2>2 DEF GoOn
      <3> QED BY <1>1, <3>1 DEF Inv, Types
    <2>4. todo[1].kind # "JoinGroup"
      BY <2>1
    <2>5. Kept'
      BY <2>3, <2>4 DEF Kept
    <2>6. adrift' \in BOOLEAN /\ FALSE \in BOOLEAN
      BY <2>2 DEF Inv, Types
    <2> QED BY <1>1, <1>3, <2>1, <2>2, <2>5, <2>6, GoOnStep
  <1> QED BY <1>4, <1>5

LEMMA OffsetFetchedStep == Inv /\ OffsetFetched => Inv'
  <1> SUFFICES ASSUME Inv, OffsetFetched PROVE Inv'
    OBVIOUS
  <1>1. /\ at[App] = "wait" /\ queue[1] = App /\ replies # <<>> /\ replies' = Tail(replies)
        /\ call.op = "join_group" /\ call.todo # <<>>
        /\ Head(call.todo).partition \in Partitions
    <2>1. "FetchOffset" \in Kinds /\ Accepts("FetchOffset")
      BY DEF OffsetFetched, Kinds
    <2> QED BY <2>1, AcceptsFacts
  <1>2. /\ offsets' = offsets \cup {Head(call.todo).partition}
        /\ UNCHANGED <<sent, open, member, assigned, subscribed, dropped, slips>>
        /\ IF Len(call.todo) = 1 THEN StartTask
           ELSE GoOn(Tail(call.todo), FALSE) /\ UNCHANGED <<handle, leaked, adrift>>
    BY DEF OffsetFetched
  <1>3. Done
    BY <1>1, <1>2 DEF Done, Inv, Types
  <1>4. CASE Len(call.todo) = 1
    BY <1>2, <1>3, <1>4, StartTaskStep
  <1>5. CASE Len(call.todo) # 1
    <2> DEFINE todo == Tail(call.todo)
    <2>1. /\ todo \in Seq(Request) /\ todo # <<>> /\ 1 \in DOMAIN todo
          /\ \A j \in DOMAIN todo :
                /\ call.op = "join_group" <=> todo[j].kind \in {"JoinGroup", "FetchOffset"}
                /\ todo[j].kind # "JoinGroup"
      BY <1>1, <1>5, RestFacts
    <2>2. GoOn(todo, FALSE) /\ UNCHANGED <<handle, leaked, adrift>>
      BY <1>2, <1>5
    <2> HIDE DEF todo
    <2>3. call'.op = "join_group" /\ call'.todo = todo
      <3>1. call' = [call EXCEPT !.todo = todo, !.some = FALSE]
        BY <2>1, <2>2 DEF GoOn
      <3> QED BY <1>1, <3>1 DEF Inv, Types
    <2>4. Kept'
      BY <2>1, <2>3 DEF Kept
    <2>5. adrift' \in BOOLEAN /\ FALSE \in BOOLEAN
      BY <2>2 DEF Inv, Types
    <2> QED BY <1>3, <2>1, <2>2, <2>4, <2>5, GoOnStep
  <1> QED BY <1>4, <1>5

\* Calls other than join_group leave the handle alone.
LEMMA OtherKept ==
    ASSUME Inv, call.op # "join_group", NEW todo, NEW some, GoOn(todo, some),
           UNCHANGED <<open, dropped, handle, adrift>>, member' => member
    PROVE  Kept'
  <1>1. call'.op # "join_group"
    <2>1. CASE todo = <<>>
      BY <2>1, NoCallFields DEF GoOn
    <2>2. CASE todo # <<>>
      BY <2>2 DEF GoOn, Inv, Types
    <2> QED BY <2>1, <2>2
  <1> QED BY <1>1 DEF Inv, Kept

LEMMA FetchedStep == Inv /\ Fetched => Inv'
  <1> SUFFICES ASSUME Inv, Fetched PROVE Inv'
    OBVIOUS
  <1>1. /\ at[App] = "wait" /\ queue[1] = App /\ replies # <<>> /\ replies' = Tail(replies)
        /\ call.op # "join_group" /\ call.todo # <<>>
        /\ Head(call.todo).partition \in Partitions
    <2>1. "Fetch" \in Kinds /\ Accepts("Fetch")
      BY DEF Fetched, Kinds
    <2> QED BY <2>1, AcceptsFacts
  <1>2. PICK some, moved :
           /\ some = (call.some \/ Head(replies).partitions # <<>>)
           /\ moved \subseteq offsets \cup {Head(call.todo).partition}
           /\ offsets' = moved
           /\ IF Len(call.todo) = 1 /\ call.op = "poll_group" /\ AutoCommit /\ some
              THEN \E o \in Orders(moved) : GoOn(Exchange("CommitOffset", o), some)
              ELSE GoOn(Tail(call.todo), some)
           /\ UNCHANGED <<sent, open, handle, member, assigned, subscribed, dropped, slips,
                          leaked, adrift>>
    BY DEF Fetched
  <1>3. /\ some \in BOOLEAN /\ moved \in SUBSET Partitions /\ adrift' \in BOOLEAN
        /\ UNCHANGED <<handle, leaked, open, dropped, adrift>> /\ (member' => member)
    BY <1>1, <1>2 DEF Inv, Types
  <1>4. Done
    BY <1>1, <1>2, <1>3 DEF Done, Inv, Types
  <1>5. ASSUME NEW o \in Orders(moved), GoOn(Exchange("CommitOffset", o), some)
        PROVE  Inv'
    <2> DEFINE todo == Exchange("CommitOffset", o)
    <2>1. o \in Seq(Partitions)
      BY <1>3, OrdersType
    <2>2. /\ todo \in Seq(Request)
          /\ \A j \in DOMAIN todo : todo[j].kind = "CommitOffset"
      BY <2>1, ExchangeType DEF Kinds
    <2>3. GoOn(todo, some)
      BY <1>5
    <2> HIDE DEF todo
    <2>4. Kept'
      BY <1>1, <1>3, <2>3, OtherKept
    <2> QED BY <1>1, <1>3, <1>4, <2>2, <2>3, <2>4, GoOnStep
  <1>6. ASSUME GoOn(Tail(call.todo), some)
        PROVE  Inv'
    <2>1. Kept'
      BY <1>1, <1>3, <1>6, OtherKept
    <2> QED BY <1>1, <1>3, <1>4, <1>6, <2>1, RestFacts, GoOnStep
  <1> QED BY <1>2, <1>5, <1>6

LEMMA CommittedStep == Inv /\ Committed => Inv'
  <1> SUFFICES ASSUME Inv, Committed PROVE Inv'
    OBVIOUS
  <1>1. /\ at[App] = "wait" /\ queue[1] = App /\ replies # <<>> /\ replies' = Tail(replies)
        /\ call.op # "join_group" /\ call.todo # <<>>
    <2>1. "CommitOffset" \in Kinds /\ Accepts("CommitOffset")
      BY DEF Committed, Kinds
    <2> QED BY <2>1, AcceptsFacts
  <1>2. /\ GoOn(Tail(call.todo), call.some)
        /\ UNCHANGED <<sent, open, handle, member, assigned, subscribed, offsets, dropped,
                       slips, leaked, adrift>>
    BY DEF Committed
  <1>3. Done /\ call.some \in BOOLEAN /\ adrift' \in BOOLEAN
    BY <1>1, <1>2 DEF Done, Inv, Types
  <1>4. Kept'
    BY <1>1, <1>2, OtherKept
  <1> QED BY <1>1, <1>2, <1>3, <1>4, RestFacts, GoOnStep

\* leave_group and subscribe return.
LEMMA ReturnStep == Inv /\ (Left \/ Subscribed) => Inv'
  <1> SUFFICES ASSUME Inv, Left \/ Subscribed PROVE Inv'
    OBVIOUS
  <1>1. PICK kind \in {"LeaveGroup", "GetMetadata"} : Accepts(kind)
    BY DEF Left, Subscribed
  <1>2. /\ at[App] = "wait" /\ queue[1] = App /\ replies # <<>> /\ replies' = Tail(replies)
        /\ call.op # "join_group"
    <2>1. kind \in Kinds /\ kind \notin {"JoinGroup", "FetchOffset"}
      BY DEF Kinds
    <2> QED BY <1>1, <2>1, AcceptsFacts
  <1>3. /\ GoOn(<<>>, FALSE)
        /\ UNCHANGED <<sent, open, handle, dropped, slips, leaked, adrift>>
        /\ member' \in BOOLEAN /\ assigned' \in Seq(Partitions)
        /\ subscribed' \subseteq Partitions /\ offsets' \subseteq Partitions
        /\ (member' => member)
    <2>1. /\ member \in BOOLEAN /\ assigned \in Seq(Partitions) /\ <<>> \in Seq(Partitions)
          /\ subscribed \subseteq Partitions /\ offsets \subseteq Partitions
      BY DEF Inv, Types
    <2>2. CASE Left
      BY <2>1, <2>2 DEF Left
    <2>3. CASE Subscribed
      BY <2>1, <2>3 DEF Subscribed
    <2> QED BY <2>2, <2>3
  <1>4. Done /\ adrift' \in BOOLEAN
    BY <1>2, <1>3 DEF Done, Inv, Types
  <1>5. Kept'
    BY <1>2, <1>3, OtherKept
  <1>6. <<>> \in Seq(Request) /\ DOMAIN <<>> = {} /\ FALSE \in BOOLEAN
    OBVIOUS
  <1> QED BY <1>3, <1>4, <1>5, <1>6, GoOnStep

-----------------------------------------------------------------------------
(* The broker and the network.                                             *)

\* Answers are to whom and to what was asked.
LEMMA AnswersType ==
    ASSUME NEW q \in [by : Actors, kind : Kinds], NEW r \in Answers(q)
    PROVE  r \in Response /\ r.by = q.by /\ r.kind = q.kind
  <1>1. \A ok \in BOOLEAN, ps \in Seq(Partitions) :
           Says(q, ok, ps) \in Response /\ Says(q, ok, ps).by = q.by
             /\ Says(q, ok, ps).kind = q.kind
    BY DEF Says, Response
  <1>2. (CHOOSE p \in Partitions : TRUE) \in Partitions
    BY ConnectionAssumption
  <1>3. <<>> \in Seq(Partitions) /\ <<CHOOSE p \in Partitions : TRUE>> \in Seq(Partitions)
    BY <1>2
  <1>4. UNION {Orders(S) : S \in SUBSET Partitions} \subseteq Seq(Partitions)
    BY OrdersType
  <1>5. \E ok \in BOOLEAN, ps \in Seq(Partitions) : r = Says(q, ok, ps)
    BY <1>3, <1>4 DEF Answers
  <1> QED BY <1>1, <1>5

LEMMA ServeStep == Inv /\ Serve => Inv'
  <1> SUFFICES ASSUME Inv, Serve PROVE Inv'
    OBVIOUS
  <1> DEFINE Q == [by : Actors, kind : Kinds]
  <1>1. /\ open /\ sent # <<>> /\ sent' = Tail(sent)
        /\ UNCHANGED <<call, at, queue, open, handle, member, assigned, subscribed, offsets,
                       dropped, slips, leaked, adrift>>
    BY DEF Serve
  <1>2. PICK r \in Answers(Head(sent)) : replies' = Append(replies, r)
    BY DEF Serve
  <1>3. sent \in Seq(Q) /\ replies \in Seq(Response) /\ slips \in Nat
    BY ConnectionAssumption DEF Inv, Types
  <1> HIDE DEF Q
  <1>4. Head(sent) \in Q /\ Head(sent) = sent[1]
    BY <1>1, <1>3
  <1>5. r \in Response /\ r.by = sent[1].by /\ r.kind = sent[1].kind
    BY <1>4, AnswersType DEF Q
  <1>6. /\ sent' \in Seq(Q) /\ Len(sent) \in Nat /\ Len(sent) >= 1 /\ Len(sent') = Len(sent) - 1
        /\ sent' # <<>> => Len(sent) >= 2 /\ sent'[Len(sent')] = sent[Len(sent)]
        /\ sent' = <<>> => Len(sent) = 1
    <2>1. /\ sent' \in Seq(Q) /\ Len(sent) \in Nat /\ Len(sent) >= 1
          /\ Len(sent') = Len(sent) - 1
          /\ \A i \in 1 .. Len(sent) - 1 : sent'[i] = sent[i + 1]
      BY <1>1, <1>3
    <2>2. sent' # <<>> <=> Len(sent') # 0
      BY <2>1
    <2>3. Len(sent) >= 2 => sent'[Len(sent')] = sent[Len(sent)]
      BY <2>1
    <2> QED BY <2>1, <2>2, <2>3
  <1>7. /\ replies' \in Seq(Response) /\ Len(replies) \in Nat /\ Len(replies') = Len(replies) + 1
        /\ replies'[Len(replies')] = r
    BY <1>2, <1>3, <1>5
  <1>8. Types'
    BY <1>1, <1>6, <1>7 DEF Inv, Types, Q
  <1>9. Calling' /\ Mutex' /\ TasksOwned' /\ Beats' /\ Kept'
    BY <1>1 DEF Inv, Calling, Mutex, TasksOwned, Beats, Kept
  <1>10. \A a \in Actors : Asked(a)' = Asked(a)
    BY <1>1 DEF Asked
  <1>11. \A a \in Actors : at[a] = "wait" => sent[Len(sent)] = [by |-> a, kind |-> Asked(a)]
    BY <1>1 DEF Inv, Balance
  <1>12. Balance'
    <2>1. Len(replies') + Len(sent') = Len(replies) + Len(sent)
      BY <1>6, <1>7
    <2>2. ASSUME NEW a \in Actors, at[a] = "wait"
          PROVE  /\ sent' # <<>> => sent'[Len(sent')] = [by |-> a, kind |-> Asked(a)]
                 /\ sent' = <<>> => r.by = a /\ r.kind = Asked(a)
      BY <2>2, <1>5, <1>6, <1>11
    <2> QED BY <1>1, <1>7, <1>10, <2>1, <2>2 DEF Inv, Balance
  <1>13. Own'
    <2> SUFFICES ASSUME slips = 0
                 PROVE  /\ Len(replies') = 1 /\ \E a \in Actors : at[a] = "wait"
                        /\ \A a \in Actors : at[a] = "wait" => r.by = a /\ r.kind = Asked(a)
      BY <1>1, <1>7, <1>10 DEF Own
    <2>1. Len(sent) = 1 /\ Len(replies) = 0 /\ \E a \in Actors : at[a] = "wait"
      BY <1>1, <1>6, <1>7 DEF Inv, Balance
    <2>2. \A a \in Actors : at[a] = "wait" => r.by = a /\ r.kind = Asked(a)
      BY <1>5, <1>11, <2>1
    <2> QED BY <2>1, <2>2, <1>7
  <1> QED BY <1>8, <1>9, <1>12, <1>13 DEF Inv

\* The connection closes; of the responses on their way some may remain.
LEMMA CloseStep == Inv /\ (Oversized \/ Close) => Inv'
  <1> SUFFICES ASSUME Inv, Oversized \/ Close PROVE Inv'
    OBVIOUS
  <1>1. /\ open' = FALSE /\ sent' = <<>>
        /\ UNCHANGED <<call, at, queue, handle, member, assigned, subscribed, offsets,
                       dropped, slips, leaked, adrift>>
    BY DEF Oversized, Close
  <1>2. replies \in Seq(Response)
    BY DEF Inv, Types
  <1>3. /\ replies' \in Seq(Response) /\ Len(replies') <= Len(replies) /\ Len(replies) \in Nat
        /\ Len(replies') \in Nat
        /\ replies' # <<>> => replies # <<>> /\ replies'[1] = replies[1] /\ Len(replies') >= 1
    <2>1. CASE Oversized
      BY <2>1, <1>2 DEF Oversized
    <2>2. CASE Close
      <3>1. PICK n \in 0 .. Len(replies) : replies' = SubSeq(replies, 1, n)
        BY <2>2 DEF Close
      <3> QED BY <1>2, <3>1
    <2> QED BY <2>1, <2>2
  <1>4. Types'
    <2>1. sent' \in Seq([by : Actors, kind : Kinds])
      BY <1>1
    <2> QED BY <1>1, <1>3, <2>1 DEF Inv, Types
  <1>5. Calling' /\ Mutex' /\ TasksOwned' /\ Beats' /\ Kept' /\ Balance'
    BY <1>1 DEF Inv, Calling, Mutex, TasksOwned, Beats, Kept, Balance
  <1>6. Own'
    <2>1. \A a \in Actors : Asked(a)' = Asked(a)
      BY <1>1 DEF Asked
    <2> SUFFICES ASSUME slips = 0, replies' # <<>>
                 PROVE  /\ Len(replies') = 1 /\ \E a \in Actors : at[a] = "wait"
                        /\ \A a \in Actors : at[a] = "wait" =>
                              replies'[1].by = a /\ replies'[1].kind = Asked(a)
      BY <1>1, <2>1 DEF Own
    <2>2. /\ Len(replies) = 1 /\ \E a \in Actors : at[a] = "wait"
          /\ \A a \in Actors : at[a] = "wait" =>
                replies[1].by = a /\ replies[1].kind = Asked(a)
      BY <1>3 DEF Inv, Own
    <2>3. Len(replies') = 1 /\ replies'[1] = replies[1]
      <3>1. /\ Len(replies') \in Nat /\ Len(replies') <= Len(replies) /\ Len(replies') >= 1
            /\ replies'[1] = replies[1]
        BY <1>3
      <3> QED BY ONLY <2>2, <3>1
    <2> QED BY <2>2, <2>3
  <1> QED BY <1>4, <1>5, <1>6 DEF Inv

LEMMA StutterStep == Inv /\ UNCHANGED vars => Inv'
  BY DEF vars, Inv, Types, Calling, Mutex, Balance, Own, TasksOwned, Beats, Kept, Asked

\* Every step of the application, the tasks, the broker and the network keeps the
\* invariant.
LEMMA NextInv == Inv /\ [Next]_vars => Inv'
  <1> SUFFICES ASSUME Inv, [Next]_vars PROVE Inv'
    OBVIOUS
  <1>1. CASE Join \/ Ask \/ Leave \/ DropConsumer
    BY <1>1, JoinStep, AskStep, LeaveStep, DropConsumerStep
  <1>2. CASE Send(App)
    BY <1>2, ActorsType, SendStep
  <1>3. CASE CallFails \/ Refused \/ TooLarge
    BY <1>3, FailStep
  <1>4. CASE Joined \/ OffsetFetched \/ Fetched \/ Committed \/ Left \/ Subscribed
    BY <1>4, JoinedStep, OffsetFetchedStep, FetchedStep, CommittedStep, ReturnStep
  <1>5. ASSUME NEW i \in Tasks, Tick(i) \/ TaskRun(i) PROVE Inv'
    BY <1>5, ActorsType, TickStep, SendStep, TaskOverStep DEF TaskRun
  <1>6. CASE Serve \/ Oversized \/ Close
    BY <1>6, ServeStep, CloseStep
  <1>7. CASE UNCHANGED vars
    BY <1>7, StutterStep
  <1> QED BY <1>1, <1>2, <1>3, <1>4, <1>5, <1>6, <1>7 DEF Next, AppRun

\* The inductive invariant holds throughout.
LEMMA Invariance == Spec => []Inv
  BY InitInv, NextInv, PTL DEF Spec

-----------------------------------------------------------------------------
(* The theorems.                                                           *)

\* Everyone in an exchange is in the mutex's queue once, and a call lasts as long
\* as its exchanges.
THEOREM ConnectionTypeCorrect == Spec => []TypeOK
  <1>1. ASSUME Inv PROVE TypeOK
    <2> USE ActorsType
    <2>1. ASSUME NEW a \in Actors
          PROVE  Cardinality({i \in DOMAIN queue : queue[i] = a})
                     = IF at[a] \in {"lock", "wait"} THEN 1 ELSE 0
      <3> DEFINE Q == {i \in DOMAIN queue : queue[i] = a}
      <3>1. CASE at[a] \in {"lock", "wait"}
        <4>1. PICK i \in DOMAIN queue : queue[i] = a
          BY <1>1, <3>1 DEF Inv, Mutex, Queued
        <4>2. Q = {i}
          BY <1>1, <4>1 DEF Inv, Mutex, Queued
        <4> HIDE DEF Q
        <4>3. Cardinality(Q) = 1
          BY <4>2, FS_Singleton
        <4> QED BY <4>3, <3>1 DEF Q
      <3>2. CASE at[a] \notin {"lock", "wait"}
        <4>1. Q = {}
          BY <1>1, <3>2 DEF Inv, Mutex, Queued
        <4> HIDE DEF Q
        <4>2. Cardinality(Q) = 0
          BY <4>1, FS_EmptySet
        <4> QED BY <4>2, <3>2 DEF Q
      <3> QED BY <3>1, <3>2
    <2>2. \A i \in DOMAIN replies : replies[i].by \in Actors /\ replies[i].kind \in Kinds
      <3>1. replies \in Seq(Response)
        BY <1>1 DEF Inv, Types
      <3>2. \A i \in DOMAIN replies : replies[i] \in Response
        BY <3>1
      <3> QED BY <3>2 DEF Response
    <2> QED BY <1>1, <2>1, <2>2 DEF TypeOK, Inv, Types, Calling, Request, States
  <1> QED BY <1>1, Invariance, PTL

\* Whatever the application, the tasks, the broker and the network do: as long as
\* the connection is open, a request or a response is on it for the one actor that
\* waits, the last of all, and for every heartbeat that was stopped half-way.
THEOREM ExchangesInStep == Spec => []InStep
  <1>1. ASSUME Inv PROVE InStep
    <2>1. Cardinality(Waiting) = IF \E a \in Actors : at[a] = "wait" THEN 1 ELSE 0
      <3>1. CASE \E a \in Actors : at[a] = "wait"
        <4>1. PICK a \in Actors : at[a] = "wait"
          BY <3>1
        <4>2. Waiting = {a}
          BY <1>1, <4>1 DEF Waiting, Inv, Mutex, Queued
        <4> QED BY <3>1, <4>2, FS_Singleton
      <3>2. CASE ~\E a \in Actors : at[a] = "wait"
        <4>1. Waiting = {}
          BY <3>2 DEF Waiting
        <4> QED BY <3>2, <4>1, FS_EmptySet
      <3> QED BY <3>1, <3>2
    <2> QED BY <1>1, <2>1 DEF Inv, Balance, InStep, Waiting
  <1> QED BY <1>1, Invariance, PTL

\* Until a heartbeat is stopped between its request and the response, whoever reads
\* a response from the shared connection reads the answer to its own request.
THEOREM AnswersGoHome == Spec => []AnswersOwn
  <1>1. ASSUME Inv PROVE AnswersOwn
    <2>1. replies \in Seq(Response)
      BY <1>1 DEF Inv, Types
    <2>2. replies # <<>> => Head(replies) = replies[1]
      BY <2>1
    <2> QED BY <1>1, <2>2 DEF Inv, Own, AnswersOwn, Waiting
  <1> QED BY <1>1, Invariance, PTL

\* Every running heartbeat task is the one that leave_group and Drop stop, or was
\* replaced by a second join_group.
THEOREM TasksHaveOwners == Spec => []TasksOwned
  <1>1. Inv => TasksOwned
    BY DEF Inv
  <1> QED BY <1>1, Invariance, PTL

\* A member whose connection is open has a running heartbeat task, unless it tried
\* to leave or its join failed half-way.
THEOREM MembersBeat == Spec => []HeartbeatsGoOn
  <1>1. Inv => HeartbeatsGoOn
    BY DEF Inv, Beats, Kept, HeartbeatsGoOn
  <1> QED BY <1>1, Invariance, PTL

=============================================================================
