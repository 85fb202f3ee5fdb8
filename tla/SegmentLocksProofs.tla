-------------------------- MODULE SegmentLocksProofs -------------------------
(***************************************************************************)
(* What the locks of a segment guarantee, for any number of tasks: a read  *)
(* finds in the map what the index promises, and no set of tasks waits for *)
(* itself.  Both follow from one table, Hold: which locks a task has at    *)
(* each step of its call, and how.                                         *)
(***************************************************************************)
EXTENDS SegmentLocks, WellFoundedInduction, TLAPS

-----------------------------------------------------------------------------
(* One lock's queue.                                                       *)

Request == [thread : Threads, mode : {"read", "write"}]

\* The i-th request of a queue is granted.
Served(q, i) == i = 1 \/ \A j \in 1 .. i : q[j].mode = "read"

Distinct(q) == \A i, j \in DOMAIN q : q[i].thread = q[j].thread => i = j

\* The task holds the lock in this mode.
Has(q, t, m) == \E i \in DOMAIN q : q[i].thread = t /\ q[i].mode = m /\ Served(q, i)

\* Whatever request the task has is for this mode.
Asks(q, t, m) == \A i \in DOMAIN q : q[i].thread = t => q[i].mode = m

Absent(q, t) == \A i \in DOMAIN q : q[i].thread # t

-----------------------------------------------------------------------------
(* The inductive invariant.                                                *)

\* How a task at step k of call c has lock l.
Hold(c, k, l) ==
    CASE c = "append" ->
           (CASE l = "segments" -> IF k >= 2 THEN "write" ELSE "none"
              [] l = "size" -> IF k = 3 THEN "read" ELSE IF k >= 7 THEN "write" ELSE "none"
              [] l = "log" -> IF k \in 5 .. 11 THEN "write" ELSE IF k >= 13 THEN "read" ELSE "none"
              [] l = "index" -> IF k >= 6 THEN "write" ELSE "none"
              [] l = "next" -> IF k >= 8 THEN "write" ELSE "none"
              [] l = "since" -> IF k >= 9 THEN "write" ELSE "none"
              [] OTHER -> IF k >= 14 THEN "write" ELSE "none")
      [] c = "fetch" ->
           (CASE l = "segments" -> IF k >= 2 THEN "read" ELSE "none"
              [] l = "next" -> IF k \in 3 .. 4 THEN "read" ELSE "none"
              [] l = "mmap" -> IF k >= 6 THEN "read" ELSE "none"
              [] l = "index" -> IF k \in 7 .. 8 THEN "read" ELSE "none"
              [] OTHER -> "none")
      [] c = "flush" ->
           (CASE l = "segments" -> IF k >= 2 THEN "read" ELSE "none"
              [] l = "log" -> IF k >= 3 THEN "write" ELSE "none"
              [] l = "index" -> IF k >= 5 THEN "write" ELSE "none"
              [] OTHER -> "none")
      [] c = "next_offset" ->
           (CASE l = "segments" -> IF k >= 2 THEN "read" ELSE "none"
              [] l = "next" -> IF k >= 3 THEN "read" ELSE "none"
              [] OTHER -> "none")
      [] OTHER -> "none"

\* What lock l's queue has of a task at step k of call c: the lock it holds,
\* or perhaps a request for the lock it is about to take, or nothing.
Row(q, t, c, k, l) ==
    IF Hold(c, k, l) # "none" THEN Has(q, t, Hold(c, k, l))
    ELSE \/ Absent(q, t)
         \/ /\ c \in Calls
            /\ Steps(c)[k].act = "take"
            /\ Steps(c)[k].lock = l
            /\ Asks(q, t, Steps(c)[k].mode)

Types ==
    /\ call \in [Threads -> Calls \union {"none"}]
    /\ step \in [Threads -> 1 .. 15]
    /\ \A t \in Threads : IF call[t] = "none" THEN step[t] = 1
                          ELSE step[t] \in 1 .. Len(Steps(call[t]))
    /\ queue \in [Locks -> Seq(Request)]
    /\ next \in Nat
    /\ mapped \in Nat
    /\ limit \in [Threads -> Nat]
    /\ failed \in BOOLEAN

Queues == \A l \in Locks : Distinct(queue[l])

Rows == \A t \in Threads, l \in Locks : Row(queue[l], t, call[t], step[t], l)

\* The map is behind only while an append is between its write and its remap.
Remapped ==
    \/ failed
    \/ mapped = next
    \/ \E t \in Threads : call[t] = "append" /\ step[t] \in 10 .. 14

Limits == \A t \in Threads : limit[t] <= next

Inv == Types /\ Queues /\ Rows /\ Remapped /\ Limits

-----------------------------------------------------------------------------
(* What asking for a lock and leaving its queue do to the others.          *)

\* Two tasks hold a lock together only as readers.
LEMMA Sharing ==
    ASSUME NEW q \in Seq(Request), Distinct(q), NEW t, NEW u, t # u,
           NEW m, NEW n, Has(q, t, m), Has(q, u, n)
    PROVE  m = "read" /\ n = "read"
  <1>1. PICK i \in DOMAIN q : q[i].thread = t /\ q[i].mode = m /\ Served(q, i)
    BY DEF Has
  <1>2. PICK j \in DOMAIN q : q[j].thread = u /\ q[j].mode = n /\ Served(q, j)
    BY DEF Has
  <1>3. i \in Nat /\ j \in Nat /\ i >= 1 /\ j >= 1 /\ i # j
    BY <1>1, <1>2
  <1>4. CASE i < j
    BY <1>1, <1>2, <1>3, <1>4 DEF Served
  <1>5. CASE j < i
    BY <1>1, <1>2, <1>3, <1>5 DEF Served
  <1> QED BY <1>3, <1>4, <1>5

\* A request at the end of a queue changes nothing for the ones before it.
LEMMA Queueing ==
    ASSUME NEW q \in Seq(Request), Distinct(q), NEW t \in Threads, Absent(q, t),
           NEW m \in {"read", "write"}
    PROVE  LET r == Append(q, [thread |-> t, mode |-> m])
           IN  /\ r \in Seq(Request) /\ Distinct(r)
               /\ Asks(r, t, m)
               /\ (\A i \in DOMAIN q : q[i].mode = "read" /\ m = "read") => Has(r, t, m)
               /\ \A u \in Threads, n \in {"read", "write"} :
                     u # t => /\ Has(q, u, n) => Has(r, u, n)
                              /\ Asks(q, u, n) => Asks(r, u, n)
                              /\ Absent(q, u) => Absent(r, u)
  <1> DEFINE e == [thread |-> t, mode |-> m]
             r == Append(q, e)
  <1>1. e \in Request /\ e.thread = t /\ e.mode = m
    BY DEF Request
  <1> HIDE DEF e
  <1>2. /\ r \in Seq(Request) /\ Len(q) \in Nat /\ Len(r) = Len(q) + 1
        /\ DOMAIN q = 1 .. Len(q) /\ DOMAIN r = 1 .. Len(q) + 1
        /\ r[Len(q) + 1] = e /\ \A i \in 1 .. Len(q) : r[i] = q[i]
    BY <1>1
  <1> HIDE DEF r
  <1>3. Distinct(r)
    BY <1>1, <1>2 DEF Distinct, Absent
  <1>4. Asks(r, t, m)
    BY <1>1, <1>2 DEF Asks, Absent
  <1>5. (\A i \in DOMAIN q : q[i].mode = "read" /\ m = "read") => Has(r, t, m)
    <2> HAVE \A i \in DOMAIN q : q[i].mode = "read" /\ m = "read"
    <2>1. Served(r, Len(q) + 1)
      BY <1>1, <1>2 DEF Served
    <2> QED BY <2>1, <1>1, <1>2 DEF Has
  <1>6. ASSUME NEW u \in Threads, NEW n \in {"read", "write"}, u # t
        PROVE  /\ Has(q, u, n) => Has(r, u, n)
               /\ Asks(q, u, n) => Asks(r, u, n)
               /\ Absent(q, u) => Absent(r, u)
    <2>1. ASSUME Has(q, u, n) PROVE Has(r, u, n)
      <3>1. PICK i \in DOMAIN q : q[i].thread = u /\ q[i].mode = n /\ Served(q, i)
        BY <2>1 DEF Has
      <3>2. i \in DOMAIN r /\ r[i] = q[i] /\ Served(r, i)
        BY <3>1, <1>2 DEF Served
      <3> QED BY <3>1, <3>2 DEF Has
    <2>2. ASSUME Asks(q, u, n) PROVE Asks(r, u, n)
      BY <2>2, <1>6, <1>1, <1>2 DEF Asks
    <2>3. ASSUME Absent(q, u) PROVE Absent(r, u)
      BY <2>3, <1>6, <1>1, <1>2 DEF Absent
    <2> QED BY <2>1, <2>2, <2>3
  <1> QED BY <1>2, <1>3, <1>4, <1>5, <1>6 DEF r, e

\* A task that leaves a queue takes nothing from the others.
LEMMA Leaving ==
    ASSUME NEW q \in Seq(Request), Distinct(q), NEW t \in Threads
    PROVE  LET r == Without(q, t)
           IN  /\ r \in Seq(Request) /\ Distinct(r)
               /\ Absent(r, t)
               /\ \A u \in Threads, n \in {"read", "write"} :
                     u # t => /\ Has(q, u, n) => Has(r, u, n)
                              /\ Asks(q, u, n) => Asks(r, u, n)
                              /\ Absent(q, u) => Absent(r, u)
  <1>1. CASE ~\E i \in DOMAIN q : q[i].thread = t
    <2>1. Without(q, t) = q /\ Absent(q, t)
      BY <1>1 DEF Without, Absent
    <2> QED BY <2>1
  <1>2. CASE \E i \in DOMAIN q : q[i].thread = t
    <2> DEFINE k == CHOOSE i \in DOMAIN q : q[i].thread = t
               r == [j \in 1 .. Len(q) - 1 |-> IF j < k THEN q[j] ELSE q[j + 1]]
               Old(j) == IF j < k THEN j ELSE j + 1
    <2>1. k \in DOMAIN q /\ q[k].thread = t /\ Without(q, t) = r
      BY <1>2 DEF Without
    <2> HIDE DEF k
    <2>2. /\ Len(q) \in Nat /\ DOMAIN q = 1 .. Len(q) /\ k \in 1 .. Len(q)
          /\ \A i \in 1 .. Len(q) : q[i] \in Request
      BY <2>1
    <2>3. /\ DOMAIN r = 1 .. Len(q) - 1
          /\ \A j \in 1 .. Len(q) - 1 : Old(j) \in 1 .. Len(q) /\ Old(j) # k /\ r[j] = q[Old(j)]
      BY <2>2
    <2>4. r \in Seq(Request)
      BY <2>2
    <2> HIDE DEF r
    <2>5. Distinct(r)
      <3> SUFFICES ASSUME NEW i \in DOMAIN r, NEW j \in DOMAIN r, r[i].thread = r[j].thread
                   PROVE  i = j
        BY DEF Distinct
      <3>1. Old(i) = Old(j)
        <4> HIDE DEF Old
        <4> QED BY <2>2, <2>3 DEF Distinct
      <3> QED BY <3>1, <2>2, <2>3
    <2>6. Absent(r, t)
      <3> HIDE DEF Old
      <3> QED BY <2>1, <2>2, <2>3 DEF Absent, Distinct
    <2>7. ASSUME NEW u \in Threads, NEW n \in {"read", "write"}, u # t
          PROVE  /\ Has(q, u, n) => Has(r, u, n)
                 /\ Asks(q, u, n) => Asks(r, u, n)
                 /\ Absent(q, u) => Absent(r, u)
      <3>1. ASSUME Has(q, u, n) PROVE Has(r, u, n)
        <4>1. PICK i \in DOMAIN q : q[i].thread = u /\ q[i].mode = n /\ Served(q, i)
          BY <3>1 DEF Has
        <4>2. i # k /\ i \in 1 .. Len(q)
          BY <4>1, <2>1, <2>2, <2>7
        <4> DEFINE j == IF i < k THEN i ELSE i - 1
        <4>3. j \in 1 .. Len(q) - 1 /\ Old(j) = i /\ j <= i
          BY <4>2, <2>2
        <4>4. \A x \in 1 .. j : x \in 1 .. Len(q) - 1 /\ Old(x) \in 1 .. i
          BY <4>2, <4>3, <2>2
        <4>5. CASE i = 1
          <5>1. j = 1
            BY <4>5, <4>2, <2>2
          <5> QED BY <5>1, <4>1, <4>3, <2>3 DEF Has, Served
        <4>6. CASE i # 1
          <5>1. \A x \in 1 .. i : q[x].mode = "read"
            BY <4>1, <4>6 DEF Served
          <5>2. \A x \in 1 .. j : r[x].mode = "read"
            <6> HIDE DEF Old, j
            <6> QED BY <5>1, <4>4, <2>3
          <5> HIDE DEF Old, j
          <5> QED BY <5>2, <4>1, <4>3, <2>3 DEF Has, Served
        <4> QED BY <4>5, <4>6
      <3>2. ASSUME Asks(q, u, n) PROVE Asks(r, u, n)
        <4> HIDE DEF Old
        <4> QED BY <3>2, <2>2, <2>3 DEF Asks
      <3>3. ASSUME Absent(q, u) PROVE Absent(r, u)
        <4> HIDE DEF Old
        <4> QED BY <3>3, <2>2, <2>3 DEF Absent
      <3> QED BY <3>1, <3>2, <3>3
    <2> QED BY <2>1, <2>4, <2>5, <2>6, <2>7
  <1> QED BY <1>1, <1>2

-----------------------------------------------------------------------------
(* The table and the lists of steps.                                       *)

LEMMA Lengths ==
    /\ Len(Steps("append")) = 15
    /\ Len(Steps("fetch")) = 10
    /\ Len(Steps("flush")) = 6
    /\ Len(Steps("next_offset")) = 3
  BY DEF Steps, AppendSteps, FetchSteps, FlushSteps, NextOffsetSteps

\* How a step of a call changes what the task holds.
Follows(c, k) ==
    LET s == Steps(c)[k] IN
    /\ s.act \in {"take", "give", "do"}
    /\ s.act = "take" =>
          /\ k < Len(Steps(c))
          /\ s.lock \in Locks /\ s.mode \in {"read", "write"}
          /\ Hold(c, k, s.lock) = "none" /\ Hold(c, k + 1, s.lock) = s.mode
          /\ \A l \in Locks : l # s.lock => Hold(c, k + 1, l) = Hold(c, k, l)
    /\ (s.act = "give" /\ k < Len(Steps(c))) =>
          \A l \in Locks :
             Hold(c, k + 1, l) = IF l \in s.locks THEN "none" ELSE Hold(c, k, l)
    /\ s.act = "do" =>
          /\ k < Len(Steps(c))
          /\ \A l \in Locks : Hold(c, k + 1, l) = Hold(c, k, l)

\* The three kinds of steps.
Takes(c, k, x, m) ==
    /\ Steps(c)[k] = Take(x, m)
    /\ k < Len(Steps(c))
    /\ Hold(c, k, x) = "none" /\ Hold(c, k + 1, x) = m
    /\ \A l \in Locks : l # x => Hold(c, k + 1, l) = Hold(c, k, l)

Gives(c, k, X) ==
    /\ Steps(c)[k] = Give(X)
    /\ k < Len(Steps(c)) =>
          \A l \in Locks : Hold(c, k + 1, l) = IF l \in X THEN "none" ELSE Hold(c, k, l)

Does(c, k, w) ==
    /\ Steps(c)[k] = Do(w)
    /\ k < Len(Steps(c))
    /\ \A l \in Locks : Hold(c, k + 1, l) = Hold(c, k, l)

LEMMA StepFollows ==
    ASSUME NEW c, NEW k,
           \/ \E x \in Locks, m \in {"read", "write"} : Takes(c, k, x, m)
           \/ \E X \in SUBSET Locks : Gives(c, k, X)
           \/ \E w \in {"write", "sync", "remap", "limit", "lookup", "decode", "sync_all", "flush"} :
                 Does(c, k, w)
    PROVE  Follows(c, k)
  <1>1. CASE \E x \in Locks, m \in {"read", "write"} : Takes(c, k, x, m)
    <2>1. PICK x \in Locks, m \in {"read", "write"} : Takes(c, k, x, m)
      BY <1>1
    <2>2. Steps(c)[k].act = "take" /\ Steps(c)[k].lock = x /\ Steps(c)[k].mode = m
      BY <2>1 DEF Takes, Take
    <2> QED BY ONLY <2>1, <2>2, x \in Locks, m \in {"read", "write"} DEF Follows, Takes
  <1>2. CASE \E X \in SUBSET Locks : Gives(c, k, X)
    <2>1. PICK X \in SUBSET Locks : Gives(c, k, X)
      BY <1>2
    <2>2. Steps(c)[k].act = "give" /\ Steps(c)[k].locks = X
      BY <2>1 DEF Gives, Give
    <2> QED BY ONLY <2>1, <2>2 DEF Follows, Gives
  <1>3. CASE \E w \in {"write", "sync", "remap", "limit", "lookup", "decode", "sync_all", "flush"} :
                Does(c, k, w)
    <2>1. PICK w : Does(c, k, w)
      BY <1>3
    <2>2. Steps(c)[k].act = "do"
      BY <2>1 DEF Does, Do
    <2> QED BY ONLY <2>1, <2>2 DEF Follows, Does
  <1> QED BY <1>1, <1>2, <1>3

LEMMA AppendList ==
    /\ Steps("append")[1] = Take("segments", "write")
    /\ Steps("append")[2] = Take("size", "read")
    /\ Steps("append")[3] = Give({"size"})
    /\ Steps("append")[4] = Take("log", "write")
    /\ Steps("append")[5] = Take("index", "write")
    /\ Steps("append")[6] = Take("size", "write")
    /\ Steps("append")[7] = Take("next", "write")
    /\ Steps("append")[8] = Take("since", "write")
    /\ Steps("append")[9] = Do("write")
    /\ Steps("append")[10] = Do("sync")
    /\ Steps("append")[11] = Give({"log"})
    /\ Steps("append")[12] = Take("log", "read")
    /\ Steps("append")[13] = Take("mmap", "write")
    /\ Steps("append")[14] = Do("remap")
    /\ Steps("append")[15] = Give({"mmap", "log", "since", "next", "size", "index", "segments"})
  BY DEF Steps, AppendSteps

LEMMA FetchList ==
    /\ Steps("fetch")[1] = Take("segments", "read")
    /\ Steps("fetch")[2] = Take("next", "read")
    /\ Steps("fetch")[3] = Do("limit")
    /\ Steps("fetch")[4] = Give({"next"})
    /\ Steps("fetch")[5] = Take("mmap", "read")
    /\ Steps("fetch")[6] = Take("index", "read")
    /\ Steps("fetch")[7] = Do("lookup")
    /\ Steps("fetch")[8] = Give({"index"})
    /\ Steps("fetch")[9] = Do("decode")
    /\ Steps("fetch")[10] = Give({"mmap", "segments"})
  BY DEF Steps, FetchSteps

LEMMA FlushList ==
    /\ Steps("flush")[1] = Take("segments", "read")
    /\ Steps("flush")[2] = Take("log", "write")
    /\ Steps("flush")[3] = Do("sync_all")
    /\ Steps("flush")[4] = Take("index", "write")
    /\ Steps("flush")[5] = Do("flush")
    /\ Steps("flush")[6] = Give({"index", "log", "segments"})
  BY DEF Steps, FlushSteps

LEMMA NextOffsetList ==
    /\ Steps("next_offset")[1] = Take("segments", "read")
    /\ Steps("next_offset")[2] = Take("next", "read")
    /\ Steps("next_offset")[3] = Give({"next", "segments"})
  BY DEF Steps, NextOffsetSteps

LEMMA AppendFollows ==
    ASSUME NEW k \in 1 .. 15
    PROVE  Follows("append", k)
  <1>0. k \in {1, 2, 3, 4, 5} \/ k \in {6, 7, 8, 9, 10} \/ k \in {11, 12, 13, 14, 15}
    OBVIOUS
  <1>1. CASE k = 1
    <2>1. Takes("append", 1, "segments", "write")
      BY ONLY AppendList, Lengths DEF Takes, Hold, Locks
    <2> QED BY <2>1, <1>1, StepFollows DEF Locks
  <1>2. CASE k = 2
    <2>1. Takes("append", 2, "size", "read")
      BY ONLY AppendList, Lengths DEF Takes, Hold, Locks
    <2> QED BY <2>1, <1>2, StepFollows DEF Locks
  <1>3. CASE k = 3
    <2>1. Gives("append", 3, {"size"})
      BY ONLY AppendList, Lengths DEF Gives, Hold, Locks
    <2> QED BY <2>1, <1>3, StepFollows DEF Locks
  <1>4. CASE k = 4
    <2>1. Takes("append", 4, "log", "write")
      BY ONLY AppendList, Lengths DEF Takes, Hold, Locks
    <2> QED BY <2>1, <1>4, StepFollows DEF Locks
  <1>5. CASE k = 5
    <2>1. Takes("append", 5, "index", "write")
      BY ONLY AppendList, Lengths DEF Takes, Hold, Locks
    <2> QED BY <2>1, <1>5, StepFollows DEF Locks
  <1>6. CASE k = 6
    <2>1. Takes("append", 6, "size", "write")
      BY ONLY AppendList, Lengths DEF Takes, Hold, Locks
    <2> QED BY <2>1, <1>6, StepFollows DEF Locks
  <1>7. CASE k = 7
    <2>1. Takes("append", 7, "next", "write")
      BY ONLY AppendList, Lengths DEF Takes, Hold, Locks
    <2> QED BY <2>1, <1>7, StepFollows DEF Locks
  <1>8. CASE k = 8
    <2>1. Takes("append", 8, "since", "write")
      BY ONLY AppendList, Lengths DEF Takes, Hold, Locks
    <2> QED BY <2>1, <1>8, StepFollows DEF Locks
  <1>9. CASE k = 9
    <2>1. Does("append", 9, "write")
      BY ONLY AppendList, Lengths DEF Does, Hold, Locks
    <2> QED BY <2>1, <1>9, StepFollows DEF Locks
  <1>10. CASE k = 10
    <2>1. Does("append", 10, "sync")
      BY ONLY AppendList, Lengths DEF Does, Hold, Locks
    <2> QED BY <2>1, <1>10, StepFollows DEF Locks
  <1>11. CASE k = 11
    <2>1. Gives("append", 11, {"log"})
      BY ONLY AppendList, Lengths DEF Gives, Hold, Locks
    <2> QED BY <2>1, <1>11, StepFollows DEF Locks
  <1>12. CASE k = 12
    <2>1. Takes("append", 12, "log", "read")
      BY ONLY AppendList, Lengths DEF Takes, Hold, Locks
    <2> QED BY <2>1, <1>12, StepFollows DEF Locks
  <1>13. CASE k = 13
    <2>1. Takes("append", 13, "mmap", "write")
      BY ONLY AppendList, Lengths DEF Takes, Hold, Locks
    <2> QED BY <2>1, <1>13, StepFollows DEF Locks
  <1>14. CASE k = 14
    <2>1. Does("append", 14, "remap")
      BY ONLY AppendList, Lengths DEF Does, Hold, Locks
    <2> QED BY <2>1, <1>14, StepFollows DEF Locks
  <1>15. CASE k = 15
    <2>0. ~(15 < Len(Steps("append")))
      <3>1. Len(Steps("append")) = 15
        BY ONLY Lengths
      <3>2. ~(15 < 15)
        OBVIOUS
      <3> QED BY ONLY <3>1, <3>2, Zenon
    <2>1. Gives("append", 15, {"mmap", "log", "since", "next", "size", "index", "segments"})
      BY <2>0, AppendList, Zenon DEF Gives
    <2> QED BY <2>1, <1>15, StepFollows DEF Locks
  <1> QED BY ONLY <1>0, <1>1, <1>2, <1>3, <1>4, <1>5, <1>6, <1>7, <1>8, <1>9,
                  <1>10, <1>11, <1>12, <1>13, <1>14, <1>15

LEMMA FetchFollows ==
    ASSUME NEW k \in 1 .. 10
    PROVE  Follows("fetch", k)
  <1>0. k \in {1, 2, 3, 4, 5} \/ k \in {6, 7, 8, 9, 10}
    OBVIOUS
  <1>1. CASE k = 1
    <2>1. Takes("fetch", 1, "segments", "read")
      BY ONLY FetchList, Lengths DEF Takes, Hold, Locks
    <2> QED BY <2>1, <1>1, StepFollows DEF Locks
  <1>2. CASE k = 2
    <2>1. Takes("fetch", 2, "next", "read")
      BY ONLY FetchList, Lengths DEF Takes, Hold, Locks
    <2> QED BY <2>1, <1>2, StepFollows DEF Locks
  <1>3. CASE k = 3
    <2>1. Does("fetch", 3, "limit")
      BY ONLY FetchList, Lengths DEF Does, Hold, Locks
    <2> QED BY <2>1, <1>3, StepFollows DEF Locks
  <1>4. CASE k = 4
    <2>1. Gives("fetch", 4, {"next"})
      BY ONLY FetchList, Lengths DEF Gives, Hold, Locks
    <2> QED BY <2>1, <1>4, StepFollows DEF Locks
  <1>5. CASE k = 5
    <2>1. Takes("fetch", 5, "mmap", "read")
      BY ONLY FetchList, Lengths DEF Takes, Hold, Locks
    <2> QED BY <2>1, <1>5, StepFollows DEF Locks
  <1>6. CASE k = 6
    <2>1. Takes("fetch", 6, "index", "read")
      BY ONLY FetchList, Lengths DEF Takes, Hold, Locks
    <2> QED BY <2>1, <1>6, StepFollows DEF Locks
  <1>7. CASE k = 7
    <2>1. Does("fetch", 7, "lookup")
      BY ONLY FetchList, Lengths DEF Does, Hold, Locks
    <2> QED BY <2>1, <1>7, StepFollows DEF Locks
  <1>8. CASE k = 8
    <2>1. Gives("fetch", 8, {"index"})
      BY ONLY FetchList, Lengths DEF Gives, Hold, Locks
    <2> QED BY <2>1, <1>8, StepFollows DEF Locks
  <1>9. CASE k = 9
    <2>1. Does("fetch", 9, "decode")
      BY ONLY FetchList, Lengths DEF Does, Hold, Locks
    <2> QED BY <2>1, <1>9, StepFollows DEF Locks
  <1>10. CASE k = 10
    <2>0. ~(10 < Len(Steps("fetch")))
      <3>1. Len(Steps("fetch")) = 10
        BY ONLY Lengths
      <3>2. ~(10 < 10)
        OBVIOUS
      <3> QED BY ONLY <3>1, <3>2, Zenon
    <2>1. Gives("fetch", 10, {"mmap", "segments"})
      BY <2>0, FetchList, Zenon DEF Gives
    <2> QED BY <2>1, <1>10, StepFollows DEF Locks
  <1> QED BY ONLY <1>0, <1>1, <1>2, <1>3, <1>4, <1>5, <1>6, <1>7, <1>8, <1>9, <1>10

LEMMA FlushFollows ==
    ASSUME NEW k \in 1 .. 6
    PROVE  Follows("flush", k)
  <1>0. k \in {1, 2, 3, 4, 5} \/ k \in {6}
    OBVIOUS
  <1>1. CASE k = 1
    <2>1. Takes("flush", 1, "segments", "read")
      BY ONLY FlushList, Lengths DEF Takes, Hold, Locks
    <2> QED BY <2>1, <1>1, StepFollows DEF Locks
  <1>2. CASE k = 2
    <2>1. Takes("flush", 2, "log", "write")
      BY ONLY FlushList, Lengths DEF Takes, Hold, Locks
    <2> QED BY <2>1, <1>2, StepFollows DEF Locks
  <1>3. CASE k = 3
    <2>1. Does("flush", 3, "sync_all")
      BY ONLY FlushList, Lengths DEF Does, Hold, Locks
    <2> QED BY <2>1, <1>3, StepFollows DEF Locks
  <1>4. CASE k = 4
    <2>1. Takes("flush", 4, "index", "write")
      BY ONLY FlushList, Lengths DEF Takes, Hold, Locks
    <2> QED BY <2>1, <1>4, StepFollows DEF Locks
  <1>5. CASE k = 5
    <2>1. Does("flush", 5, "flush")
      BY ONLY FlushList, Lengths DEF Does, Hold, Locks
    <2> QED BY <2>1, <1>5, StepFollows DEF Locks
  <1>6. CASE k = 6
    <2>0. ~(6 < Len(Steps("flush")))
      <3>1. Len(Steps("flush")) = 6
        BY ONLY Lengths
      <3>2. ~(6 < 6)
        OBVIOUS
      <3> QED BY ONLY <3>1, <3>2, Zenon
    <2>1. Gives("flush", 6, {"index", "log", "segments"})
      BY <2>0, FlushList, Zenon DEF Gives
    <2> QED BY <2>1, <1>6, StepFollows DEF Locks
  <1> QED BY ONLY <1>0, <1>1, <1>2, <1>3, <1>4, <1>5, <1>6

LEMMA NextOffsetFollows ==
    ASSUME NEW k \in 1 .. 3
    PROVE  Follows("next_offset", k)
  <1>0. k \in {1, 2, 3}
    OBVIOUS
  <1>1. CASE k = 1
    <2>1. Takes("next_offset", 1, "segments", "read")
      BY ONLY NextOffsetList, Lengths DEF Takes, Hold, Locks
    <2> QED BY <2>1, <1>1, StepFollows DEF Locks
  <1>2. CASE k = 2
    <2>1. Takes("next_offset", 2, "next", "read")
      BY ONLY NextOffsetList, Lengths DEF Takes, Hold, Locks
    <2> QED BY <2>1, <1>2, StepFollows DEF Locks
  <1>3. CASE k = 3
    <2>0. ~(3 < Len(Steps("next_offset")))
      <3>1. Len(Steps("next_offset")) = 3
        BY ONLY Lengths
      <3>2. ~(3 < 3)
        OBVIOUS
      <3> QED BY ONLY <3>1, <3>2, Zenon
    <2>1. Gives("next_offset", 3, {"next", "segments"})
      BY <2>0, NextOffsetList, Zenon DEF Gives
    <2> QED BY <2>1, <1>3, StepFollows DEF Locks
  <1> QED BY ONLY <1>0, <1>1, <1>2, <1>3

LEMMA CallFollows ==
    ASSUME NEW c \in Calls, NEW k \in 1 .. Len(Steps(c))
    PROVE  Follows(c, k)
  <1>1. CASE c = "append"
    BY <1>1, Lengths, AppendFollows
  <1>2. CASE c = "fetch"
    BY <1>2, Lengths, FetchFollows
  <1>3. CASE c = "flush"
    BY <1>3, Lengths, FlushFollows
  <1>4. CASE c = "next_offset"
    BY <1>4, Lengths, NextOffsetFollows
  <1> QED BY <1>1, <1>2, <1>3, <1>4 DEF Calls

LEMMA HoldModes ==
    ASSUME NEW c \in Calls \union {"none"}, NEW k \in Nat, NEW l \in Locks
    PROVE  /\ Hold(c, k, l) \in {"none", "read", "write"}
           /\ Hold(c, 1, l) = "none"
           /\ Hold("none", k, l) = "none"
  <1>1. CASE c = "append"
    BY <1>1 DEF Hold
  <1>2. CASE c = "fetch"
    BY <1>2 DEF Hold
  <1>3. CASE c = "flush"
    BY <1>3 DEF Hold
  <1>4. CASE c = "next_offset"
    BY <1>4 DEF Hold
  <1>5. CASE c = "none"
    BY <1>5 DEF Hold
  <1> QED BY <1>1, <1>2, <1>3, <1>4, <1>5 DEF Calls

\* Where the fields are read and written.
Places(c, k) ==
    LET s == Steps(c)[k] IN
    /\ (s.act = "do" /\ s.what = "write") <=> (c = "append" /\ k = 9)
    /\ (s.act = "do" /\ s.what = "sync") <=> (c = "append" /\ k = 10)
    /\ (s.act = "do" /\ s.what = "remap") <=> (c = "append" /\ k = 14)
    /\ (s.act = "do" /\ s.what = "limit") <=> (c = "fetch" /\ k = 3)
    /\ (s.act = "do" /\ s.what = "decode") <=> (c = "fetch" /\ k = 9)
    /\ (s.act = "do" /\ s.what \in {"sync_all", "flush"}) => c = "flush"

LEMMA CallPlaces ==
    ASSUME NEW c \in Calls, NEW k \in 1 .. Len(Steps(c))
    PROVE  Places(c, k)
  <1>1. CASE c = "append"
    <2>1. k \in 1 .. 15
      BY <1>1, Lengths
    <2>2. CASE k \in 1 .. 8
      BY ONLY <2>2, <1>1, AppendList DEF Places, Take, Give, Do
    <2>3. CASE k \in 9 .. 11
      BY ONLY <2>3, <1>1, AppendList DEF Places, Take, Give, Do
    <2>4. CASE k \in 12 .. 15
      BY ONLY <2>4, <1>1, AppendList DEF Places, Take, Give, Do
    <2> QED BY ONLY <2>1, <2>2, <2>3, <2>4
  <1>2. CASE c = "fetch"
    <2>1. k \in 1 .. 10
      BY <1>2, Lengths
    <2> QED BY ONLY <2>1, <1>2, FetchList DEF Places, Take, Give, Do
  <1>3. CASE c = "flush"
    <2>1. k \in 1 .. 6
      BY <1>3, Lengths
    <2> QED BY ONLY <2>1, <1>3, FlushList DEF Places, Take, Give, Do
  <1>4. CASE c = "next_offset"
    <2>1. k \in 1 .. 3
      BY <1>4, Lengths
    <2> QED BY ONLY <2>1, <1>4, NextOffsetList DEF Places, Take, Give, Do
  <1> QED BY <1>1, <1>2, <1>3, <1>4 DEF Calls

-----------------------------------------------------------------------------
(* One task's step leaves the other tasks' rows alone.                     *)

\* What queue q has of the tasks other than t, queue r has too.
Kept(q, r, t) ==
    \A u \in Threads, n \in {"read", "write"} :
        u # t => /\ Has(q, u, n) => Has(r, u, n)
                 /\ Asks(q, u, n) => Asks(r, u, n)
                 /\ Absent(q, u) => Absent(r, u)

LEMMA RowStays ==
    ASSUME NEW q, NEW r, NEW t, NEW u \in Threads, u # t, Kept(q, r, t),
           NEW c \in Calls \union {"none"}, NEW k \in Nat,
           c \in Calls => Follows(c, k),
           NEW l \in Locks, Row(q, u, c, k, l)
    PROVE  Row(r, u, c, k, l)
  <1>1. CASE Hold(c, k, l) # "none"
    <2>1. Hold(c, k, l) \in {"read", "write"}
      BY <1>1, HoldModes
    <2>2. Has(q, u, Hold(c, k, l))
      BY <1>1 DEF Row
    <2> QED BY <1>1, <2>1, <2>2 DEF Row, Kept
  <1>2. CASE Hold(c, k, l) = "none" /\ Absent(q, u)
    <2>1. Absent(r, u)
      BY <1>2 DEF Kept
    <2> QED BY <1>2, <2>1 DEF Row
  <1>3. CASE Hold(c, k, l) = "none" /\ ~Absent(q, u)
    <2>1. /\ c \in Calls
          /\ Steps(c)[k].act = "take"
          /\ Steps(c)[k].lock = l
          /\ Asks(q, u, Steps(c)[k].mode)
      BY <1>3 DEF Row
    <2>2. Steps(c)[k].mode \in {"read", "write"}
      BY <2>1 DEF Follows
    <2>3. Asks(r, u, Steps(c)[k].mode)
      BY <2>1, <2>2 DEF Kept
    <2> QED BY <1>3, <2>1, <2>3 DEF Row
  <1> QED BY <1>1, <1>2, <1>3

\* A step of task t to step k of call c, with the queues it leaves.
Moved(t, c, k) ==
    /\ call' = [call EXCEPT ![t] = c]
    /\ step' = [step EXCEPT ![t] = k]
    /\ c \in Calls \union {"none"}
    /\ IF c = "none" THEN k = 1 ELSE k \in 1 .. Len(Steps(c))
    /\ queue' \in [Locks -> Seq(Request)]
    /\ \A l \in Locks : /\ Distinct(queue'[l])
                        /\ Kept(queue[l], queue'[l], t)
                        /\ Row(queue'[l], t, c, k, l)

LEMMA CallLength ==
    ASSUME NEW c \in Calls
    PROVE  Len(Steps(c)) \in 1 .. 15
  <1>1. c \in {"append", "fetch", "flush", "next_offset"}
    BY DEF Calls
  <1> QED BY <1>1, Lengths

LEMMA Moves ==
    ASSUME Inv, NEW t \in Threads, NEW c, NEW k, Moved(t, c, k),
           next' \in Nat, mapped' \in Nat, limit' \in [Threads -> Nat], failed' \in BOOLEAN
    PROVE  Types' /\ Queues' /\ Rows'
  <1>1. Types /\ Queues /\ Rows
    BY DEF Inv
  <1>2. /\ c \in Calls \union {"none"}
        /\ IF c = "none" THEN k = 1 ELSE k \in 1 .. Len(Steps(c))
        /\ queue' \in [Locks -> Seq(Request)]
        /\ call' \in [Threads -> Calls \union {"none"}]
        /\ \A u \in Threads : call'[u] = IF u = t THEN c ELSE call[u]
        /\ \A u \in Threads : step'[u] = IF u = t THEN k ELSE step[u]
    BY <1>1 DEF Moved, Types
  <1>3. k \in 1 .. 15
    <2>1. CASE c = "none"
      BY <2>1, <1>2
    <2>2. CASE c # "none"
      <3>1. c \in Calls /\ k \in 1 .. Len(Steps(c))
        BY <2>2, <1>2
      <3>2. PICK n \in 1 .. 15 : Len(Steps(c)) = n
        BY <3>1, CallLength
      <3>3. k \in 1 .. n
        BY <3>1, <3>2, Zenon
      <3> QED BY <3>3
    <2> QED BY <2>1, <2>2
  <1>4. step' \in [Threads -> 1 .. 15]
    BY <1>1, <1>3 DEF Moved, Types
  <1>5. Types'
    <2>1. \A u \in Threads : IF call'[u] = "none" THEN step'[u] = 1
                             ELSE step'[u] \in 1 .. Len(Steps(call'[u]))
      BY <1>1, <1>2 DEF Types
    <2> QED BY <2>1, <1>2, <1>4 DEF Types
  <1>6. Queues'
    BY DEF Queues, Moved
  <1>7. Rows'
    <2> SUFFICES ASSUME NEW u \in Threads, NEW l \in Locks
                 PROVE  Row(queue'[l], u, call'[u], step'[u], l)
      BY DEF Rows
    <2>1. CASE u = t
      BY <2>1, <1>2 DEF Moved
    <2>2. CASE u # t
      <3>1. /\ call'[u] = call[u] /\ step'[u] = step[u]
            /\ call[u] \in Calls \union {"none"} /\ step[u] \in Nat
            /\ call[u] \in Calls => step[u] \in 1 .. Len(Steps(call[u]))
        BY <2>2, <1>2, <1>1 DEF Types, Calls
      <3>2. call[u] \in Calls => Follows(call[u], step[u])
        BY <3>1, CallFollows
      <3>3. Kept(queue[l], queue'[l], t) /\ Row(queue[l], u, call[u], step[u], l)
        BY <1>1 DEF Moved, Rows
      <3>4. Row(queue'[l], u, call[u], step[u], l)
        BY ONLY <2>2, <3>1, <3>2, <3>3, RowStays, u \in Threads, l \in Locks
      <3> QED BY <3>1, <3>4
    <2> QED BY <2>1, <2>2
  <1> QED BY <1>5, <1>6, <1>7

LEMMA KeptSame ==
    ASSUME NEW q, NEW t
    PROVE  Kept(q, q, t)
  BY DEF Kept

\* The call returns and gives back all it has.
LEMMA ReturnMoves ==
    ASSUME Inv, NEW t \in Threads, Return(t)
    PROVE  Moved(t, "none", 1) /\ limit' \in [Threads -> Nat]
  <1>1. Types /\ Queues
    BY DEF Inv
  <1>2. \A l \in Locks : queue[l] \in Seq(Request) /\ Distinct(queue[l])
    BY <1>1 DEF Types, Queues
  <1>3. \A l \in Locks : queue'[l] = Without(queue[l], t)
    BY DEF Return
  <1>4. \A l \in Locks : /\ queue'[l] \in Seq(Request) /\ Distinct(queue'[l])
                         /\ Absent(queue'[l], t) /\ Kept(queue[l], queue'[l], t)
    BY <1>2, <1>3, Leaving DEF Kept
  <1>5. \A l \in Locks : Hold("none", 1, l) = "none"
    BY HoldModes
  <1>6. \A l \in Locks : Row(queue'[l], t, "none", 1, l)
    BY <1>4, <1>5 DEF Row
  <1>7. queue' \in [Locks -> Seq(Request)]
    BY <1>4 DEF Return
  <1>8. limit' \in [Threads -> Nat]
    BY <1>1 DEF Types, Return
  <1> QED BY <1>4, <1>6, <1>7, <1>8 DEF Moved, Return

-----------------------------------------------------------------------------
(* The actions.                                                            *)

LEMMA BeginMoves ==
    ASSUME Inv, NEW t \in Threads, NEW c \in CallsOf[t], Begin(t, c)
    PROVE  Moved(t, c, 1)
  <1>1. Types /\ Queues /\ Rows /\ c \in Calls
    BY SegmentLocksAssumption DEF Inv, Calls
  <1>2. call[t] = "none" /\ step[t] = 1
    BY <1>1 DEF Begin, Running, Types
  <1>3. call' = [call EXCEPT ![t] = c] /\ queue' = queue /\ step' = [step EXCEPT ![t] = 1]
    BY <1>1, <1>2 DEF Begin, Types
  <1>4. ASSUME NEW l \in Locks PROVE Row(queue[l], t, c, 1, l)
    <2>1. Hold("none", 1, l) = "none" /\ Hold(c, 1, l) = "none"
      BY <1>1, HoldModes
    <2>2. Row(queue[l], t, "none", 1, l)
      BY <1>1, <1>2 DEF Rows
    <2>3. Absent(queue[l], t)
      BY <2>1, <2>2 DEF Row, Calls
    <2> QED BY <2>1, <2>3 DEF Row
  <1>5. \A l \in Locks : Distinct(queue[l]) /\ Kept(queue[l], queue[l], t)
    BY <1>1, KeptSame DEF Queues
  <1>6. 1 \in 1 .. Len(Steps(c)) /\ c # "none"
    <2>1. PICK n \in 1 .. 15 : Len(Steps(c)) = n
      BY <1>1, CallLength
    <2>2. 1 \in 1 .. n
      OBVIOUS
    <2> QED BY <2>1, <2>2, <1>1 DEF Calls
  <1> QED BY <1>1, <1>3, <1>4, <1>5, <1>6 DEF Moved, Types

\* A running task is at a step of its call.
LEMMA RunningAt ==
    ASSUME Inv, NEW t \in Threads, Running(t)
    PROVE  /\ call[t] \in Calls /\ step[t] \in 1 .. Len(Steps(call[t]))
           /\ Len(Steps(call[t])) \in 1 .. 15
           /\ Follows(call[t], step[t]) /\ Places(call[t], step[t])
           /\ At(t) = Steps(call[t])[step[t]]
  <1>1. call[t] \in Calls /\ step[t] \in 1 .. Len(Steps(call[t]))
    BY DEF Inv, Types, Running
  <1> QED BY <1>1, CallFollows, CallPlaces, CallLength DEF At

\* The task goes on to the next step of its call.
Goes(t) == call' = call /\ step' = [step EXCEPT ![t] = step[t] + 1]

LEMMA GoesMoves ==
    ASSUME Inv, NEW t \in Threads, Running(t), Goes(t), step[t] < Len(Steps(call[t])),
           queue' \in [Locks -> Seq(Request)],
           \A l \in Locks : /\ Distinct(queue'[l])
                            /\ Kept(queue[l], queue'[l], t)
                            /\ Row(queue'[l], t, call[t], step[t] + 1, l)
    PROVE  Moved(t, call[t], step[t] + 1)
  <1>1. call[t] \in Calls /\ step[t] \in 1 .. Len(Steps(call[t])) /\ Len(Steps(call[t])) \in 1 .. 15
    BY RunningAt
  <1>2. step[t] + 1 \in 1 .. Len(Steps(call[t])) /\ call[t] # "none"
    BY <1>1 DEF Running
  <1>3. call' = [call EXCEPT ![t] = call[t]]
    BY DEF Inv, Types, Goes
  <1> QED BY <1>1, <1>2, <1>3 DEF Moved, Goes

\* At the next step a lock that does not change hands has the same row.
LEMMA RowGoesOn ==
    ASSUME NEW q, NEW t, NEW c, NEW k, NEW l, Row(q, t, c, k, l),
           Hold(c, k + 1, l) = Hold(c, k, l),
           Steps(c)[k].act = "take" => Steps(c)[k].lock # l
    PROVE  Row(q, t, c, k + 1, l)
  BY DEF Row

LEMMA WorkMoves ==
    ASSUME Inv, NEW t \in Threads, Running(t), At(t).act = "do", Goes(t), queue' = queue
    PROVE  Moved(t, call[t], step[t] + 1)
  <1>1. /\ Follows(call[t], step[t]) /\ At(t) = Steps(call[t])[step[t]]
    BY RunningAt
  <1>2. /\ step[t] < Len(Steps(call[t]))
        /\ \A l \in Locks : Hold(call[t], step[t] + 1, l) = Hold(call[t], step[t], l)
    BY <1>1 DEF Follows
  <1>3. ASSUME NEW l \in Locks
        PROVE  /\ Distinct(queue'[l]) /\ Kept(queue[l], queue'[l], t)
               /\ Row(queue'[l], t, call[t], step[t] + 1, l)
    <2>1. Row(queue[l], t, call[t], step[t], l) /\ Distinct(queue[l])
      BY DEF Inv, Rows, Queues
    <2>2. Row(queue[l], t, call[t], step[t] + 1, l)
      BY <1>1, <1>2, <2>1, RowGoesOn
    <2> QED BY <2>1, <2>2, KeptSame
  <1>4. queue' \in [Locks -> Seq(Request)]
    BY DEF Inv, Types
  <1> QED BY <1>2, <1>3, <1>4, GoesMoves

\* The task enters the lock it waits for.
LEMMA EnterMoves ==
    ASSUME Inv, NEW t \in Threads, Enter(t)
    PROVE  Moved(t, call[t], step[t] + 1)
  <1> DEFINE c == call[t]
             k == step[t]
             x == At(t).lock
             m == At(t).mode
  <1>1. Running(t) /\ Goes(t) /\ queue' = queue /\ At(t).act = "take" /\ Holds(t, x)
    BY DEF Enter, Goes
  <1>2. Follows(c, k) /\ At(t) = Steps(c)[k]
    BY <1>1, RunningAt
  <1>3. /\ k < Len(Steps(c)) /\ x \in Locks
        /\ Hold(c, k, x) = "none" /\ Hold(c, k + 1, x) = m /\ m \in {"read", "write"}
        /\ \A l \in Locks : l # x => Hold(c, k + 1, l) = Hold(c, k, l)
    BY <1>1, <1>2 DEF Follows
  <1>4. Has(queue[x], t, m)
    <2>1. PICK i \in DOMAIN queue[x] : queue[x][i].thread = t /\ Granted(x, i)
      BY <1>1 DEF Holds, Requests
    <2>2. Row(queue[x], t, c, k, x)
      BY <1>3 DEF Inv, Rows
    <2>3. Asks(queue[x], t, m)
      BY <2>1, <2>2, <1>2, <1>3 DEF Row, Absent
    <2>4. queue[x][i].mode = m /\ Served(queue[x], i)
      BY <2>1, <2>3 DEF Asks, Granted, Served
    <2> QED BY <2>1, <2>4 DEF Has
  <1>5. ASSUME NEW l \in Locks
        PROVE  /\ Distinct(queue'[l]) /\ Kept(queue[l], queue'[l], t)
               /\ Row(queue'[l], t, c, k + 1, l)
    <2>1. Row(queue[l], t, c, k, l) /\ Distinct(queue[l])
      BY DEF Inv, Rows, Queues
    <2>2. CASE l # x
      <3>1. Row(queue[l], t, c, k + 1, l)
        BY <1>2, <1>3, <2>1, <2>2, RowGoesOn
      <3> QED BY <1>1, <2>1, <3>1, KeptSame
    <2>3. CASE l = x
      <3>1. Row(queue[x], t, c, k + 1, x)
        BY <1>3, <1>4 DEF Row
      <3> QED BY <1>1, <2>1, <2>3, <3>1, KeptSame
    <2> QED BY <2>2, <2>3
  <1>6. queue' \in [Locks -> Seq(Request)]
    BY <1>1 DEF Inv, Types
  <1> QED BY <1>1, <1>3, <1>5, <1>6, GoesMoves

\* The task asks for its next lock, which it gets at once or waits for.
LEMMA AskMoves ==
    ASSUME Inv, NEW t \in Threads, Ask(t)
    PROVE  \E k \in {step[t], step[t] + 1} : Moved(t, call[t], k)
  <1>0. PICK c, k, x, m : c = call[t] /\ k = step[t] /\ x = At(t).lock /\ m = At(t).mode
    OBVIOUS
  <1> DEFINE e == [thread |-> t, mode |-> m]
             r == Append(queue[x], e)
  <1>1. /\ Running(t) /\ At(t).act = "take" /\ Requests(t, x) = {}
        /\ queue' = [queue EXCEPT ![x] = r] /\ call' = call
        /\ step' = [step EXCEPT ![t] = IF Free(At(t)) THEN k + 1 ELSE k]
    BY <1>0 DEF Ask
  <1>2. /\ Follows(c, k) /\ At(t) = Steps(c)[k] /\ c \in Calls /\ k \in 1 .. Len(Steps(c))
        /\ k \in Nat
    BY <1>0, <1>1, RunningAt
  <1>3. /\ k < Len(Steps(c)) /\ x \in Locks
        /\ Hold(c, k, x) = "none" /\ Hold(c, k + 1, x) = m /\ m \in {"read", "write"}
        /\ \A l \in Locks : l # x => Hold(c, k + 1, l) = Hold(c, k, l)
    BY <1>0, <1>1, <1>2 DEF Follows
  <1>4. queue[x] \in Seq(Request) /\ Distinct(queue[x]) /\ Absent(queue[x], t)
    BY <1>1, <1>3 DEF Inv, Types, Queues, Requests, Absent
  <1>5. /\ r \in Seq(Request) /\ Distinct(r) /\ Asks(r, t, m)
        /\ (\A i \in DOMAIN queue[x] : queue[x][i].mode = "read" /\ m = "read") => Has(r, t, m)
        /\ Kept(queue[x], r, t)
    BY <1>3, <1>4, Queueing DEF Kept
  <1> HIDE DEF r
  <1>6. /\ queue' \in [Locks -> Seq(Request)] /\ queue'[x] = r
        /\ \A l \in Locks : l # x => queue'[l] = queue[l]
    BY <1>1, <1>3, <1>5 DEF Inv, Types
  <1>7. \A l \in Locks : Distinct(queue'[l]) /\ Kept(queue[l], queue'[l], t)
    BY <1>5, <1>6, KeptSame DEF Inv, Queues
  <1>8. \A l \in Locks : Row(queue[l], t, c, k, l)
    BY <1>0 DEF Inv, Rows
  <1>9. CASE Free(At(t))
    <2>1. Has(r, t, m)
      BY <1>9, <1>0, <1>5 DEF Free
    <2>2. Goes(t)
      BY <1>9, <1>0, <1>1 DEF Goes
    <2>3. ASSUME NEW l \in Locks PROVE Row(queue'[l], t, c, k + 1, l)
      <3>1. CASE l = x
        BY <3>1, <2>1, <1>3, <1>6 DEF Row
      <3>2. CASE l # x
        <4>1. Row(queue[l], t, c, k + 1, l)
          BY <3>2, <1>0, <1>2, <1>3, <1>8, RowGoesOn
        <4> QED BY <4>1, <3>2, <1>6
      <3> QED BY <3>1, <3>2
    <2>4. Moved(t, c, k + 1)
      BY <1>0, <1>1, <1>3, <1>6, <1>7, <2>2, <2>3, GoesMoves
    <2> QED BY <2>4, <1>0
  <1>10. CASE ~Free(At(t))
    <2>1. step' = [step EXCEPT ![t] = k] /\ call' = [call EXCEPT ![t] = c]
      BY <1>10, <1>0, <1>1 DEF Inv, Types
    <2>2. ASSUME NEW l \in Locks PROVE Row(queue'[l], t, c, k, l)
      <3>1. CASE l = x
        BY <3>1, <1>0, <1>1, <1>2, <1>3, <1>5, <1>6 DEF Row
      <3>2. CASE l # x
        BY <3>2, <1>6, <1>8
      <3> QED BY <3>1, <3>2
    <2>3. c # "none"
      BY <1>0, <1>1 DEF Running
    <2>4. Moved(t, c, k)
      BY <1>2, <1>6, <1>7, <2>1, <2>2, <2>3 DEF Moved
    <2> QED BY <2>4, <1>0
  <1> QED BY <1>9, <1>10

\* The task gives back some of its locks and goes on.
LEMMA DropMoves ==
    ASSUME Inv, NEW t \in Threads, Drop(t), step[t] # Len(Steps(call[t]))
    PROVE  Moved(t, call[t], step[t] + 1)
  <1> DEFINE c == call[t]
             k == step[t]
             X == At(t).locks
  <1>1. /\ Running(t) /\ Goes(t) /\ At(t).act = "give"
        /\ queue' = [l \in Locks |-> IF l \in X THEN Without(queue[l], t) ELSE queue[l]]
    BY DEF Drop, Goes
  <1>2. /\ Follows(c, k) /\ At(t) = Steps(c)[k] /\ k \in 1 .. Len(Steps(c))
        /\ Len(Steps(c)) \in 1 .. 15
    BY <1>1, RunningAt
  <1>3. k < Len(Steps(c))
    BY <1>2
  <1>4. \A l \in Locks : Hold(c, k + 1, l) = IF l \in X THEN "none" ELSE Hold(c, k, l)
    BY <1>1, <1>2, <1>3 DEF Follows
  <1>5. ASSUME NEW l \in Locks
        PROVE  /\ queue'[l] \in Seq(Request)
               /\ Distinct(queue'[l]) /\ Kept(queue[l], queue'[l], t)
               /\ Row(queue'[l], t, c, k + 1, l)
    <2>1. Row(queue[l], t, c, k, l) /\ Distinct(queue[l]) /\ queue[l] \in Seq(Request)
      BY DEF Inv, Types, Rows, Queues
    <2>2. CASE l \in X
      <3>1. queue'[l] = Without(queue[l], t)
        BY <1>1, <2>2
      <3>2. /\ queue'[l] \in Seq(Request) /\ Distinct(queue'[l])
            /\ Absent(queue'[l], t) /\ Kept(queue[l], queue'[l], t)
        <4>1. /\ Without(queue[l], t) \in Seq(Request) /\ Distinct(Without(queue[l], t))
              /\ Absent(Without(queue[l], t), t) /\ Kept(queue[l], Without(queue[l], t), t)
          BY ONLY <2>1, t \in Threads, Leaving DEF Kept
        <4> QED BY ONLY <4>1, <3>1
      <3> QED BY <1>4, <2>2, <3>2 DEF Row
    <2>3. CASE l \notin X
      <3>1. queue'[l] = queue[l]
        BY <1>1, <2>3
      <3>2. Row(queue[l], t, c, k + 1, l)
        BY <1>1, <1>2, <1>4, <2>1, <2>3, RowGoesOn
      <3> QED BY <2>1, <3>1, <3>2, KeptSame
    <2> QED BY <2>2, <2>3
  <1>6. queue' \in [Locks -> Seq(Request)]
    BY <1>1, <1>5
  <1> QED BY <1>1, <1>3, <1>5, <1>6, GoesMoves

-----------------------------------------------------------------------------
(* The fields.                                                             *)

\* A step that changes no field, taken by no append that has still to remap.
LEMMA FieldsAside ==
    ASSUME Inv, NEW t \in Threads,
           NEW c, NEW k, Moved(t, c, k), UNCHANGED <<next, mapped>>,
           \A u \in Threads : limit'[u] \in {0, limit[u]},
           failed => failed',
           \/ failed'
           \/ ~(call[t] = "append" /\ step[t] \in 10 .. 14)
           \/ (c = "append" /\ k \in 10 .. 14)
    PROVE  Remapped' /\ Limits'
  <1>1. Types /\ Remapped /\ Limits
    BY DEF Inv
  <1>2. /\ \A u \in Threads : call'[u] = IF u = t THEN c ELSE call[u]
        /\ \A u \in Threads : step'[u] = IF u = t THEN k ELSE step[u]
    BY <1>1 DEF Moved, Types
  <1>3. Limits'
    BY <1>1 DEF Limits, Types
  <1>4. CASE failed'
    BY <1>3, <1>4, Zenon DEF Remapped
  <1>5. CASE mapped = next
    BY <1>3, <1>5 DEF Remapped
  <1>6. CASE ~failed' /\ mapped # next
    <2>1. \E u \in Threads : call[u] = "append" /\ step[u] \in 10 .. 14
      BY <1>1, <1>6, Zenon DEF Remapped
    <2>2. PICK u \in Threads : call[u] = "append" /\ step[u] \in 10 .. 14
      BY <2>1
    <2>3. u = t => (c = "append" /\ k \in 10 .. 14)
      BY <2>2, <1>6, Zenon
    <2>4. call'[u] = "append" /\ step'[u] \in 10 .. 14
      BY <2>2, <2>3, <1>2
    <2> QED BY <2>4, <1>3, Zenon DEF Remapped
  <1> QED BY <1>3, <1>4, <1>5, <1>6, Zenon

LEMMA InitInv == Init => Inv
  <1> SUFFICES ASSUME Init PROVE Inv
    OBVIOUS
  <1>1. Types
    <2>1. queue \in [Locks -> Seq(Request)]
      BY DEF Init
    <2>2. \A t \in Threads : IF call[t] = "none" THEN step[t] = 1
                             ELSE step[t] \in 1 .. Len(Steps(call[t]))
      BY DEF Init
    <2>3. call \in [Threads -> Calls \union {"none"}] /\ step \in [Threads -> 1 .. 15]
      BY DEF Init
    <2> QED BY <2>1, <2>2, <2>3 DEF Init, Types
  <1>2. \A l \in Locks : queue[l] = <<>>
    BY DEF Init
  <1>3. Queues
    BY <1>2 DEF Queues, Distinct
  <1>4. Rows
    <2> SUFFICES ASSUME NEW t \in Threads, NEW l \in Locks
                 PROVE  Row(queue[l], t, call[t], step[t], l)
      BY DEF Rows
    <2>1. call[t] = "none" /\ step[t] = 1 /\ Absent(queue[l], t)
      BY <1>2 DEF Init, Absent
    <2>2. Hold("none", 1, l) = "none"
      BY HoldModes
    <2> QED BY <2>1, <2>2 DEF Row
  <1>5. Remapped /\ Limits
    BY DEF Init, Remapped, Limits
  <1> QED BY <1>1, <1>3, <1>4, <1>5 DEF Inv

LEMMA NextInv == Inv /\ [Next]_vars => Inv'
  <1> SUFFICES ASSUME Inv, [Next]_vars PROVE Inv'
    OBVIOUS
  <1>0. Types /\ Limits /\ Remapped
    BY DEF Inv
  <1>1. ASSUME NEW t \in Threads, NEW c \in CallsOf[t], Begin(t, c) PROVE Inv'
    <2>1. Moved(t, c, 1)
      BY <1>1, BeginMoves
    <2>2. UNCHANGED <<next, mapped, limit, failed>> /\ call[t] = "none"
      BY <1>1 DEF Begin, Running
    <2>3. Types' /\ Queues' /\ Rows'
      BY <2>1, <2>2, <1>0, Moves DEF Types
    <2>4. Remapped' /\ Limits'
      BY <2>1, <2>2, <1>0, FieldsAside DEF Types
    <2> QED BY <2>3, <2>4 DEF Inv
  <1>2. ASSUME NEW t \in Threads, Ask(t) PROVE Inv'
    <2>1. PICK k \in {step[t], step[t] + 1} : Moved(t, call[t], k)
      BY <1>2, AskMoves
    <2>2. UNCHANGED <<next, mapped, limit, failed>> /\ Running(t) /\ At(t).act = "take"
      BY <1>2 DEF Ask
    <2>3. Types' /\ Queues' /\ Rows'
      BY <2>1, <2>2, <1>0, Moves DEF Types
    <2>4. ~(call[t] = "append" /\ step[t] = 14)
      BY <2>2, RunningAt DEF Places
    <2>5. (call[t] = "append" /\ step[t] \in 10 .. 14) => k \in 10 .. 14
      BY <2>1, <2>4
    <2>6. Remapped' /\ Limits'
      BY <2>1, <2>2, <2>5, <1>0, FieldsAside DEF Types
    <2> QED BY <2>3, <2>6 DEF Inv
  <1>3. ASSUME NEW t \in Threads, Enter(t) PROVE Inv'
    <2>1. Moved(t, call[t], step[t] + 1)
      BY <1>3, EnterMoves
    <2>2. UNCHANGED <<next, mapped, limit, failed>> /\ Running(t) /\ At(t).act = "take"
      BY <1>3 DEF Enter
    <2>3. Types' /\ Queues' /\ Rows'
      BY <2>1, <2>2, <1>0, Moves DEF Types
    <2>4. ~(call[t] = "append" /\ step[t] = 14)
      BY <2>2, RunningAt DEF Places
    <2>5. (call[t] = "append" /\ step[t] \in 10 .. 14) => step[t] + 1 \in 10 .. 14
      BY <2>4
    <2>6. Remapped' /\ Limits'
      BY <2>1, <2>2, <2>5, <1>0, FieldsAside DEF Types
    <2> QED BY <2>3, <2>6 DEF Inv
  <1>4. ASSUME NEW t \in Threads, Drop(t), step[t] # Len(Steps(call[t])) PROVE Inv'
    <2>1. Moved(t, call[t], step[t] + 1)
      BY <1>4, DropMoves
    <2>2. UNCHANGED <<next, mapped, limit, failed>> /\ Running(t) /\ At(t).act = "give"
      BY <1>4 DEF Drop
    <2>3. Types' /\ Queues' /\ Rows'
      BY <2>1, <2>2, <1>0, Moves DEF Types
    <2>4. ~(call[t] = "append" /\ step[t] = 14)
      BY <2>2, RunningAt DEF Places
    <2>5. (call[t] = "append" /\ step[t] \in 10 .. 14) => step[t] + 1 \in 10 .. 14
      BY <2>4
    <2>6. Remapped' /\ Limits'
      BY <2>1, <2>2, <2>5, <1>0, FieldsAside DEF Types
    <2> QED BY <2>3, <2>6 DEF Inv
  <1>5. ASSUME NEW t \in Threads, Return(t), UNCHANGED <<next, mapped>>, failed' \in BOOLEAN,
               failed => failed',
               failed' \/ ~(call[t] = "append" /\ step[t] \in 10 .. 14)
        PROVE Inv'
    <2>1. Moved(t, "none", 1) /\ limit' \in [Threads -> Nat]
      BY <1>5, ReturnMoves
    <2>2. Types' /\ Queues' /\ Rows'
      BY <2>1, <1>0, <1>5, Moves DEF Types
    <2>3. \A u \in Threads : limit'[u] \in {0, limit[u]}
      BY <1>0, <1>5 DEF Return, Types
    <2>4. Remapped' /\ Limits'
      BY <2>1, <2>3, <1>5, FieldsAside
    <2> QED BY <2>2, <2>4 DEF Inv
  <1>6. ASSUME NEW t \in Threads, Drop(t), step[t] = Len(Steps(call[t])) PROVE Inv'
    <2>1. Return(t) /\ UNCHANGED <<next, mapped, failed>>
      BY <1>6 DEF Drop
    <2>2. call[t] # "append" \/ step[t] = 15
      BY <1>6, Lengths
    <2> QED BY <2>1, <2>2, <1>0, <1>5 DEF Types
  <1>7. ASSUME NEW t \in Threads, ReturnEmpty(t) PROVE Inv'
    <2>1. Return(t) /\ UNCHANGED <<next, mapped, failed>> /\ Running(t) /\ At(t) = Do("limit")
      BY <1>7 DEF ReturnEmpty
    <2>2. At(t).act = "do" /\ At(t).what = "limit"
      BY <2>1 DEF Do
    <2>3. call[t] = "fetch"
      BY <2>1, <2>2, RunningAt DEF Places
    <2> QED BY <2>1, <2>3, <1>0, <1>5 DEF Types
  <1>8. ASSUME NEW t \in Threads, Fail(t) PROVE Inv'
    <2>1. /\ Return(t) /\ UNCHANGED <<next, mapped>> /\ Running(t)
          /\ failed' = (failed \/ At(t) \in {Do("sync"), Do("remap")})
          /\ At(t) \in {Do("write"), Do("sync"), Do("remap"), Do("sync_all"), Do("flush")}
      BY <1>8 DEF Fail
    <2>2. CASE At(t) \in {Do("sync"), Do("remap")}
      <3>1. failed' = TRUE
        BY <2>1, <2>2
      <3> QED BY <2>1, <3>1, <1>5
    <2>3. CASE At(t) \notin {Do("sync"), Do("remap")}
      <3>1. At(t).act = "do" /\ At(t).what \in {"write", "sync_all", "flush"}
        BY <2>1, <2>3 DEF Do
      <3>2. call[t] = "flush" \/ step[t] = 9
        BY <2>1, <3>1, RunningAt DEF Places
      <3>3. failed' = failed
        BY <2>1, <2>3, <1>0 DEF Types
      <3> QED BY <2>1, <3>2, <3>3, <1>0, <1>5 DEF Types
    <2> QED BY <2>2, <2>3
  <1>9. ASSUME NEW t \in Threads, Work(t) PROVE Inv'
    <2>1. /\ Running(t) /\ At(t).act = "do" /\ Goes(t) /\ queue' = queue /\ failed' = failed
          /\ next' = IF At(t).what = "write" THEN next + 1 ELSE next
          /\ mapped' = IF At(t).what = "remap" THEN next ELSE mapped
          /\ limit' = [limit EXCEPT ![t] = IF At(t).what \in {"limit", "lookup"} THEN next ELSE @]
      BY <1>9 DEF Work, Goes
    <2>2. Moved(t, call[t], step[t] + 1)
      BY <2>1, WorkMoves
    <2>3. next' \in Nat /\ mapped' \in Nat /\ limit' \in [Threads -> Nat] /\ next <= next'
      BY <2>1, <1>0 DEF Types
    <2>4. Types' /\ Queues' /\ Rows'
      BY <2>1, <2>2, <2>3, <1>0, Moves DEF Types
    <2>5. Limits'
      BY <2>1, <2>3, <1>0 DEF Limits, Types
    <2>6. /\ (At(t).what = "write") <=> (call[t] = "append" /\ step[t] = 9)
          /\ (At(t).what = "remap") <=> (call[t] = "append" /\ step[t] = 14)
      BY <2>1, RunningAt DEF Places
    <2>7. /\ \A u \in Threads : call'[u] = call[u]
          /\ \A u \in Threads : step'[u] = IF u = t THEN step[t] + 1 ELSE step[u]
      BY <2>1, <1>0 DEF Goes, Types
    <2>8. Remapped'
      <3>1. CASE At(t).what = "write"
        <4>1. call'[t] = "append" /\ step'[t] = 10
          BY <3>1, <2>6, <2>7
        <4> QED BY <4>1 DEF Remapped
      <3>2. CASE At(t).what = "remap"
        <4>1. mapped' = next /\ next' = next
          BY <3>2, <2>1
        <4> QED BY <4>1 DEF Remapped
      <3>3. CASE At(t).what \notin {"write", "remap"}
        <4>1. mapped' = mapped /\ next' = next
          BY <3>3, <2>1
        <4>2. CASE \E u \in Threads : call[u] = "append" /\ step[u] \in 10 .. 14
          <5>1. PICK u \in Threads : call[u] = "append" /\ step[u] \in 10 .. 14
            BY <4>2
          <5>2. call'[u] = "append" /\ step'[u] \in 10 .. 14
            BY <5>1, <3>3, <2>6, <2>7
          <5> QED BY <5>2 DEF Remapped
        <4> QED BY <4>1, <4>2, <2>1, <1>0 DEF Remapped
      <3> QED BY <3>1, <3>2, <3>3
    <2> QED BY <2>4, <2>5, <2>8 DEF Inv
  <1>10. CASE UNCHANGED vars
    <2>1. Types' /\ Queues' /\ Rows' /\ Remapped' /\ Limits'
      BY <1>10 DEF vars, Inv, Types, Queues, Rows, Remapped, Limits
    <2> QED BY <2>1 DEF Inv
  <1> QED BY <1>1, <1>2, <1>3, <1>4, <1>6, <1>7, <1>8, <1>9, <1>10 DEF Next, Run

-----------------------------------------------------------------------------
(* What the locks give.                                                    *)

LEMMA HoldSegments ==
    ASSUME NEW c \in Calls, NEW k \in Nat, k >= 2
    PROVE  Hold(c, k, "segments") = IF c = "append" THEN "write" ELSE "read"
  <1>1. CASE c = "append"
    BY <1>1 DEF Hold
  <1>2. CASE c = "fetch"
    BY <1>2 DEF Hold
  <1>3. CASE c = "flush"
    BY <1>3 DEF Hold
  <1>4. CASE c = "next_offset"
    BY <1>4 DEF Hold
  <1> QED BY <1>1, <1>2, <1>3, <1>4 DEF Calls

\* An append that is past the lock on the list of segments is past it alone.
LEMMA AppendAlone ==
    ASSUME Inv, NEW t \in Threads, NEW u \in Threads, t # u,
           call[t] = "append", step[t] >= 2
    PROVE  call[u] = "none" \/ step[u] = 1
  <1> SUFFICES ASSUME call[u] # "none", step[u] # 1 PROVE FALSE
    OBVIOUS
  <1>1. /\ call[u] \in Calls /\ step[u] \in Nat /\ step[u] >= 2 /\ step[t] \in Nat
        /\ queue["segments"] \in Seq(Request) /\ Distinct(queue["segments"])
    BY DEF Inv, Types, Queues, Locks
  <1>2. /\ Row(queue["segments"], t, call[t], step[t], "segments")
        /\ Row(queue["segments"], u, call[u], step[u], "segments")
    BY DEF Inv, Rows, Locks
  <1>3. Hold(call[t], step[t], "segments") = "write"
    BY <1>1, HoldSegments DEF Calls
  <1>4. Hold(call[u], step[u], "segments") \in {"read", "write"}
    BY <1>1, HoldSegments
  <1>5. /\ Has(queue["segments"], t, "write")
        /\ Has(queue["segments"], u, Hold(call[u], step[u], "segments"))
    BY <1>2, <1>3, <1>4 DEF Row
  <1>6. "write" = "read"
    BY ONLY <1>1, <1>5, t # u, Sharing
  <1> QED BY <1>6

LEMMA InvReadAgrees == Inv => ReadAgrees
  <1> SUFFICES ASSUME Inv, NEW t \in Threads, ~failed, Running(t), At(t) = Do("decode")
               PROVE  limit[t] <= mapped
    BY DEF ReadAgrees
  <1>1. At(t).act = "do" /\ At(t).what = "decode"
    BY DEF Do
  <1>2. call[t] = "fetch" /\ step[t] = 9
    BY <1>1, RunningAt DEF Places
  <1>3. ~\E u \in Threads : call[u] = "append" /\ step[u] \in 10 .. 14
    <2> SUFFICES ASSUME NEW u \in Threads, call[u] = "append", step[u] \in 10 .. 14 PROVE FALSE
      OBVIOUS
    <2>1. u # t /\ step[u] >= 2
      BY <1>2
    <2> QED BY <2>1, <1>2, AppendAlone
  <1>4. mapped = next
    BY <1>3, Zenon DEF Inv, Remapped
  <1> QED BY <1>4 DEF Inv, Limits, Types

-----------------------------------------------------------------------------
(* Waiting.                                                                *)

\* Task t has a request for lock l that is not granted.
Waits(t, l) == \E i \in DOMAIN queue[l] : queue[l][i].thread = t /\ ~Served(queue[l], i)

\* A task waits only for the lock that the step it is at takes.
LEMMA WaitsAtTake ==
    ASSUME Inv, NEW t \in Threads, NEW l \in Locks, Waits(t, l)
    PROVE  /\ call[t] \in Calls /\ step[t] \in 1 .. Len(Steps(call[t]))
           /\ Hold(call[t], step[t], l) = "none"
           /\ Steps(call[t])[step[t]].act = "take"
           /\ Steps(call[t])[step[t]].lock = l
           /\ Asks(queue[l], t, Steps(call[t])[step[t]].mode)
  <1>1. PICK i \in DOMAIN queue[l] : queue[l][i].thread = t /\ ~Served(queue[l], i)
    BY DEF Waits
  <1>2. Row(queue[l], t, call[t], step[t], l) /\ Distinct(queue[l])
    BY DEF Inv, Rows, Queues
  <1>3. ~Absent(queue[l], t)
    BY <1>1 DEF Absent
  <1>4. Hold(call[t], step[t], l) = "none"
    <2> SUFFICES ASSUME Hold(call[t], step[t], l) # "none" PROVE FALSE
      OBVIOUS
    <2>1. Has(queue[l], t, Hold(call[t], step[t], l))
      BY <1>2 DEF Row
    <2>2. PICK j \in DOMAIN queue[l] : queue[l][j].thread = t /\ Served(queue[l], j)
      BY <2>1 DEF Has
    <2>3. i = j
      BY <1>1, <1>2, <2>2 DEF Distinct
    <2> QED BY <1>1, <2>2, <2>3
  <1>5. call[t] \in Calls
    BY <1>2, <1>3, <1>4 DEF Row
  <1>6. step[t] \in 1 .. Len(Steps(call[t]))
    BY <1>5 DEF Inv, Types, Calls
  <1> QED BY <1>2, <1>3, <1>4, <1>5, <1>6 DEF Row

\* The locks each call takes, by step.
LEMMA TakeSteps ==
    ASSUME NEW c \in Calls, NEW k \in 1 .. Len(Steps(c)), Steps(c)[k].act = "take", c # "append"
    PROVE  \/ k = 1 /\ Steps(c)[k].lock = "segments"
           \/ /\ Steps(c)[k].lock \in {"next", "mmap"} /\ Steps(c)[k].mode = "read"
              /\ <<c, k>> \in {<<"fetch", 2>>, <<"fetch", 5>>, <<"next_offset", 2>>}
           \/ c = "flush" /\ k = 2 /\ Steps(c)[k].lock = "log"
           \/ c = "flush" /\ k = 4 /\ Steps(c)[k].lock = "index"
           \/ c = "fetch" /\ k = 6 /\ Steps(c)[k].lock = "index"
  <1>1. CASE c = "fetch"
    <2>1. k \in 1 .. 10
      BY <1>1, Lengths
    <2> QED BY <2>1, <1>1, FetchList DEF Take, Give, Do
  <1>2. CASE c = "flush"
    <2>1. k \in 1 .. 6
      BY <1>2, Lengths
    <2> QED BY <2>1, <1>2, FlushList DEF Take, Give, Do
  <1>3. CASE c = "next_offset"
    <2>1. k \in 1 .. 3
      BY <1>3, Lengths
    <2> QED BY <2>1, <1>3, NextOffsetList DEF Take, Give, Do
  <1> QED BY <1>1, <1>2, <1>3 DEF Calls

\* A set of naturals that is not empty has a least member.
LEMMA LeastNat ==
    ASSUME NEW S \in SUBSET Nat, S # {}
    PROVE  \E m \in S : \A n \in S : m <= n
  <1> DEFINE R == OpToRel(<, Nat)
  <1>1. IsWellFoundedOn(R, Nat) /\ S \subseteq Nat
    BY NatLessThanWellFounded
  <1>2. \A x, y \in Nat : x < y => <<x, y>> \in R
    BY DEF OpToRel
  <1> HIDE DEF R
  <1>3. PICK m \in S : \A n \in S : <<n, m>> \notin R
    BY <1>1, WFMin, Zenon
  <1>4. \A n \in S : ~(n < m)
    BY <1>2, <1>3
  <1> QED BY <1>3, <1>4

\* Of the tasks of a set that wait for a lock one comes first: what another
\* task of the set has before it in the queue is granted.
LEMMA FirstWaiter ==
    ASSUME Inv, NEW S \in SUBSET Threads, NEW l \in Locks, \E t \in S : Waits(t, l)
    PROVE  \E t \in S : /\ Waits(t, l)
                        /\ \A i, j \in DOMAIN queue[l] :
                              (queue[l][i].thread = t /\ queue[l][j].thread \in S /\ j < i) =>
                                  Served(queue[l], j)
  <1> DEFINE q == queue[l]
             W == {i \in DOMAIN q : q[i].thread \in S /\ ~Served(q, i)}
  <1>1. q \in Seq(Request) /\ Distinct(q) /\ W \in SUBSET Nat
    BY DEF Inv, Types, Queues
  <1>2. W # {}
    BY DEF Waits
  <1>3. PICK m \in W : \A n \in W : m <= n
    BY <1>1, <1>2, LeastNat
  <1>4. q[m].thread \in S /\ Waits(q[m].thread, l)
    BY <1>3 DEF Waits
  <1>5. ASSUME NEW i \in DOMAIN q, NEW j \in DOMAIN q,
               q[i].thread = q[m].thread, q[j].thread \in S, j < i
        PROVE  Served(q, j)
    <2>1. i = m
      BY <1>1, <1>3, <1>5 DEF Distinct
    <2>2. i \in Nat /\ j \in Nat
      BY <1>1
    <2>3. j \notin W
      BY <1>3, <1>5, <2>1, <2>2
    <2> QED BY <2>3, <1>5
  <1> QED BY <1>4, <1>5

\* Every task of S waits behind one of S.
Stuck(S) == \A t \in S : \E u \in S : WaitsFor(t, u)

\* Then the first of S to wait for a lock waits for one that holds it and
\* waits for another lock.
LEMMA Blocker ==
    ASSUME Inv, NEW S \in SUBSET Threads, Stuck(S), NEW l \in Locks, \E t \in S : Waits(t, l)
    PROVE  \E u \in S, x \in Locks : x # l /\ Waits(u, x) /\ Hold(call[u], step[u], l) # "none"
  <1>1. PICK t \in S : /\ Waits(t, l)
                       /\ \A i, j \in DOMAIN queue[l] :
                             (queue[l][i].thread = t /\ queue[l][j].thread \in S /\ j < i) =>
                                 Served(queue[l], j)
    BY FirstWaiter
  <1>2. PICK u \in S : WaitsFor(t, u)
    BY DEF Stuck
  <1>3. PICK y \in Locks :
            \E i, j \in DOMAIN queue[y] :
               /\ queue[y][i].thread = t /\ queue[y][j].thread = u
               /\ j < i /\ ~Served(queue[y], i)
    BY <1>2 DEF WaitsFor, Requests, Granted, Served
  <1>4. Waits(t, y)
    BY <1>3 DEF Waits
  <1>5. y = l
    BY <1>1, <1>4, WaitsAtTake
  <1>6. PICK j \in DOMAIN queue[l] : queue[l][j].thread = u /\ Served(queue[l], j)
    BY <1>1, <1>3, <1>5
  <1>7. PICK v \in S : WaitsFor(u, v)
    BY DEF Stuck
  <1>8. PICK x \in Locks : Waits(u, x)
    BY <1>7 DEF WaitsFor, Requests, Granted, Served, Waits
  <1>9. x # l
    <2> SUFFICES ASSUME x = l PROVE FALSE
      OBVIOUS
    <2>1. PICK i \in DOMAIN queue[l] : queue[l][i].thread = u /\ ~Served(queue[l], i)
      BY <1>8 DEF Waits
    <2>2. i = j
      BY <1>6, <2>1 DEF Inv, Queues, Distinct
    <2> QED BY <1>6, <2>1, <2>2
  <1>10. Steps(call[u])[step[u]].lock = x
    BY <1>8, WaitsAtTake
  <1>11. Row(queue[l], u, call[u], step[u], l) /\ ~Absent(queue[l], u)
    BY <1>6 DEF Inv, Rows, Absent
  <1>12. Hold(call[u], step[u], l) # "none"
    BY <1>9, <1>10, <1>11 DEF Row
  <1> QED BY <1>8, <1>9, <1>12

\* A task that holds a lock is past the first step of its call.
LEMMA HolderPast ==
    ASSUME Inv, NEW u \in Threads, NEW l \in Locks, Hold(call[u], step[u], l) # "none"
    PROVE  call[u] \in Calls /\ step[u] \in Nat /\ step[u] >= 2
  <1>1. call[u] \in Calls \union {"none"} /\ step[u] \in 1 .. 15
    BY DEF Inv, Types
  <1>2. step[u] # 1 /\ call[u] # "none"
    BY <1>1, HoldModes
  <1> QED BY <1>1, <1>2

\* An append never waits for a lock of the segment.
LEMMA AppendNotStuck ==
    ASSUME Inv, NEW S \in SUBSET Threads, Stuck(S), NEW u \in S, NEW x \in Locks,
           Waits(u, x), step[u] >= 2
    PROVE  call[u] # "append"
  <1> SUFFICES ASSUME call[u] = "append" PROVE FALSE
    OBVIOUS
  <1>1. PICK v \in S : Hold(call[v], step[v], x) # "none"
    BY Blocker
  <1>2. call[v] \in Calls /\ step[v] \in Nat /\ step[v] >= 2
    BY <1>1, HolderPast
  <1>3. v = u
    BY <1>2, AppendAlone DEF Calls
  <1> QED BY <1>1, <1>3, WaitsAtTake

\* A task of such a set that holds a lock is not an append, and so it waits
\* for one of the locks that reads and flushes take.
LEMMA Holder ==
    ASSUME Inv, NEW S \in SUBSET Threads, Stuck(S), NEW u \in S, NEW x \in Locks, NEW l \in Locks,
           Waits(u, x), Hold(call[u], step[u], l) # "none"
    PROVE  /\ call[u] \in Calls \ {"append"}
           /\ step[u] >= 2
           /\ \/ /\ x \in {"next", "mmap"}
                 /\ <<call[u], step[u]>> \in {<<"fetch", 2>>, <<"fetch", 5>>, <<"next_offset", 2>>}
              \/ call[u] = "flush" /\ step[u] = 2 /\ x = "log"
              \/ call[u] = "flush" /\ step[u] = 4 /\ x = "index"
              \/ call[u] = "fetch" /\ step[u] = 6 /\ x = "index"
  <1>1. call[u] \in Calls /\ step[u] \in Nat /\ step[u] >= 2
    BY HolderPast
  <1>2. call[u] # "append"
    BY <1>1, AppendNotStuck
  <1>3. /\ step[u] \in 1 .. Len(Steps(call[u])) /\ Steps(call[u])[step[u]].act = "take"
        /\ Steps(call[u])[step[u]].lock = x
    BY WaitsAtTake
  <1> QED BY <1>1, <1>2, <1>3, TakeSteps

\* Nobody waits for the index: the tasks that hold it wait for nothing.
LEMMA IndexNotStuck ==
    ASSUME Inv, NEW S \in SUBSET Threads, Stuck(S), NEW t \in S
    PROVE  ~Waits(t, "index")
  <1> SUFFICES ASSUME Waits(t, "index") PROVE FALSE
    OBVIOUS
  <1>1. "index" \in Locks
    BY DEF Locks
  <1>2. PICK u \in S, x \in Locks : Waits(u, x) /\ Hold(call[u], step[u], "index") # "none"
    BY <1>1, Blocker
  <1>3. /\ call[u] \in Calls \ {"append"}
        /\ \/ <<call[u], step[u]>> \in {<<"fetch", 2>>, <<"fetch", 5>>, <<"next_offset", 2>>}
           \/ call[u] = "flush" /\ step[u] \in {2, 4}
           \/ call[u] = "fetch" /\ step[u] = 6
    BY <1>1, <1>2, Holder
  <1>4. Hold(call[u], step[u], "index") = "none"
    BY <1>3 DEF Hold
  <1> QED BY <1>2, <1>4

\* Nobody waits for the log: the flush that holds it waits for the index at most.
LEMMA LogNotStuck ==
    ASSUME Inv, NEW S \in SUBSET Threads, Stuck(S), NEW t \in S
    PROVE  ~Waits(t, "log")
  <1> SUFFICES ASSUME Waits(t, "log") PROVE FALSE
    OBVIOUS
  <1>1. "log" \in Locks
    BY DEF Locks
  <1>2. PICK u \in S, x \in Locks : /\ x # "log" /\ Waits(u, x)
                                    /\ Hold(call[u], step[u], "log") # "none"
    BY <1>1, Blocker
  <1>3. \/ <<call[u], step[u]>> \in {<<"fetch", 2>>, <<"fetch", 5>>, <<"next_offset", 2>>}
        \/ x = "index"
    BY <1>1, <1>2, Holder
  <1>4. x = "index"
    BY <1>2, <1>3 DEF Hold
  <1> QED BY <1>2, <1>4, IndexNotStuck

\* Nobody who holds the list of segments waits for next_offset or the map:
\* only an append takes them to write.
LEMMA FieldsNotStuck ==
    ASSUME Inv, NEW S \in SUBSET Threads, Stuck(S), NEW u \in S, NEW x \in {"next", "mmap"},
           step[u] >= 2
    PROVE  ~Waits(u, x)
  <1> SUFFICES ASSUME Waits(u, x) PROVE FALSE
    OBVIOUS
  <1>1. x \in Locks
    BY DEF Locks
  <1>2. call[u] \in Calls /\ call[u] # "append" /\ step[u] # 1
    BY <1>1, AppendNotStuck, WaitsAtTake
  <1>3. PICK i \in DOMAIN queue[x] : ~Served(queue[x], i)
    BY DEF Waits
  <1>4. queue[x] \in Seq(Request)
    BY <1>1 DEF Inv, Types
  <1>5. PICK j \in DOMAIN queue[x] : queue[x][j].mode # "read"
    BY <1>3, <1>4 DEF Served
  <1>6. PICK v \in Threads : v = queue[x][j].thread
    <2>1. queue[x][j] \in Request
      BY <1>4
    <2> QED BY <2>1 DEF Request
  <1>7. Row(queue[x], v, call[v], step[v], x) /\ Distinct(queue[x])
    BY <1>1 DEF Inv, Rows, Queues
  <1>8. call[v] \in Calls /\ step[v] \in 1 .. Len(Steps(call[v])) /\ step[v] \in Nat
    <2>1. call[v] \in Calls \union {"none"} /\ step[v] \in Nat
      BY DEF Inv, Types
    <2>2. call[v] # "none"
      <3> SUFFICES ASSUME call[v] = "none" PROVE FALSE
        OBVIOUS
      <3>1. Hold("none", step[v], x) = "none" /\ "none" \notin Calls
        BY <1>1, <2>1, HoldModes DEF Calls
      <3> QED BY <3>1, <1>6, <1>7 DEF Row, Absent
    <2> QED BY <2>1, <2>2 DEF Inv, Types
  <1>9. CASE call[v] = "append"
    <2>1. step[v] # 1
      <3> SUFFICES ASSUME step[v] = 1 PROVE FALSE
        OBVIOUS
      <3>1. Hold(call[v], 1, x) = "none"
        BY <1>1, <1>8, <1>9, HoldModes
      <3>2. Steps("append")[1] = Take("segments", "write")
        BY AppendList
      <3>3. Steps("append")[1].lock = "segments"
        BY <3>2 DEF Take
      <3> QED BY <3>1, <3>3, <1>5, <1>6, <1>7, <1>9 DEF Row, Absent
    <2>2. step[v] >= 2 /\ u # v
      BY <2>1, <1>2, <1>8, <1>9
    <2> QED BY <1>2, <1>9, <2>2, AppendAlone DEF Calls
  <1>10. CASE call[v] # "append"
    <2>1. CASE Hold(call[v], step[v], x) # "none"
      <3>1. Hold(call[v], step[v], x) = "read"
        BY <1>8, <1>10, <2>1 DEF Hold, Calls
      <3>2. Has(queue[x], v, "read")
        BY <1>7, <2>1, <3>1 DEF Row
      <3>3. PICK n \in DOMAIN queue[x] : queue[x][n].thread = v /\ queue[x][n].mode = "read"
        BY <3>2 DEF Has
      <3>4. n = j
        BY <1>6, <1>7, <3>3 DEF Distinct
      <3> QED BY <1>5, <3>3, <3>4
    <2>2. CASE Hold(call[v], step[v], x) = "none"
      <3>1. /\ Steps(call[v])[step[v]].act = "take" /\ Steps(call[v])[step[v]].lock = x
            /\ Asks(queue[x], v, Steps(call[v])[step[v]].mode)
        BY <1>5, <1>6, <1>7, <2>2 DEF Row, Absent
      <3>2. Steps(call[v])[step[v]].mode = "read"
        BY <1>8, <1>10, <3>1, TakeSteps
      <3> QED BY <3>1, <3>2, <1>5, <1>6 DEF Asks
    <2> QED BY <2>1, <2>2
  <1> QED BY <1>9, <1>10

LEMMA InvNoWaitCycle == Inv => NoWaitCycle
  <1> SUFFICES ASSUME Inv, NEW S \in SUBSET Threads, S # {}, Stuck(S) PROVE FALSE
    BY DEF NoWaitCycle, Stuck
  <1>1. PICK t \in S : TRUE
    OBVIOUS
  <1>2. PICK l \in Locks : Waits(t, l)
    BY <1>1 DEF Stuck, WaitsFor, Requests, Granted, Served, Waits
  <1>3. PICK u \in S, x \in Locks : Waits(u, x) /\ Hold(call[u], step[u], l) # "none"
    BY <1>2, Blocker
  <1>4. step[u] >= 2 /\ x \in {"next", "mmap", "log", "index"}
    BY <1>3, Holder
  <1> QED BY <1>3, <1>4, IndexNotStuck, LogNotStuck, FieldsNotStuck

-----------------------------------------------------------------------------
(* The theorems.                                                           *)

\* Any reachable state satisfies the invariant: every task has exactly the
\* locks that its place in the code says it has.
LEMMA InvHolds == Spec => []Inv
  <1>1. Init => Inv
    BY InitInv
  <1>2. Inv /\ [Next]_vars => Inv'
    BY NextInv
  <1> QED BY <1>1, <1>2, PTL DEF Spec

\* For any tasks calling append, fetch, flush and next_offset of a partition:
\* no set of them waits for itself, although read_batch, flush, append and
\* remap take the segment's locks in different orders.
THEOREM LocksDoNotDeadlock == Spec => []NoWaitCycle
  <1>1. Inv => NoWaitCycle
    BY InvNoWaitCycle
  <1> QED BY <1>1, InvHolds, PTL

\* For any tasks: read_batch, which reads next_offset, the map and the index
\* under three locks one after the other, never looks past the end of the map.
THEOREM ReadsStayInTheMap == Spec => []ReadAgrees
  <1>1. Inv => ReadAgrees
    BY InvReadAgrees
  <1> QED BY <1>1, InvHolds, PTL

=============================================================================
