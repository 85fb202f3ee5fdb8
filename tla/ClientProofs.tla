---------------------------- MODULE ClientProofs ----------------------------
(***************************************************************************)
(* Proofs about the two clients.  Consumers: for any consumers, partitions *)
(* and sizes, the group's offset skips no record silently, and it moves    *)
(* back, or a record is returned twice, only where the code makes it so.   *)
(* Producers: for any producers, topics, partitioners and batches, an      *)
(* acknowledged message is in the log, none is there more often than it    *)
(* was tried, messages with one key keep their order, and partitioners     *)
(* share the messages out evenly.                                          *)
(***************************************************************************)
EXTENDS Consumers, Producers, FiniteSetTheorems, SequenceTheorems, TLAPS

-----------------------------------------------------------------------------
(* The inductive invariant.                                                *)

\* The maps from some partitions to offsets.
Offs == UNION {[S -> Nat] : S \in SUBSET Partitions}

Ops == {"none", "join_group", "poll_group", "commit_offsets", "auto_commit"}

Calls == [op : Ops, todo : SUBSET Partitions, hand : SUBSET Records]

\* What TypeOK leaves open.
Shapes ==
    /\ offsets \in [Members -> Offs]
    /\ call \in [Members -> Calls]
    /\ \A p \in Partitions : committed[p] <= end[p]

\* Only a poll holds records, and it has moved past those it holds; whoever
\* commits a partition has an offset for it.
Control ==
    \A c \in Members :
        /\ call[c].op \notin {"poll_group", "auto_commit"} => call[c].hand = {}
        /\ Committing(c) => call[c].todo \subseteq DOMAIN offsets[c]
        /\ \A p \in Partitions, o \in Nat : <<p, o>> \in call[c].hand =>
              p \in DOMAIN offsets[c] /\ o < offsets[c][p]

Known == delivered \cup InHand \cup excused

\* NothingSkipped needs it of every consumer's own offset, which is what the next
\* commit writes.
Prefix ==
    \A c \in Members, p \in Partitions : p \in DOMAIN offsets[c] =>
        \A o \in 0 .. offsets[c][p] - 1 : <<p, o>> \in Known

\* A partition that was never shared has one consumer with an offset for it ...
Single ==
    \A p \in Partitions \ shared : \A c, d \in Members :
        p \in DOMAIN offsets[c] /\ p \in DOMAIN offsets[d] => c = d

\* ... who is not behind the group's, unless it was reset.
Ahead ==
    \A p \in Partitions \ (shared \cup reset) : \A c \in Members :
        p \in DOMAIN offsets[c] => committed[p] <= offsets[c][p]

\* With auto-commit, whatever was returned is below the group's offset, and so is
\* what a poll holds of the partitions that it has committed; what it holds was
\* not returned before.
Once ==
    AutoCommit => \A p \in Partitions \ (shared \cup reset \cup unsaved) :
        /\ p \notin again
        /\ \A o \in Nat : <<p, o>> \in delivered => o < committed[p]
        /\ \A c \in Members : \A o \in Nat : <<p, o>> \in call[c].hand =>
              /\ <<p, o>> \notin delivered
              /\ call[c].op = "auto_commit" /\ p \notin call[c].todo => o < committed[p]

Inv == TypeOK /\ Shapes /\ Control /\ NothingSkipped /\ Prefix /\ Single /\ Ahead /\ Once

-----------------------------------------------------------------------------
(* Facts about maps.                                                       *)

LEMMA MapsType ==
    ASSUME NEW f \in Offs
    PROVE  DOMAIN f \subseteq Partitions /\ \A p \in DOMAIN f : f[p] \in Nat
  BY DEF Offs

LEMMA EmptyMap == NoOffsets \in Offs /\ DOMAIN NoOffsets = {}
  <1>1. NoOffsets \in [{} -> Nat]
    BY DEF NoOffsets
  <1> QED BY <1>1 DEF Offs

\* HashMap::insert gives the key its value and leaves the others.
LEMMA PutMap ==
    ASSUME NEW f \in Offs, NEW p \in Partitions, NEW x \in Nat
    PROVE  /\ Put(f, p, x) \in Offs
           /\ DOMAIN Put(f, p, x) = DOMAIN f \cup {p}
           /\ Put(f, p, x)[p] = x
           /\ \A q \in DOMAIN f : q # p => Put(f, p, x)[q] = f[q]
  <1>1. PICK S \in SUBSET Partitions : f \in [S -> Nat]
    BY DEF Offs
  <1>2. Put(f, p, x) \in [S \cup {p} -> Nat]
    BY <1>1 DEF Put
  <1> QED BY <1>1, <1>2 DEF Put, Offs

LEMMA NoCallType == NoCall \in Calls /\ NoCall.op = "none" /\ NoCall.hand = {}
                      /\ NoCall.todo = {}
  BY DEF NoCall, Calls, Ops

USE DEF Begins, Idle

-----------------------------------------------------------------------------
(* The steps.                                                              *)

LEMMA InitInv == Init => Inv
  <1> SUFFICES ASSUME Init PROVE Inv
    OBVIOUS
  <1> USE ConsumersAssumption, EmptyMap, NoCallType DEF Init
  <1>1. TypeOK
    BY DEF TypeOK, Records
  <1>2. Shapes
    BY DEF Shapes
  <1>3. Control
    BY DEF Control, Committing
  <1>4. NothingSkipped
    BY DEF NothingSkipped
  <1>5. Prefix /\ Single /\ Ahead
    BY DEF Prefix, Single, Ahead
  <1>6. Once
    BY DEF Once
  <1> QED BY <1>1, <1>2, <1>3, <1>4, <1>5, <1>6 DEF Inv

\* A step of c that changes what it runs, not its offsets, and holds no records
\* before or after it.
LEMMA CallStep ==
    ASSUME Inv, NEW c \in Members, NEW k \in Calls,
           call' = [call EXCEPT ![c] = k],
           call[c].hand = {}, k.hand = {}, k.op # "auto_commit",
           k.op = "commit_offsets" => k.todo \subseteq DOMAIN offsets[c],
           c \in alive,
           assigned' \in [Members -> SUBSET Partitions],
           calls' \in 0 .. MaxCalls,
           UNCHANGED <<server, alive, offsets, noted, deaths>>
    PROVE  Inv'
  <1> USE DEF Inv
  <1>1. UNCHANGED <<end, committed, alive, offsets, delivered, excused, again, shared,
                    reset, unsaved, deaths>>
    BY DEF server, noted
  <1>2. InHand' = InHand
    BY DEF InHand, Shapes
  <1>3. TypeOK'
    BY <1>1 DEF TypeOK, Shapes, Calls, Records
  <1>4. Shapes'
    BY <1>1 DEF Shapes
  <1>5. Control'
    BY <1>1 DEF Control, Committing, Shapes
  <1>6. NothingSkipped' /\ Prefix' /\ Single' /\ Ahead'
    BY <1>1, <1>2 DEF NothingSkipped, Prefix, Single, Ahead, Known
  <1>7. Once'
    BY <1>1 DEF Once, Shapes
  <1> QED BY <1>3, <1>4, <1>5, <1>6, <1>7

LEMMA BeginsType ==
    ASSUME Inv, NEW c \in Members, Begins(c)
    PROVE  c \in alive /\ call[c].hand = {} /\ calls' \in 0 .. MaxCalls
  BY NoCallType, ConsumersAssumption DEF Inv, TypeOK

\* A consumer that runs something exists.
LEMMA Runs ==
    ASSUME Inv, NEW c \in Members, call[c].op # "none"
    PROVE  c \in alive
  BY NoCallType DEF Inv, TypeOK

LEMMA JoinStep ==
    ASSUME Inv, NEW c \in Members, Join(c)
    PROVE  Inv'
  <1>1. PICK S \in SUBSET Partitions :
           /\ assigned' = [assigned EXCEPT ![c] = S]
           /\ call' = [call EXCEPT ![c] =
                 IF S = {} THEN NoCall ELSE [op |-> "join_group", todo |-> S, hand |-> {}]]
    BY DEF Join
  <1> DEFINE k == IF S = {} THEN NoCall ELSE [op |-> "join_group", todo |-> S, hand |-> {}]
  <1>2. /\ call' = [call EXCEPT ![c] = k] /\ k \in Calls /\ k.hand = {}
        /\ k.op \notin {"auto_commit", "commit_offsets"}
    BY <1>1, NoCallType DEF Calls, Ops
  <1> HIDE DEF k
  <1>3. Begins(c) /\ UNCHANGED <<server, alive, offsets, noted, deaths>>
    BY DEF Join
  <1>4. assigned' \in [Members -> SUBSET Partitions]
    BY <1>1 DEF Inv, TypeOK
  <1> QED BY <1>2, <1>3, <1>4, BeginsType, CallStep

LEMMA JoinFailsStep ==
    ASSUME Inv, NEW c \in Members, JoinFails(c)
    PROVE  Inv'
  <1>1. call[c].hand = {} /\ c \in alive
    BY Runs DEF JoinFails, Inv, Control
  <1>2. /\ call' = [call EXCEPT ![c] = NoCall]
        /\ UNCHANGED <<server, alive, offsets, noted, deaths, assigned, calls>>
    BY DEF JoinFails, history, bounds
  <1>3. assigned \in [Members -> SUBSET Partitions] /\ calls \in 0 .. MaxCalls
    BY DEF Inv, TypeOK
  <1> QED BY <1>1, <1>2, <1>3, NoCallType, CallStep

LEMMA LeaveStep ==
    ASSUME Inv, NEW c \in Members, Leave(c)
    PROVE  Inv'
  <1>1. call' = [call EXCEPT ![c] = NoCall]
    BY DEF Leave, Inv, Shapes
  <1>2. assigned' \in [Members -> SUBSET Partitions]
    BY DEF Leave, Inv, TypeOK
  <1>3. Begins(c) /\ UNCHANGED <<server, alive, offsets, noted, deaths>>
    BY DEF Leave
  <1> QED BY <1>1, <1>2, <1>3, NoCallType, BeginsType, CallStep

LEMMA PollStep ==
    ASSUME Inv, NEW c \in Members, Poll(c)
    PROVE  Inv'
  <1> DEFINE k == [op |-> "poll_group", todo |-> assigned[c], hand |-> {}]
  <1>1. call' = [call EXCEPT ![c] = k] /\ assigned' \in [Members -> SUBSET Partitions]
    BY DEF Poll, Inv, TypeOK
  <1>2. k \in Calls /\ k.hand = {} /\ k.op = "poll_group"
    BY DEF Calls, Ops, Inv, TypeOK
  <1> HIDE DEF k
  <1>3. Begins(c) /\ UNCHANGED <<server, alive, offsets, noted, deaths>>
    BY DEF Poll
  <1> QED BY <1>1, <1>2, <1>3, BeginsType, CallStep

LEMMA CommitOffsetsStep ==
    ASSUME Inv, NEW c \in Members, CommitOffsets(c)
    PROVE  Inv'
  <1> DEFINE k == [op |-> "commit_offsets", todo |-> DOMAIN offsets[c], hand |-> {}]
  <1>1. call' = [call EXCEPT ![c] = k] /\ assigned' \in [Members -> SUBSET Partitions]
    BY DEF CommitOffsets, Inv, TypeOK
  <1>2. k \in Calls /\ k.hand = {} /\ k.op = "commit_offsets"
        /\ k.todo \subseteq DOMAIN offsets[c]
    BY DEF Calls, Ops, Inv, TypeOK
  <1> HIDE DEF k
  <1>3. Begins(c) /\ UNCHANGED <<server, alive, offsets, noted, deaths>>
    BY DEF CommitOffsets
  <1> QED BY <1>1, <1>2, <1>3, BeginsType, CallStep

-----------------------------------------------------------------------------
(* Steps that set an offset.                                               *)

\* SharedWith notes every partition that is about to get a second consumer.
LEMMA SharedSound ==
    ASSUME Inv, NEW c \in Members, NEW p \in Partitions
    PROVE  /\ shared \subseteq SharedWith(c, p) /\ SharedWith(c, p) \subseteq Partitions
           /\ p \notin SharedWith(c, p) =>
                 \A d \in Members \ {c} : p \notin DOMAIN offsets[d]
  BY DEF SharedWith, Inv, TypeOK

\* c, which holds no records, sets its offset of p to x: the group's, or any
\* other if that is noted as a reset, past records that are accounted for.
LEMMA PutStep ==
    ASSUME Inv, NEW c \in alive, NEW p \in Partitions, NEW x \in Nat, x <= end[p],
           offsets' = [offsets EXCEPT ![c] = Put(@, p, x)],
           NEW k \in Calls, call' = [call EXCEPT ![c] = k],
           call[c].hand = {}, k.hand = {}, k.op \in {"none", "join_group"},
           shared' = SharedWith(c, p),
           reset \subseteq reset', reset' \subseteq Partitions,
           x = committed[p] \/ p \in reset',
           excused \subseteq excused', excused' \subseteq Records,
           \A o \in 0 .. x - 1 : <<p, o>> \in Known',
           UNCHANGED <<server, alive, assigned, delivered, again, unsaved, deaths>>,
           calls' \in 0 .. MaxCalls
    PROVE  Inv'
  <1> DEFINE f == Put(offsets[c], p, x)
  <1>1. c \in Members
    BY DEF Inv, TypeOK
  <1>2. UNCHANGED <<end, committed, alive, assigned, delivered, again, unsaved, deaths>>
    BY DEF server
  <1>3. /\ f \in Offs /\ DOMAIN f = DOMAIN offsets[c] \cup {p} /\ f[p] = x
        /\ \A q \in DOMAIN offsets[c] : q # p => f[q] = offsets[c][q]
    <2>1. offsets[c] \in Offs
      BY <1>1 DEF Inv, Shapes
    <2>2. p \in Partitions /\ x \in Nat
      OBVIOUS
    <2> QED BY ONLY <2>1, <2>2, PutMap DEF f
  <1>4. offsets' = [offsets EXCEPT ![c] = f]
    OBVIOUS
  <1> HIDE DEF f
  <1>5. InHand' = InHand
    BY <1>1 DEF InHand, Inv, Shapes
  <1>6. Known \subseteq Known'
    BY <1>2, <1>5 DEF Known
  <1>7. /\ shared \subseteq shared' /\ shared' \subseteq Partitions
        /\ p \notin shared' => \A d \in Members \ {c} : p \notin DOMAIN offsets[d]
    BY <1>1, SharedSound
  <1>8. \A d \in Members : DOMAIN offsets[d] \subseteq Partitions
                             /\ \A q \in DOMAIN offsets[d] : offsets[d][q] \in Nat
    BY MapsType DEF Inv, Shapes
  <1>9. TypeOK'
    BY <1>1, <1>2, <1>3, <1>4, <1>7, <1>8 DEF Inv, TypeOK, Shapes, Calls, Records
  <1>10. Shapes'
    BY <1>1, <1>2, <1>3, <1>4 DEF Inv, Shapes
  <1>11. Control'
    BY <1>1, <1>2, <1>3, <1>4 DEF Inv, Control, Committing, Shapes
  <1>12. NothingSkipped'
    BY <1>2, <1>6 DEF Inv, NothingSkipped, Known
  <1>13. Prefix'
    BY <1>1, <1>2, <1>3, <1>4, <1>6 DEF Inv, Prefix, Shapes
  <1>14. Single'
    BY <1>1, <1>3, <1>4, <1>7 DEF Inv, Single, Shapes
  <1>15. Ahead'
    BY <1>1, <1>2, <1>3, <1>4, <1>7, <1>8 DEF Inv, Ahead, Shapes, TypeOK
  <1>16. Once'
    BY <1>1, <1>2, <1>7 DEF Inv, Once, Shapes
  <1> QED BY <1>9, <1>10, <1>11, <1>12, <1>13, <1>14, <1>15, <1>16 DEF Inv

LEMMA FetchCommittedStep ==
    ASSUME Inv, NEW c \in Members, NEW p \in Partitions, FetchCommitted(c, p)
    PROVE  Inv'
  <1> DEFINE k == IF call[c].todo = {p} THEN NoCall
                  ELSE [call[c] EXCEPT !.todo = @ \ {p}]
  <1>1. call[c].op = "join_group" /\ c \in alive /\ call[c].hand = {}
    BY Runs DEF FetchCommitted, Inv, Control
  <1>2. call' = [call EXCEPT ![c] = k]
    BY DEF FetchCommitted
  <1>3. k \in Calls /\ k.hand = {} /\ k.op \in {"none", "join_group"}
    BY <1>1, NoCallType DEF Inv, Shapes, Calls, Ops
  <1> HIDE DEF k
  <1>4. /\ offsets' = [offsets EXCEPT ![c] = Put(@, p, committed[p])]
        /\ shared' = SharedWith(c, p)
        /\ UNCHANGED <<server, alive, assigned, delivered, excused, again, reset,
                       unsaved, deaths, calls>>
    BY DEF FetchCommitted, bounds
  <1>5. /\ committed[p] \in Nat /\ committed[p] <= end[p]
        /\ reset \subseteq Partitions /\ excused \subseteq Records
        /\ calls \in 0 .. MaxCalls
    BY ConsumersAssumption DEF Inv, TypeOK, Shapes
  <1>6. InHand' = InHand
    BY <1>1, <1>2, <1>3 DEF InHand, Inv, Shapes
  <1>7. \A o \in 0 .. committed[p] - 1 : <<p, o>> \in Known'
    BY <1>4, <1>6 DEF Inv, NothingSkipped, Known
  <1> QED BY <1>1, <1>2, <1>3, <1>4, <1>5, <1>7, PutStep

LEMMA SeekStep ==
    ASSUME Inv, NEW c \in Members, NEW p \in Partitions, NEW o \in 0 .. end[p],
           Seek(c, p, o)
    PROVE  Inv'
  <1>1. end[p] \in 0 .. MaxOffset /\ o \in Nat /\ o <= end[p]
    BY ConsumersAssumption DEF Inv, TypeOK
  <1>2. c \in alive /\ call[c] = NoCall /\ calls' \in 0 .. MaxCalls
    BY BeginsType DEF Seek
  <1>3. /\ offsets' = [offsets EXCEPT ![c] = Put(@, p, o)]
        /\ shared' = SharedWith(c, p)
        /\ reset' = reset \cup {p}
        /\ excused' = excused \cup {<<p, x>> : x \in 0 .. o - 1}
        /\ call' = call
        /\ UNCHANGED <<server, alive, assigned, delivered, again, unsaved, deaths>>
    BY DEF Seek
  <1>4. call' = [call EXCEPT ![c] = NoCall]
    BY <1>2, <1>3 DEF Inv, Shapes
  <1>5. reset' \subseteq Partitions /\ excused' \subseteq Records
    BY <1>1, <1>3, ConsumersAssumption DEF Inv, TypeOK, Records
  <1>6. \A x \in 0 .. o - 1 : <<p, x>> \in Known'
    BY <1>3 DEF Known
  <1> QED BY <1>1, <1>2, <1>3, <1>4, <1>5, <1>6, NoCallType, PutStep

-----------------------------------------------------------------------------
(* Fetching.                                                               *)

\* A poll of c that has got n records of p from an offset, which makes f of its
\* offsets and H of what it has in hand: it goes on, commits, or returns H.
Advance(c, p, n, from, f, got, H, k) ==
    /\ c \in alive /\ call[c].op = "poll_group"
    /\ from + n <= end[p]
    /\ p \in DOMAIN offsets[c] => from = offsets[c][p]
    /\ p \in DOMAIN offsets[c] \/ from = 0
    /\ offsets' = [offsets EXCEPT ![c] = f]
    /\ DOMAIN offsets[c] \subseteq DOMAIN f /\ DOMAIN f \subseteq DOMAIN offsets[c] \cup {p}
    /\ \A q \in DOMAIN offsets[c] : q # p => f[q] = offsets[c][q]
    /\ p \in DOMAIN f => f[p] = from + n
    /\ \A q, o : <<q, o>> \in got => q = p /\ p \in DOMAIN f /\ from <= o /\ o < from + n
    /\ \A o \in from .. from + n - 1 : <<p, o>> \in got
    /\ H = call[c].hand \cup got
    /\ call' = [call EXCEPT ![c] = k]
    /\ \/ /\ k.op \in {"poll_group", "auto_commit"} /\ k.hand = H
          /\ k.op = "auto_commit" => k.todo = DOMAIN f
          /\ UNCHANGED <<delivered, again>>
       \/ /\ k = NoCall /\ (AutoCommit => H = {})
          /\ Returned(H)
    /\ shared \subseteq shared' /\ shared' \subseteq Partitions
    /\ p \in DOMAIN f /\ p \notin shared' =>
          \A d \in Members \ {c} : p \notin DOMAIN offsets[d]
    /\ reset' = IF p \in DOMAIN offsets[c] THEN reset ELSE reset \cup {p}
    /\ UNCHANGED <<server, alive, assigned, excused, unsaved, bounds>>

\* Such a step keeps the invariant.
LEMMA AdvanceStep ==
    ASSUME Inv, NEW c \in Members, NEW p \in Partitions, NEW n \in Nat, NEW from \in Nat,
           NEW f \in Offs, NEW got \in SUBSET Records, NEW H \in SUBSET Records,
           NEW k \in Calls, Advance(c, p, n, from, f, got, H, k)
    PROVE  Inv'
  <1> USE DEF Advance
  <1>1. UNCHANGED <<end, committed, alive, assigned, excused, unsaved, deaths, calls>>
    BY DEF server, bounds
  <1>2. H \subseteq Records
    OBVIOUS
  <1>3. k.hand = H \/ (H \subseteq delivered' /\ k.hand = {})
    BY NoCallType DEF Returned
  <1>4. delivered \subseteq delivered' /\ delivered' \subseteq delivered \cup H
    BY DEF Returned
  <1>5. Known \subseteq Known' /\ got \subseteq Known'
    <2>1. InHand \subseteq InHand' \cup delivered'
      <3> SUFFICES ASSUME NEW d \in Members, NEW r \in call[d].hand
                   PROVE  r \in InHand' \cup delivered'
        BY DEF InHand
      <3>1. CASE d # c
        BY <3>1 DEF InHand, Inv, Shapes
      <3>2. CASE d = c
        BY <3>2, <1>3 DEF InHand, Inv, Shapes
      <3> QED BY <3>1, <3>2
    <2>2. got \subseteq InHand' \cup delivered'
      BY <1>3 DEF InHand, Inv, Shapes
    <2> QED BY <1>1, <1>4, <2>1, <2>2 DEF Known
  <1>6. again' \subseteq Partitions
    <2>1. again \subseteq Partitions /\ \A r \in Records : r[1] \in Partitions
      BY DEF Inv, TypeOK, Records
    <2> QED BY <2>1, <1>2 DEF Returned
  <1>7. \A d \in Members : DOMAIN offsets[d] \subseteq Partitions
                             /\ \A q \in DOMAIN offsets[d] : offsets[d][q] \in Nat
    BY MapsType DEF Inv, Shapes
  <1>8. DOMAIN f \subseteq Partitions /\ \A q \in DOMAIN f : f[q] \in Nat
    BY MapsType
  <1>9. TypeOK'
    <2>1. /\ end' \in [Partitions -> 0 .. MaxOffset]
          /\ committed' \in [Partitions -> 0 .. MaxOffset]
          /\ alive' \subseteq Members
          /\ assigned' \in [Members -> SUBSET Partitions]
          /\ excused' \subseteq Records /\ shared' \subseteq Partitions
          /\ reset' \subseteq Partitions /\ unsaved' \subseteq Partitions
          /\ deaths' \in 0 .. MaxDeaths /\ calls' \in 0 .. MaxCalls
      BY <1>1 DEF Inv, TypeOK
    <2>2. delivered' \subseteq Records
      BY <1>2, <1>4 DEF Inv, TypeOK
    <2>3. ASSUME NEW d \in Members
          PROVE  /\ DOMAIN offsets'[d] \subseteq Partitions
                 /\ \A q \in DOMAIN offsets'[d] : offsets'[d][q] <= end'[q]
                 /\ call'[d].todo \subseteq Partitions /\ call'[d].hand \subseteq Records
                 /\ d \notin alive' => call'[d] = NoCall /\ DOMAIN offsets'[d] = {}
      <3>1. CASE d # c
        BY <3>1, <1>1 DEF Inv, TypeOK, Shapes
      <3>2. CASE d = c
        <4>1. offsets'[d] = f /\ call'[d] = k
          BY <3>2 DEF Inv, Shapes
        <4>2. \A q \in DOMAIN f : f[q] <= end[q]
          BY DEF Inv, TypeOK
        <4> QED BY <4>1, <4>2, <3>2, <1>1, <1>8 DEF Calls
      <3> QED BY <3>1, <3>2
    <2> QED BY <2>1, <2>2, <2>3, <1>6 DEF TypeOK
  <1>10. Shapes'
    BY <1>1 DEF Inv, Shapes
  <1>11. Control'
    <2> SUFFICES ASSUME NEW d \in Members
                 PROVE  /\ call'[d].op \notin {"poll_group", "auto_commit"} => call'[d].hand = {}
                        /\ Committing(d)' => call'[d].todo \subseteq DOMAIN offsets'[d]
                        /\ \A q \in Partitions, o \in Nat : <<q, o>> \in call'[d].hand =>
                              q \in DOMAIN offsets'[d] /\ o < offsets'[d][q]
      BY DEF Control
    <2>1. CASE d # c
      BY <2>1 DEF Inv, Control, Shapes, Committing
    <2>2. CASE d = c
      <3>1. offsets'[d] = f /\ call'[d] = k
        BY <2>2 DEF Inv, Shapes
      <3>2. k.op \notin {"poll_group", "auto_commit"} => k.hand = {}
        BY NoCallType
      <3>3. k.op \in {"commit_offsets", "auto_commit"} => k.todo \subseteq DOMAIN f
        BY NoCallType
      <3>4. ASSUME NEW q \in Partitions, NEW o \in Nat, <<q, o>> \in k.hand
            PROVE  q \in DOMAIN f /\ o < f[q]
        <4>1. <<q, o>> \in call[c].hand \/ <<q, o>> \in got
          BY <3>4, <1>3
        <4>2. CASE <<q, o>> \in got
          BY <4>2
        <4>3. CASE <<q, o>> \in call[c].hand
          <5>1. q \in DOMAIN offsets[c] /\ o < offsets[c][q]
            BY <4>3 DEF Inv, Control
          <5> QED BY <5>1, <1>7
        <4> QED BY <4>1, <4>2, <4>3
      <3> QED BY <3>1, <3>2, <3>3, <3>4 DEF Committing
    <2> QED BY <2>1, <2>2
  <1>12. NothingSkipped'
    BY <1>1, <1>5 DEF Inv, NothingSkipped, Known
  <1>13. Prefix'
    <2> SUFFICES ASSUME NEW d \in Members, NEW q \in Partitions, q \in DOMAIN offsets'[d],
                        NEW o \in 0 .. offsets'[d][q] - 1
                 PROVE  <<q, o>> \in Known'
      BY DEF Prefix
    <2>1. CASE d # c \/ q # p
      <3>1. q \in DOMAIN offsets[d] /\ offsets'[d][q] = offsets[d][q]
        BY <2>1 DEF Inv, Shapes
      <3> QED BY <3>1, <1>5 DEF Inv, Prefix
    <2>2. CASE d = c /\ q = p
      <3>1. offsets'[d][q] = from + n
        BY <2>2 DEF Inv, Shapes
      <3>2. CASE o < from
        <4>1. p \in DOMAIN offsets[c] /\ o \in 0 .. offsets[c][p] - 1
          BY <3>2
        <4> QED BY <4>1, <2>2, <1>5 DEF Inv, Prefix
      <3>3. CASE ~(o < from)
        BY <3>1, <3>3, <2>2, <1>5
      <3> QED BY <3>2, <3>3
    <2> QED BY <2>1, <2>2
  <1>14. Single'
    BY DEF Inv, Single, Shapes
  <1>15. Ahead'
    BY <1>1, <1>7, <1>8 DEF Inv, Ahead, Shapes, TypeOK
  <1>16. Once'
    <2> SUFFICES ASSUME AutoCommit, NEW q \in Partitions \ (shared' \cup reset' \cup unsaved')
                 PROVE  /\ q \notin again'
                        /\ \A o \in Nat : <<q, o>> \in delivered' => o < committed'[q]
                        /\ \A d \in Members : \A o \in Nat : <<q, o>> \in call'[d].hand =>
                              /\ <<q, o>> \notin delivered'
                              /\ call'[d].op = "auto_commit" /\ q \notin call'[d].todo
                                    => o < committed'[q]
      BY DEF Once
    <2>1. q \in Partitions \ (shared \cup reset \cup unsaved)
      BY <1>1
    <2>2. again' = again /\ delivered' = delivered
      <3>1. CASE UNCHANGED <<delivered, again>>
        BY <3>1
      <3>2. CASE H = {} /\ Returned(H)
        <4>1. again' = again \cup {r[1] : r \in {} \cap delivered}
          BY <3>2 DEF Returned
        <4>2. {r[1] : r \in {} \cap delivered} = {}
          OBVIOUS
        <4> QED BY <3>2, <4>1, <4>2 DEF Returned
      <3> QED BY <3>1, <3>2
    <2>3. ASSUME NEW d \in Members, NEW o \in Nat, <<q, o>> \in call'[d].hand
          PROVE  /\ <<q, o>> \notin delivered
                 /\ call'[d].op = "auto_commit" /\ q \notin call'[d].todo => o < committed[q]
      <3>1. CASE d # c
        BY <3>1, <2>1, <2>3 DEF Inv, Once, Shapes
      <3>2. CASE d = c
        <4>1. call'[d] = k
          BY <3>2 DEF Inv, Shapes
        <4>2. <<q, o>> \in H /\ k.hand = H
          BY <4>1, <2>3, <1>3
        <4>3. k.op = "auto_commit" => q \in k.todo
          BY <4>2, <2>3, <1>11, <4>1, <3>2 DEF Control, Inv, Shapes
        <4>4. CASE <<q, o>> \in call[c].hand
          BY <4>1, <4>3, <4>4, <2>1 DEF Inv, Once
        <4>5. CASE <<q, o>> \in got
          <5>1. q = p /\ from <= o /\ p \in DOMAIN offsets[c]
            BY <4>5
          <5>2. committed[p] <= from /\ committed[p] \in Nat
            BY <5>1, <2>1, ConsumersAssumption DEF Inv, Ahead, TypeOK
          <5>3. <<q, o>> \in delivered => o < committed[p]
            BY <5>1, <2>1 DEF Inv, Once
          <5> QED BY <5>1, <5>2, <5>3, <4>1, <4>3
        <4> QED BY <4>2, <4>4, <4>5
      <3> QED BY <3>1, <3>2
    <2> QED BY <2>1, <2>2, <2>3, <1>1 DEF Inv, Once
  <1> QED BY <1>9, <1>10, <1>11, <1>12, <1>13, <1>14, <1>15, <1>16 DEF Inv

LEMMA FetchStep ==
    ASSUME Inv, NEW c \in Members, NEW p \in Partitions, Fetch(c, p)
    PROVE  Inv'
  <1>a. PICK from : from = Position(c, p)
    OBVIOUS
  <1> DEFINE Got(n) == {<<p, o>> : o \in from .. from + n - 1}
             Hand(n) == call[c].hand \cup Got(n)
             F(n) == IF n = 0 THEN offsets[c] ELSE Put(offsets[c], p, from + n)
  <1>b. PICK n \in 0 .. MaxBatch :
           /\ call[c].op = "poll_group" /\ p \in call[c].todo
           /\ from + n <= end[p] \/ n = 0
           /\ offsets' = [offsets EXCEPT ![c] = F(n)]
           /\ shared' = IF n = 0 THEN shared ELSE SharedWith(c, p)
           /\ reset' = IF p \in DOMAIN offsets[c] THEN reset ELSE reset \cup {p}
           /\ IF call[c].todo # {p}
              THEN /\ call' = [call EXCEPT ![c].todo = @ \ {p}, ![c].hand = Hand(n)]
                   /\ UNCHANGED <<delivered, again>>
              ELSE IF AutoCommit /\ Hand(n) # {}
              THEN /\ call' = [call EXCEPT ![c] =
                         [op |-> "auto_commit", todo |-> DOMAIN F(n), hand |-> Hand(n)]]
                   /\ UNCHANGED <<delivered, again>>
              ELSE call' = [call EXCEPT ![c] = NoCall] /\ Returned(Hand(n))
           /\ UNCHANGED <<server, alive, assigned, excused, unsaved, bounds>>
    BY <1>a DEF Fetch
  <1>c. PICK got : got = Got(n)
    OBVIOUS
  <1>d. PICK H : H = call[c].hand \cup got
    OBVIOUS
  <1>e. PICK f : f = F(n)
    OBVIOUS
  <1>1. /\ call[c].op = "poll_group" /\ p \in call[c].todo
        /\ from + n <= end[p] \/ n = 0
        /\ offsets' = [offsets EXCEPT ![c] = f]
        /\ shared' = IF n = 0 THEN shared ELSE SharedWith(c, p)
        /\ reset' = IF p \in DOMAIN offsets[c] THEN reset ELSE reset \cup {p}
        /\ IF call[c].todo # {p}
           THEN /\ call' = [call EXCEPT ![c].todo = @ \ {p}, ![c].hand = H]
                /\ UNCHANGED <<delivered, again>>
           ELSE IF AutoCommit /\ H # {}
           THEN /\ call' = [call EXCEPT ![c] =
                      [op |-> "auto_commit", todo |-> DOMAIN f, hand |-> H]]
                /\ UNCHANGED <<delivered, again>>
           ELSE call' = [call EXCEPT ![c] = NoCall] /\ Returned(H)
        /\ UNCHANGED <<server, alive, assigned, excused, unsaved, bounds>>
    <2> HIDE DEF Got, F
    <2> QED BY <1>b, <1>c, <1>d, <1>e
  <1>f. got = {<<p, o>> : o \in from .. from + n - 1}
    BY <1>c
  <1>g. f = IF n = 0 THEN offsets[c] ELSE Put(offsets[c], p, from + n)
    BY <1>e
  <1> HIDE DEF Got, Hand, F
  <1>2. n \in Nat /\ c \in alive /\ offsets[c] \in Offs
    BY <1>1, Runs, ConsumersAssumption DEF Inv, Shapes
  <1>3. end[p] \in Nat /\ end[p] <= MaxOffset /\ MaxOffset \in Nat
    BY ConsumersAssumption DEF Inv, TypeOK
  <1>4. /\ from \in Nat /\ from <= end[p]
        /\ p \in DOMAIN offsets[c] => from = offsets[c][p]
        /\ p \in DOMAIN offsets[c] \/ from = 0
    BY <1>a, <1>2, <1>3, MapsType DEF Position, Inv, TypeOK
  <1>5. from + n <= end[p]
    <2>1. from + n <= end[p] \/ n = 0
      BY <1>1
    <2> QED BY ONLY <2>1, <1>2, <1>3, <1>4
  <1>6. /\ f \in Offs
        /\ DOMAIN offsets[c] \subseteq DOMAIN f /\ DOMAIN f \subseteq DOMAIN offsets[c] \cup {p}
        /\ \A q \in DOMAIN offsets[c] : q # p => f[q] = offsets[c][q]
        /\ p \in DOMAIN f => f[p] = from + n
        /\ n # 0 => p \in DOMAIN f
    <2>1. CASE n = 0
      BY ONLY <2>1, <1>2, <1>4, <1>g
    <2>2. CASE n # 0
      <3>1. PICK x \in Nat : x = from + n
        BY <1>2, <1>4
      <3>2. p \in Partitions /\ f = Put(offsets[c], p, x)
        BY <2>2, <3>1, <1>g
      <3>3. /\ f \in Offs /\ DOMAIN f = DOMAIN offsets[c] \cup {p} /\ f[p] = x
            /\ \A q \in DOMAIN offsets[c] : q # p => f[q] = offsets[c][q]
        BY ONLY <1>2, <3>2, x \in Nat, PutMap
      <3> QED BY <3>1, <3>3
    <2> QED BY <2>1, <2>2
  <1>7. /\ got \in SUBSET Records
        /\ \A q, o : <<q, o>> \in got => q = p /\ p \in DOMAIN f /\ from <= o /\ o < from + n
        /\ \A o \in from .. from + n - 1 : <<p, o>> \in got
    <2>1. \A o \in from .. from + n - 1 : o \in 0 .. MaxOffset - 1 /\ n # 0 /\ from <= o /\ o < from + n
      BY ONLY <1>2, <1>3, <1>4, <1>5
    <2> QED BY <2>1, <1>6, <1>f DEF Records
  <1>8. H = call[c].hand \cup got /\ call[c] \in Calls /\ H \in SUBSET Records
    BY <1>d, <1>7 DEF Inv, TypeOK, Shapes
  <1>9. /\ DOMAIN f \in SUBSET Partitions
        /\ offsets' = [offsets EXCEPT ![c] = f]
    BY <1>1, <1>6, MapsType
  <1>10. /\ shared \subseteq shared' /\ shared' \subseteq Partitions
         /\ p \in DOMAIN f /\ p \notin shared' =>
               \A d \in Members \ {c} : p \notin DOMAIN offsets[d]
    <2>1. CASE n = 0
      BY <2>1, <1>1, <1>g DEF Inv, TypeOK, Single
    <2>2. CASE n # 0
      BY <2>2, <1>1, SharedSound
    <2> QED BY <2>1, <2>2
  <1>11. \E k \in Calls :
            /\ call' = [call EXCEPT ![c] = k]
            /\ \/ /\ k.op \in {"poll_group", "auto_commit"} /\ k.hand = H
                  /\ k.op = "auto_commit" => k.todo = DOMAIN f
                  /\ UNCHANGED <<delivered, again>>
               \/ /\ k = NoCall /\ (AutoCommit => H = {})
                  /\ Returned(H)
    <2>1. CASE call[c].todo # {p}
      <3> DEFINE k == [op |-> "poll_group", todo |-> call[c].todo \ {p}, hand |-> H]
      <3>1. call' = [call EXCEPT ![c].todo = @ \ {p}, ![c].hand = H]
            /\ UNCHANGED <<delivered, again>>
        BY <2>1, <1>1
      <3>2. k \in Calls
        BY <1>8 DEF Calls, Ops
      <3>3. call' = [call EXCEPT ![c] = k]
        BY <3>1, <1>1, <1>8 DEF Inv, Shapes, Calls
      <3> QED BY <3>1, <3>2, <3>3
    <2>2. CASE call[c].todo = {p} /\ AutoCommit /\ H # {}
      <3> DEFINE k == [op |-> "auto_commit", todo |-> DOMAIN f, hand |-> H]
      <3>1. call' = [call EXCEPT ![c] = k] /\ UNCHANGED <<delivered, again>>
        BY <2>2, <1>1
      <3>2. k \in Calls
        BY <1>8, <1>9 DEF Calls, Ops
      <3> QED BY <3>1, <3>2
    <2>3. CASE call[c].todo = {p} /\ ~(AutoCommit /\ H # {})
      <3>1. call' = [call EXCEPT ![c] = NoCall] /\ Returned(H)
        BY <2>3, <1>1
      <3> QED BY <3>1, <2>3, NoCallType
    <2> QED BY <2>1, <2>2, <2>3
  <1>12. PICK k \in Calls :
            /\ call' = [call EXCEPT ![c] = k]
            /\ \/ /\ k.op \in {"poll_group", "auto_commit"} /\ k.hand = H
                  /\ k.op = "auto_commit" => k.todo = DOMAIN f
                  /\ UNCHANGED <<delivered, again>>
               \/ /\ k = NoCall /\ (AutoCommit => H = {})
                  /\ Returned(H)
    BY <1>11
  <1>13. /\ call[c].op = "poll_group"
         /\ reset' = IF p \in DOMAIN offsets[c] THEN reset ELSE reset \cup {p}
         /\ UNCHANGED <<server, alive, assigned, excused, unsaved, bounds>>
    BY <1>1
  <1>14. Advance(c, p, n, from, f, got, H, k)
    BY <1>2, <1>4, <1>5, <1>6, <1>7, <1>8, <1>9, <1>10, <1>12, <1>13 DEF Advance
  <1> QED BY <1>2, <1>4, <1>6, <1>7, <1>8, <1>14, AdvanceStep

-----------------------------------------------------------------------------
(* Steps that give up records or return them.                              *)

\* c drops what it has in hand, and perhaps its offsets with it.
LEMMA DropStep ==
    ASSUME Inv, NEW c \in Members,
           call' = [call EXCEPT ![c] = NoCall],
           offsets' = offsets \/ offsets' = [offsets EXCEPT ![c] = NoOffsets],
           c \in alive' \/ offsets' = [offsets EXCEPT ![c] = NoOffsets],
           alive' \subseteq alive, alive \subseteq alive' \cup {c},
           assigned' \in [Members -> SUBSET Partitions],
           deaths' \in 0 .. MaxDeaths,
           excused' = excused \cup call[c].hand,
           UNCHANGED <<server, delivered, again, shared, reset, unsaved, calls>>
    PROVE  Inv'
  <1>1. UNCHANGED <<end, committed, delivered, again, shared, reset, unsaved, calls>>
    BY DEF server
  <1>2. /\ offsets' \in [Members -> Offs]
        /\ \A d \in Members : \/ offsets'[d] = offsets[d]
                              \/ DOMAIN offsets'[d] = {} /\ d = c
        /\ c \in alive' \/ DOMAIN offsets'[c] = {}
    BY EmptyMap DEF Inv, Shapes
  <1>3. /\ call' \in [Members -> Calls]
        /\ \A d \in Members : d # c => call'[d] = call[d]
        /\ call'[c] = NoCall
    BY NoCallType DEF Inv, Shapes
  <1>4. call[c].hand \subseteq Records
    BY DEF Inv, TypeOK
  <1>5. Known \subseteq Known'
    BY <1>1, <1>3 DEF Known, InHand
  <1>6. TypeOK'
    <2>1. ASSUME NEW d \in Members
          PROVE  /\ DOMAIN offsets'[d] \subseteq Partitions
                 /\ \A q \in DOMAIN offsets'[d] : offsets'[d][q] <= end'[q]
                 /\ call'[d].todo \subseteq Partitions /\ call'[d].hand \subseteq Records
                 /\ d \notin alive' => call'[d] = NoCall /\ DOMAIN offsets'[d] = {}
      BY <1>1, <1>2, <1>3, NoCallType DEF Inv, TypeOK
    <2> QED BY <2>1, <1>1, <1>4 DEF Inv, TypeOK
  <1>7. Shapes'
    BY <1>1, <1>2, <1>3 DEF Inv, Shapes
  <1>8. Control'
    BY <1>2, <1>3, NoCallType DEF Inv, Control, Committing
  <1>9. NothingSkipped'
    BY <1>1, <1>5 DEF Inv, NothingSkipped, Known
  <1>10. Prefix'
    BY <1>2, <1>5 DEF Inv, Prefix
  <1>11. Single' /\ Ahead'
    BY <1>1, <1>2 DEF Inv, Single, Ahead
  <1>12. Once'
    BY <1>1, <1>3, NoCallType DEF Inv, Once
  <1> QED BY <1>6, <1>7, <1>8, <1>9, <1>10, <1>11, <1>12 DEF Inv

LEMMA PollFailsStep ==
    ASSUME Inv, NEW c \in Members, PollFails(c)
    PROVE  Inv'
  <1>1. c \in alive
    BY Runs DEF PollFails
  <1>2. /\ call' = [call EXCEPT ![c] = NoCall] /\ excused' = excused \cup call[c].hand
        /\ UNCHANGED <<server, alive, assigned, offsets, delivered, again, shared,
                       reset, unsaved, deaths, calls>>
    BY DEF PollFails, bounds
  <1>3. assigned \in [Members -> SUBSET Partitions] /\ deaths \in 0 .. MaxDeaths
    BY DEF Inv, TypeOK
  <1> QED BY <1>1, <1>2, <1>3, DropStep

LEMMA DieStep ==
    ASSUME Inv, NEW c \in Members, Die(c)
    PROVE  Inv'
  <1>1. /\ call' = [call EXCEPT ![c] = NoCall] /\ excused' = excused \cup call[c].hand
        /\ offsets' = [offsets EXCEPT ![c] = NoOffsets] /\ alive' = alive \ {c}
        /\ UNCHANGED <<server, delivered, again, shared, reset, unsaved, calls>>
    BY DEF Die
  <1>2. assigned' \in [Members -> SUBSET Partitions] /\ deaths' \in 0 .. MaxDeaths
    BY ConsumersAssumption DEF Die, Inv, TypeOK
  <1> QED BY <1>1, <1>2, DropStep

-----------------------------------------------------------------------------
(* Committing.                                                             *)

\* c commits p and goes on, or commits the last one, or fails.
Save(c, p, k) ==
    /\ Committing(c) /\ p \in call[c].todo
    /\ call' = [call EXCEPT ![c] = k]
    /\ \/ /\ k.op = call[c].op /\ k.hand = call[c].hand /\ k.todo = call[c].todo \ {p}
          /\ committed' = [committed EXCEPT ![p] = offsets[c][p]]
          /\ UNCHANGED <<delivered, again, unsaved>>
       \/ /\ k = NoCall /\ Returned(call[c].hand)
          /\ \/ /\ call[c].todo = {p} /\ unsaved' = unsaved
                /\ committed' = [committed EXCEPT ![p] = offsets[c][p]]
             \/ /\ unsaved' = unsaved \cup call[c].todo
                /\ committed' \in {committed, [committed EXCEPT ![p] = offsets[c][p]]}
    /\ UNCHANGED <<end, alive, assigned, offsets, excused, shared, reset, bounds>>

\* The group's offset of a partition neither shared nor reset only goes forward.
LEMMA SaveForward ==
    ASSUME Inv, NEW c \in Members, NEW p \in Partitions, NEW k, Save(c, p, k)
    PROVE  /\ p \in DOMAIN offsets[c] /\ offsets[c][p] \in Nat /\ offsets[c][p] <= end[p]
           /\ committed' \in [Partitions -> Nat] /\ committed \in [Partitions -> Nat]
           /\ \A q \in Partitions : committed'[q] = committed[q]
                                      \/ (q = p /\ committed'[q] = offsets[c][p])
           /\ \A q \in Partitions \ (shared \cup reset) : committed[q] <= committed'[q]
  <1>1. p \in DOMAIN offsets[c]
    BY DEF Inv, Control, Save
  <1>2. offsets[c][p] \in Nat /\ offsets[c][p] <= end[p]
    BY <1>1, MapsType DEF Inv, Shapes, TypeOK
  <1>3. committed \in [Partitions -> Nat]
    BY ConsumersAssumption DEF Inv, TypeOK
  <1>4. committed' = committed \/ committed' = [committed EXCEPT ![p] = offsets[c][p]]
    BY DEF Save
  <1>5. p \notin shared \cup reset => committed[p] <= offsets[c][p]
    BY <1>1 DEF Inv, Ahead
  <1>6. committed' \in [Partitions -> Nat]
    BY <1>2, <1>3, <1>4
  <1>7. \A q \in Partitions : committed'[q] = committed[q]
                                \/ (q = p /\ committed'[q] = offsets[c][p])
    <2>1. CASE committed' = committed
      BY <2>1
    <2>2. CASE committed' = [committed EXCEPT ![p] = offsets[c][p]]
      BY <2>2, <1>3
    <2> QED BY <2>1, <2>2, <1>4
  <1>8. \A q \in Partitions \ (shared \cup reset) : committed[q] <= committed'[q]
    BY <1>2, <1>3, <1>5, <1>7
  <1> QED BY <1>1, <1>2, <1>3, <1>6, <1>7, <1>8

\* Such a step keeps the invariant.
LEMMA SaveStep ==
    ASSUME Inv, NEW c \in Members, NEW p \in Partitions, NEW k \in Calls, Save(c, p, k)
    PROVE  Inv'
  <1>1. UNCHANGED <<end, alive, assigned, offsets, excused, shared, reset, deaths, calls>>
    BY DEF Save, bounds
  <1>2. /\ p \in DOMAIN offsets[c] /\ offsets[c][p] \in Nat /\ offsets[c][p] <= end[p]
        /\ committed' \in [Partitions -> Nat] /\ committed \in [Partitions -> Nat]
        /\ \A q \in Partitions : committed'[q] = committed[q]
                                   \/ (q = p /\ committed'[q] = offsets[c][p])
        /\ \A q \in Partitions \ (shared \cup reset) : committed[q] <= committed'[q]
    BY SaveForward
  <1>3. /\ call' \in [Members -> Calls] /\ call'[c] = k
        /\ \A d \in Members : d # c => call'[d] = call[d]
    BY DEF Inv, Shapes, Save
  <1>4. c \in alive /\ call[c].op \in {"commit_offsets", "auto_commit"}
    BY Runs DEF Save, Committing
  <1>5. /\ delivered \subseteq delivered' /\ delivered' \subseteq delivered \cup call[c].hand
        /\ k.hand = call[c].hand \/ (k.hand = {} /\ delivered' = delivered \cup call[c].hand)
    BY NoCallType DEF Save, Returned
  <1>6. unsaved \subseteq unsaved' /\ unsaved' \subseteq Partitions
    BY DEF Save, Inv, TypeOK
  <1>7. call[c].hand \subseteq Records
    BY DEF Inv, TypeOK
  <1>8. \A q, o : <<q, o>> \in call[c].hand => q \in Partitions /\ o \in Nat
    BY <1>7, ConsumersAssumption DEF Records
  <1>9. Known \subseteq Known'
    <2>1. InHand \subseteq InHand' \cup delivered'
      BY <1>3, <1>5 DEF InHand
    <2> QED BY <2>1, <1>1, <1>5 DEF Known
  <1>10. again' \subseteq again \cup {r[1] : r \in call[c].hand \cap delivered}
    BY DEF Save, Returned
  <1>11. TypeOK'
    <2>1. committed' \in [Partitions -> 0 .. MaxOffset]
      BY <1>2, ConsumersAssumption DEF Inv, TypeOK
    <2>2. again' \subseteq Partitions
      <3>1. \A r \in Records : r[1] \in Partitions
        BY DEF Records
      <3> QED BY <3>1, <1>7, <1>10 DEF Inv, TypeOK
    <2>3. ASSUME NEW d \in Members
          PROVE  /\ DOMAIN offsets'[d] \subseteq Partitions
                 /\ \A q \in DOMAIN offsets'[d] : offsets'[d][q] <= end'[q]
                 /\ call'[d].todo \subseteq Partitions /\ call'[d].hand \subseteq Records
                 /\ d \notin alive' => call'[d] = NoCall /\ DOMAIN offsets'[d] = {}
      <3>1. call'[d].todo \subseteq Partitions /\ call'[d].hand \subseteq Records
        BY <1>3 DEF Calls
      <3> QED BY <3>1, <1>1, <1>3, <1>4 DEF Inv, TypeOK
    <2>4. delivered' \subseteq Records
      BY <1>5, <1>7 DEF Inv, TypeOK
    <2> QED BY <2>1, <2>2, <2>3, <2>4, <1>1, <1>6 DEF Inv, TypeOK
  <1>12. Shapes'
    BY <1>1, <1>2, <1>3 DEF Inv, Shapes
  <1>13. Control'
    <2>1. ASSUME NEW d \in Members
          PROVE  /\ call'[d].op \notin {"poll_group", "auto_commit"} => call'[d].hand = {}
                 /\ Committing(d)' => call'[d].todo \subseteq DOMAIN offsets[d]
                 /\ call'[d].hand \subseteq call[d].hand
      <3>1. CASE d # c
        BY <3>1, <1>3 DEF Inv, Control, Committing
      <3>2. CASE d = c
        BY <3>2, <1>3, NoCallType DEF Inv, Control, Committing, Save
      <3> QED BY <3>1, <3>2
    <2> QED BY <2>1, <1>1 DEF Inv, Control
  <1>14. NothingSkipped'
    <2> SUFFICES ASSUME NEW q \in Partitions, NEW o \in 0 .. committed'[q] - 1
                 PROVE  <<q, o>> \in Known'
      BY DEF NothingSkipped, Known
    <2>1. CASE committed'[q] = committed[q]
      BY <2>1, <1>9 DEF Inv, NothingSkipped, Known
    <2>2. CASE q = p /\ committed'[q] = offsets[c][p]
      BY <2>2, <1>2, <1>9 DEF Inv, Prefix
    <2> QED BY <2>1, <2>2, <1>2
  <1>15. Prefix'
    BY <1>1, <1>9 DEF Inv, Prefix
  <1>16. Single'
    BY <1>1 DEF Inv, Single
  <1>17. Ahead'
    BY <1>1, <1>2 DEF Inv, Ahead, Single
  <1>18. Once'
    <2> SUFFICES ASSUME AutoCommit, NEW q \in Partitions \ (shared \cup reset \cup unsaved')
                 PROVE  /\ q \notin again'
                        /\ \A o \in Nat : <<q, o>> \in delivered' => o < committed'[q]
                        /\ \A d \in Members : \A o \in Nat : <<q, o>> \in call'[d].hand =>
                              /\ <<q, o>> \notin delivered'
                              /\ call'[d].op = "auto_commit" /\ q \notin call'[d].todo
                                    => o < committed'[q]
      BY <1>1 DEF Once
    <2>1. q \in Partitions \ (shared \cup reset \cup unsaved) /\ committed[q] <= committed'[q]
          /\ committed[q] \in Nat /\ committed'[q] \in Nat
      BY <1>2, <1>6
    <2>2. /\ q \notin again
          /\ \A o \in Nat : <<q, o>> \in delivered => o < committed'[q]
          /\ \A d \in Members : \A o \in Nat : <<q, o>> \in call[d].hand =>
                /\ <<q, o>> \notin delivered
                /\ call[d].op = "auto_commit" /\ q \notin call[d].todo => o < committed'[q]
      BY <2>1 DEF Inv, Once
    <2>3. q \notin again'
      <3> SUFFICES ASSUME NEW r \in call[c].hand \cap delivered, r[1] = q
                   PROVE  FALSE
        BY <1>10, <2>2
      <3>1. r = <<q, r[2]>> /\ r[2] \in Nat
        BY <1>7, ConsumersAssumption DEF Records
      <3> QED BY <3>1, <2>2
    <2>4. ASSUME NEW o \in Nat, <<q, o>> \in call[c].hand,
                 q = p => committed'[q] = offsets[c][p],
                 q \notin call[c].todo \/ q = p
          PROVE  o < committed'[q]
      <3>1. call[c].op = "auto_commit" /\ o < offsets[c][q]
        BY <2>4, <1>4 DEF Inv, Control
      <3> QED BY <3>1, <2>2, <2>4
    <2>5. ASSUME NEW o \in Nat, <<q, o>> \in delivered'
          PROVE  o < committed'[q]
      <3>1. CASE <<q, o>> \in delivered
        BY <3>1, <2>2
      <3>2. CASE <<q, o>> \notin delivered
        <4>1. <<q, o>> \in call[c].hand /\ delivered' # delivered
          BY <3>2, <2>5, <1>5
        <4>2. \/ call[c].todo = {p} /\ committed' = [committed EXCEPT ![p] = offsets[c][p]]
              \/ unsaved' = unsaved \cup call[c].todo
          BY <4>1 DEF Save
        <4>3. CASE call[c].todo = {p} /\ committed' = [committed EXCEPT ![p] = offsets[c][p]]
          <5>1. q = p => committed'[q] = offsets[c][p]
            BY <4>3, <1>2
          <5> QED BY <5>1, <4>1, <4>3, <2>4
        <4>4. CASE unsaved' = unsaved \cup call[c].todo
          BY <4>1, <4>4, <2>4 DEF Save
        <4> QED BY <4>2, <4>3, <4>4
      <3> QED BY <3>1, <3>2
    <2>6. ASSUME NEW d \in Members, NEW o \in Nat, <<q, o>> \in call'[d].hand
          PROVE  /\ <<q, o>> \notin delivered'
                 /\ call'[d].op = "auto_commit" /\ q \notin call'[d].todo => o < committed'[q]
      <3>1. CASE d # c
        <4>1. <<q, o>> \in call[d].hand /\ call'[d] = call[d]
          BY <2>6, <3>1, <1>3
        <4>2. <<q, o>> \notin call[c].hand
          BY <4>1, <3>1, <2>1 DEF Inv, Control, Single
        <4> QED BY <4>1, <4>2, <2>2, <1>5
      <3>2. CASE d = c
        <4>1. /\ <<q, o>> \in call[c].hand /\ call'[d] = k /\ k.op = call[c].op
              /\ k.todo = call[c].todo \ {p} /\ delivered' = delivered
              /\ committed' = [committed EXCEPT ![p] = offsets[c][p]]
          BY <2>6, <3>2, <1>3, NoCallType DEF Save
        <4>2. q = p => committed'[q] = offsets[c][p]
          BY <4>1, <1>2
        <4> QED BY <4>1, <4>2, <2>2, <2>4
      <3> QED BY <3>1, <3>2
    <2> QED BY <2>3, <2>5, <2>6
  <1> QED BY <1>11, <1>12, <1>13, <1>14, <1>15, <1>16, <1>17, <1>18 DEF Inv

\* Commit and CommitFails are such steps.
LEMMA CommitSaves ==
    ASSUME Inv, NEW c \in Members, NEW p \in Partitions, Commit(c, p) \/ CommitFails(c, p)
    PROVE  \E k \in Calls : Save(c, p, k)
  <1>1. call[c] \in Calls /\ call \in [Members -> Calls]
    BY DEF Inv, Shapes
  <1>2. CASE Commit(c, p) /\ call[c].todo = {p}
    <2>1. Save(c, p, NoCall)
      BY <1>2 DEF Commit, Save
    <2> QED BY <2>1, NoCallType
  <1>3. CASE Commit(c, p) /\ call[c].todo # {p}
    <2> DEFINE k == [call[c] EXCEPT !.todo = @ \ {p}]
    <2>1. k \in Calls /\ k.op = call[c].op /\ k.hand = call[c].hand
          /\ k.todo = call[c].todo \ {p}
      BY <1>1 DEF Calls
    <2>2. call' = [call EXCEPT ![c] = k]
      BY <1>1, <1>3 DEF Commit
    <2> HIDE DEF k
    <2>3. Save(c, p, k)
      BY <1>3, <2>1, <2>2 DEF Commit, Save
    <2> QED BY <2>1, <2>3
  <1>4. CASE CommitFails(c, p)
    <2>1. Save(c, p, NoCall)
      BY <1>4 DEF CommitFails, Save
    <2> QED BY <2>1, NoCallType
  <1> QED BY <1>2, <1>3, <1>4

-----------------------------------------------------------------------------
(* The log grows, a consumer connects, nothing happens.                    *)

LEMMA ProduceStep ==
    ASSUME Inv, NEW p \in Partitions, Produce(p)
    PROVE  Inv'
  <1>1. UNCHANGED <<committed, alive, assigned, offsets, call, delivered, excused, again,
                    shared, reset, unsaved, deaths, calls>>
    BY DEF Produce, history, noted, bounds
  <1>2. /\ end' \in [Partitions -> 0 .. MaxOffset] /\ end \in [Partitions -> 0 .. MaxOffset]
        /\ \A q \in Partitions : end[q] <= end'[q]
    BY ConsumersAssumption DEF Produce, Inv, TypeOK
  <1>3. \A d \in Members : DOMAIN offsets[d] \subseteq Partitions
                             /\ \A q \in DOMAIN offsets[d] : offsets[d][q] \in Nat
    BY MapsType DEF Inv, Shapes
  <1>4. \A d \in Members : \A q \in DOMAIN offsets[d] : offsets[d][q] <= end'[q]
    BY <1>2, <1>3, ConsumersAssumption DEF Inv, TypeOK
  <1>5. TypeOK'
    BY <1>1, <1>2, <1>4 DEF Inv, TypeOK
  <1>6. Shapes'
    BY <1>1, <1>2, ConsumersAssumption DEF Inv, TypeOK, Shapes
  <1> QED BY <1>1, <1>5, <1>6 DEF Inv, Control, Committing, NothingSkipped, Prefix, Known,
             InHand, Single, Ahead, Once

LEMMA ConnectStep ==
    ASSUME Inv, NEW c \in Members, Connect(c)
    PROVE  Inv'
  <1>1. alive' = alive \cup {c}
        /\ UNCHANGED <<end, committed, assigned, offsets, call, delivered, excused, again,
                       shared, reset, unsaved, deaths, calls>>
    BY DEF Connect, server, history, noted, bounds
  <1>2. TypeOK'
    BY <1>1 DEF Inv, TypeOK
  <1> QED BY <1>1, <1>2 DEF Inv, Shapes, Control, Committing, NothingSkipped, Prefix, Known,
             InHand, Single, Ahead, Once

LEMMA StutterStep ==
    ASSUME Inv, UNCHANGED vars
    PROVE  Inv'
  <1>1. UNCHANGED <<end, committed, alive, assigned, offsets, call, delivered, excused, again,
                    shared, reset, unsaved, deaths, calls>>
    BY DEF vars, server, history, noted, bounds
  <1>2. TypeOK'
    BY <1>1 DEF Inv, TypeOK
  <1> QED BY <1>1, <1>2 DEF Inv, Shapes, Control, Committing, NothingSkipped, Prefix, Known,
             InHand, Single, Ahead, Once

\* Every step of the consumers, of the broker and of their processes keeps the
\* invariant.
LEMMA NextInv == Inv /\ [Next]_vars => Inv'
  <1> SUFFICES ASSUME Inv, [Next]_vars PROVE Inv'
    OBVIOUS
  <1>1. CASE UNCHANGED vars
    BY <1>1, StutterStep
  <1>2. ASSUME NEW p \in Partitions, Produce(p) PROVE Inv'
    BY <1>2, ProduceStep
  <1>3. ASSUME NEW c \in Members,
               \/ Join(c) \/ JoinFails(c) \/ Leave(c)
               \/ Poll(c) \/ PollFails(c) \/ CommitOffsets(c)
               \/ Die(c) \/ Connect(c)
        PROVE  Inv'
    BY <1>3, JoinStep, JoinFailsStep, LeaveStep, PollStep, PollFailsStep,
       CommitOffsetsStep, DieStep, ConnectStep
  <1>4. ASSUME NEW c \in Members, NEW p \in Partitions, FetchCommitted(c, p) \/ Fetch(c, p)
        PROVE  Inv'
    BY <1>4, FetchCommittedStep, FetchStep
  <1>5. ASSUME NEW c \in Members, NEW p \in Partitions, Commit(c, p) \/ CommitFails(c, p)
        PROVE  Inv'
    BY <1>5, CommitSaves, SaveStep
  <1>6. ASSUME NEW c \in Members, NEW p \in Partitions, NEW o \in 0 .. end[p], Seek(c, p, o)
        PROVE  Inv'
    BY <1>6, SeekStep
  <1> QED BY <1>1, <1>2, <1>3, <1>4, <1>5, <1>6 DEF Next

-----------------------------------------------------------------------------
(* The theorems.                                                           *)

\* The inductive invariant holds throughout.
LEMMA Invariance == Spec => []Inv
  BY InitInv, NextInv, PTL DEF Spec

\* Consumers that do not exist run nothing, and no offset is beyond its log.
THEOREM ConsumersTypeCorrect == Spec => []TypeOK
  <1>1. Inv => TypeOK
    BY DEF Inv
  <1> QED BY <1>1, Invariance, PTL

\* However the polls and commits of the group's consumers interleave, fail and
\* die: every record below the group's offset was returned by poll_group, is about
\* to be, or was given up by a poll that failed, a process that died or a seek.
THEOREM NothingIsSkipped == Spec => []NothingSkipped
  <1>1. Inv => NothingSkipped
    BY DEF Inv
  <1> QED BY <1>1, Invariance, PTL

\* With auto-commit poll_group returns a record twice only of a partition that was
\* shared, reset, or whose commit failed.
THEOREM ReturnedOnce == Spec => []DeliveredOnce
  <1>1. Inv => DeliveredOnce
    BY DEF Inv, TypeOK, Once, DeliveredOnce
  <1> QED BY <1>1, Invariance, PTL

\* No step moves the group's offset of a partition back, unless two consumers had
\* an offset for it or it was reset.
THEOREM CommitsStayForward == Spec => CommitsGoForward
  <1> DEFINE Forward == \A p \in Partitions : committed'[p] < committed[p] => p \in shared \cup reset
  <1>1. ASSUME Inv, [Next]_vars PROVE [Forward]_vars
    <2>1. committed \in [Partitions -> Nat]
      BY <1>1, ConsumersAssumption DEF Inv, TypeOK
    <2>2. ASSUME NEW c \in Members, NEW p \in Partitions, Commit(c, p) \/ CommitFails(c, p)
          PROVE  Forward
      <3>1. PICK k \in Calls : Save(c, p, k)
        BY <1>1, <2>2, CommitSaves
      <3>2. /\ committed' \in [Partitions -> Nat]
            /\ \A q \in Partitions \ (shared \cup reset) : committed[q] <= committed'[q]
        BY <1>1, <3>1, SaveForward
      <3> QED BY <2>1, <3>2
    <2>3. CASE UNCHANGED committed
      BY <2>1, <2>3
    <2>4. ASSUME Next,
                 ~\E c \in Members, p \in Partitions : Commit(c, p) \/ CommitFails(c, p)
          PROVE  UNCHANGED committed
      <3>1. ASSUME NEW c \in Members, NEW p \in Partitions, Fetch(c, p)
            PROVE  UNCHANGED committed
        BY <3>1 DEF Fetch, server
      <3> QED BY <2>4, <3>1 DEF Next, Join, JoinFails, Leave, Poll, PollFails, CommitOffsets,
                 FetchCommitted, Seek, Die, Connect, Produce, server
    <2> QED BY <1>1, <2>2, <2>3, <2>4
  <1> QED BY <1>1, Invariance, PTL DEF Spec, CommitsGoForward

-----------------------------------------------------------------------------
(* The producers: types, and what a call makes of its messages.            *)

\* The messages, and the batches by partition that a call has made of them.
Msg == [id : Ids, key : Keys]
\* What a call has for each partition.
Maps == UNION {[S -> Seq(Msg)] : S \in SUBSET Nat}

\* What a producer runs.
Sending ==
    [at : {"metadata", "partition", "load", "store", "read", "send", "failed"}, topic : Topics,
     batch : Seq(Msg), todo : Seq(Msg), batches : Maps, seen : Nat]

\* What has which type.
SendTypes ==
    /\ mode \in Modes
    /\ counter \in 0 .. Modulus - 1 /\ current \in Nat /\ wraps \in Nat
    /\ DOMAIN log = Topics
    /\ \A t \in Topics :
          /\ DOMAIN log[t] = 0 .. CountOf[t] - 1
          /\ \A i \in DOMAIN log[t] : log[t][i] \in Seq(Msg)
    /\ DOMAIN sending = Clients
    /\ \A c \in Clients : sending[c] = NoSend \/ sending[c] \in Sending
    /\ made \in [Clients -> 0 .. MaxMessages]
    /\ tries \in [Ids -> Nat]
    /\ acked \subseteq Ids
    /\ given \in [Topics -> [Places -> Nat]]

\* The producer c, with n messages made, is in a call: the messages of its batch
\* are the last ones made, those still to be divided the last of the batch.
Divides(o, c, n) ==
    /\ o.batch # <<>> /\ Len(o.batch) <= n
    /\ \A k \in 1 .. Len(o.batch) : o.batch[k].id = <<c, n - Len(o.batch) + k>>
    /\ Len(o.todo) <= Len(o.batch)
    /\ \A k \in 1 .. Len(o.todo) : o.todo[k] = o.batch[Len(o.batch) - Len(o.todo) + k]
    /\ o.at \in {"metadata", "partition", "load", "store", "read"} => o.todo # <<>>
    /\ o.at = "send" => o.todo = <<>>
    /\ o.at = "metadata" => o.batches = NoBatches /\ o.todo = o.batch

\* ... and so for every call.
Numbers == \A c \in Clients : sending[c] # NoSend => Divides(sending[c], c, made[c])

\* The k-th message of the batch is in a batch by partition.
Kept(o, k) == \E i \in DOMAIN o.batches : \E j \in 1 .. Len(o.batches[i]) : o.batches[i][j] = o.batch[k]

\* What is in the batches by partition was in the batch, before what is to be
\* divided, and is there once.
Divided(o) ==
    /\ \A i \in DOMAIN o.batches : \A j \in 1 .. Len(o.batches[i]) :
          \E k \in 1 .. Len(o.batch) - Len(o.todo) : o.batches[i][j] = o.batch[k]
    /\ \A i, h \in DOMAIN o.batches : \A j \in 1 .. Len(o.batches[i]), l \in 1 .. Len(o.batches[h]) :
          o.batches[i][j].id = o.batches[h][l].id => i = h /\ j = l

\* The places of l where the message m is.
CopiesIn(l, m) ==
    UNION {UNION {{<<t, i, k>> : k \in {j \in DOMAIN l[t][i] : l[t][i][j].id = m}} :
                     i \in DOMAIN l[t]} : t \in Topics}

\* Nothing that was divided is forgotten: it is to be sent, or in the log.
NoneLost(o, l) ==
    \A k \in 1 .. Len(o.batch) - Len(o.todo) :
        \/ Kept(o, k)
        \/ o.at = "send" /\ CopiesIn(l, o.batch[k].id) # {}

\* The calls that have not ended lose and repeat nothing.
Divisions ==
    \A c \in Clients : sending[c].at \notin {"idle", "failed"} =>
        Divided(sending[c]) /\ NoneLost(sending[c], log)

\* The messages that the call of c is still to send.
Held(o) ==
    IF o.at \in {"idle", "failed"} THEN {}
    ELSE {o.todo[k].id : k \in 1 .. Len(o.todo)} \cup
         UNION {{o.batches[i][j].id : j \in 1 .. Len(o.batches[i])} : i \in DOMAIN o.batches}

\* The message m is in the log l at most as often as n calls had it, counting the
\* call o that is still to send it.
TriedFor(l, o, n, m) ==
    /\ IsFiniteSet(CopiesIn(l, m))
    /\ Cardinality(CopiesIn(l, m)) + (IF m \in Held(o) THEN 1 ELSE 0) <= n

\* No message is in the log more often than it was tried.
Tried == \A m \in Ids : TriedFor(log, sending[m[1]], tries[m], m)

\* Acknowledged messages are in the log.
AckedIn == \A m \in acked : CopiesIn(log, m) # {}

\* Where the key-hash partitioner puts a key.
PlaceOf(t, key) == IF key = NoKey THEN 0 ELSE HashOf[key] % CountOf[t]

\* The messages of the log l were made, and are where the partitioner puts them.
MadeIn(l, n) ==
    \A t \in Topics : \A i \in DOMAIN l[t] : \A a \in DOMAIN l[t][i] :
        l[t][i][a].id[2] <= n[l[t][i][a].id[1]]

\* ... and are where the key-hash partitioner puts them.
PlacedIn(l) ==
    \A t \in Topics : \A i \in DOMAIN l[t] : \A a \in DOMAIN l[t][i] :
        i = PlaceOf(t, l[t][i][a].key)

\* Those with one key are in order.
KeyIn(l) ==
    \A t \in Topics : \A i, j \in DOMAIN l[t] : \A a \in DOMAIN l[t][i], b \in DOMAIN l[t][j] :
        (/\ l[t][i][a].key = l[t][j][b].key /\ l[t][i][a].id[1] = l[t][j][b].id[1]
         /\ l[t][i][a].id[2] < l[t][j][b].id[2]) =>
            i = j /\ \E d \in 1 .. b : l[t][i][d].id = l[t][i][a].id

\* A message is in its batch behind those with its key that come before it.
Behind(o, i, j) ==
    \A k, h \in 1 .. Len(o.batch) :
        (o.batches[i][j] = o.batch[k] /\ h < k /\ o.batch[h].key = o.batch[k].key) =>
            \E l \in 1 .. j - 1 : o.batches[i][l] = o.batch[h]

\* ... so are all messages of the batches, each in the batch of its partition.
Follows(o) ==
    \A i \in DOMAIN o.batches : \A j \in 1 .. Len(o.batches[i]) :
        i = PlaceOf(o.topic, o.batches[i][j].key) /\ Behind(o, i, j)

\* ... and so it is in the log, if a call before sent it.
InBatch(l, o, t, i, b) ==
    /\ t = o.topic
    /\ \E k \in 1 .. Len(o.batch) :
          /\ l[t][i][b] = o.batch[k]
          /\ \A h \in 1 .. k - 1 : o.batch[h].key = o.batch[k].key =>
                \E d \in 1 .. b : l[t][i][d] = o.batch[h]

\* So are all messages of c's call o that are in the log, n messages being made.
FollowsIn(l, o, c, n) ==
    \A t \in Topics : \A i \in DOMAIN l[t] : \A b \in DOMAIN l[t][i] :
        (l[t][i][b].id[1] = c /\ l[t][i][b].id[2] > n - Len(o.batch)) => InBatch(l, o, t, i, b)

\* What the key-hash partitioner keeps of a call: its messages in the log, and those
\* in its batches unless it failed or the topic has no partitions.
Orders(l, o, c, n) ==
    o # NoSend =>
        /\ FollowsIn(l, o, c, n)
        /\ o.at # "failed" /\ CountOf[o.topic] > 0 => Follows(o)

\* The invariant that KeyOrdered needs.
Ordered ==
    /\ MadeIn(log, made)
    /\ mode = "key_hash" =>
          /\ PlacedIn(log) /\ KeyIn(log)
          /\ \A c \in Clients : Orders(log, sending[c], c, made[c])

\* The sticky partitioner.
Sticks ==
    /\ current \in Places
    /\ \A c \in Clients : sending[c].at \in {"load", "store", "read"} =>
          mode = "sticky" /\ CountOf[sending[c].topic] > 0

\* 1 for the partitions before r in the round.
Before(i, r) == IF i < r THEN 1 ELSE 0

\* What Spread needs: the partitions before the counter in its round are one ahead.
Evenly ==
    \A t \in Topics : CountOf[t] > 0 /\ ServesOnly(t) =>
        /\ current < CountOf[t]
        /\ \A i \in Places : i >= CountOf[t] => given[t][i] = 0
        /\ mode = "round_robin" => \A i, j \in 0 .. CountOf[t] - 1 :
              given[t][i] + Before(j, counter % CountOf[t]) <=
                  given[t][j] + wraps + Before(i, counter % CountOf[t])

-----------------------------------------------------------------------------
(* What each step does to a call and to the log.                           *)

\* What Choose makes of a call: its next message goes to the batch of partition i.
Joined(o, i) ==
    [j \in DOMAIN o.batches \cup {i} |->
        IF j = i THEN Append(IF i \in DOMAIN o.batches THEN o.batches[i] ELSE <<>>, Head(o.todo))
        ELSE o.batches[j]]

\* The call q is o with its next message given to partition i.
Chosen(o, q, i) ==
    q = [o EXCEPT !.batches = Joined(o, i), !.todo = Tail(o.todo),
                  !.at = IF Len(o.todo) = 1 THEN "send" ELSE "partition"]

\* A call is in one of these places while it divides its batch.
Early == {"metadata", "partition", "load", "store", "read"}

\* A step of a call that sends and divides nothing.
Moves(o, q) ==
    /\ o.at \in Early /\ q.at \in Early \cup {"failed"}
    /\ q.at # "metadata"
    /\ q.topic = o.topic /\ q.batch = o.batch /\ q.todo = o.todo /\ q.batches = o.batches

\* What a call starts with.
Fresh(o, t, batch) ==
    /\ o.at \in {"metadata", "partition"} /\ o.topic = t /\ o.batch = batch /\ o.todo = batch
    /\ o.batches = NoBatches

\* The call of c becomes q.
Turns(s, s2, c, q) == s2 = [s EXCEPT ![c] = q]

\* The messages s are appended to partition i of topic t.
Grown(l, l2, t, i, s) ==
    /\ DOMAIN l2 = DOMAIN l
    /\ \A u \in DOMAIN l : DOMAIN l2[u] = DOMAIN l[u]
    /\ \A u \in DOMAIN l : \A j \in DOMAIN l[u] :
          l2[u][j] = IF u = t /\ j = i THEN l[u][j] \o s ELSE l[u][j]

\* An append is that.
LEMMA GrownLog ==
    ASSUME NEW l, NEW t \in DOMAIN l, NEW i \in DOMAIN l[t], NEW s, NEW l2,
           l2 = [l EXCEPT ![t][i] = @ \o s]
    PROVE  Grown(l, l2, t, i, s)
BY DEF Grown

\* A call in progress has all the fields.
LEMMA CallFields ==
    ASSUME SendTypes, NEW c \in Clients, sending[c].at # "idle"
    PROVE  sending[c] \in Sending
BY DEF SendTypes, NoSend

\* The empty map, and the map with one message more.
LEMMA NoBatchesMap == NoBatches \in Maps /\ DOMAIN NoBatches = {}
<1>1. NoBatches \in [{} -> Seq(Msg)]  BY DEF NoBatches
<1>. QED  BY <1>1 DEF Maps, NoBatches

\* The batches by partition, one by one.
LEMMA MapsAre ==
    ASSUME NEW f \in Maps
    PROVE  DOMAIN f \subseteq Nat /\ \A i \in DOMAIN f : f[i] \in Seq(Msg)
BY DEF Maps

\* A batch by partition with a message more is one.
LEMMA JoinedType ==
    ASSUME NEW o \in Sending, o.todo # <<>>, NEW i \in Nat
    PROVE  Joined(o, i) \in Maps
<1>1. o.batches \in Maps /\ o.todo \in Seq(Msg)  BY DEF Sending
<1>2. Head(o.todo) \in Msg  BY <1>1, HeadTailProperties
<1>3. DOMAIN o.batches \subseteq Nat /\ \A j \in DOMAIN o.batches : o.batches[j] \in Seq(Msg)
  BY <1>1, MapsAre
<1>. DEFINE old == IF i \in DOMAIN o.batches THEN o.batches[i] ELSE <<>>
<1>4. old \in Seq(Msg)  BY <1>3
<1>5. Append(old, Head(o.todo)) \in Seq(Msg)  BY <1>2, <1>4
<1>. DEFINE S == DOMAIN o.batches \cup {i}
<1>6. S \in SUBSET Nat  BY <1>3
<1>7. Joined(o, i) \in [S -> Seq(Msg)]
  <2>. HIDE DEF old
  <2>1. Joined(o, i) = [j \in S |-> IF j = i THEN Append(old, Head(o.todo)) ELSE o.batches[j]]
    BY DEF Joined, old
  <2>. QED  BY <1>3, <1>5, <2>1
<1>. HIDE DEF S
<1>. QED  BY <1>6, <1>7 DEF Maps

\* What a choice leaves alone and changes.
LEMMA ChosenType ==
    ASSUME NEW o \in Sending, o.todo # <<>>, NEW i \in Nat, NEW q, Chosen(o, q, i)
    PROVE  /\ q \in Sending
           /\ q.topic = o.topic /\ q.batch = o.batch /\ q.todo = Tail(o.todo)
           /\ q.batches = Joined(o, i)
           /\ q.at = IF Len(o.todo) = 1 THEN "send" ELSE "partition"
<1>1. Joined(o, i) \in Maps  BY JoinedType
<1>2. Tail(o.todo) \in Seq(Msg)  BY HeadTailProperties DEF Sending
<1>. QED  BY <1>1, <1>2 DEF Chosen, Sending

\* What Choose does.
LEMMA ChooseDoes ==
    ASSUME SendTypes, NEW c \in Clients, sending[c] \in Sending, NEW i, Choose(c, i)
    PROVE  \E q : Chosen(sending[c], q, i) /\ Turns(sending, sending', c, q)
<1>. DEFINE o == sending[c]
            q == [o EXCEPT !.batches = Joined(o, i), !.todo = Tail(o.todo),
                           !.at = IF Len(o.todo) = 1 THEN "send" ELSE "partition"]
<1>1. sending' = [sending EXCEPT ![c] = q]
  BY DEF Choose, Joined, SendTypes, Sending
<1>. QED  BY <1>1 DEF Chosen, Turns

\* Types, the sticky partition, and how a call comes along.
SendInv == SendTypes /\ Sticks /\ Numbers

\* A remainder is below what one divides by.
LEMMA Remainder == ASSUME NEW a \in Nat, NEW n \in Nat, n > 0 PROVE a % n \in 0 .. n - 1
OBVIOUS

\* The places are numbers, and have those of every topic.
LEMMA PlacesAre ==
    /\ Places \subseteq Nat /\ 0 \in Places
           /\ \A t \in Topics : CountOf[t] \in Nat /\ 0 .. CountOf[t] \subseteq Places
<1>1. \A t \in Topics : CountOf[t] \in Nat  BY ProducersAssumption
<1>. QED  BY <1>1 DEF Places

\* A remainder is a partition of the topic.
LEMMA PlaceIs ==
    ASSUME NEW t \in Topics, CountOf[t] > 0, NEW a \in Nat
    PROVE  a % CountOf[t] \in 0 .. CountOf[t] - 1 /\ a % CountOf[t] \in Places
<1>1. CountOf[t] \in Nat /\ 0 .. CountOf[t] \subseteq Places  BY PlacesAre
<1>2. a % CountOf[t] \in 0 .. CountOf[t] - 1  BY <1>1, Remainder
<1>3. 0 .. CountOf[t] - 1 \subseteq 0 .. CountOf[t]  BY <1>1
<1>. QED  BY <1>1, <1>2, <1>3

\* The batch that SendBatch makes of keys.
LEMMA MadeBatch ==
    ASSUME NEW c \in Clients, NEW n \in Nat, NEW ks \in Seq(Keys), ks # <<>>,
           n + Len(ks) <= MaxMessages, NEW b,
           b = [i \in DOMAIN ks |-> [id |-> <<c, n + i>>, key |-> ks[i]]]
    PROVE  /\ b \in Seq(Msg) /\ Len(b) = Len(ks) /\ b # <<>>
           /\ \A k \in 1 .. Len(b) : b[k].id = <<c, n + k>>
<1>1. Len(ks) \in Nat /\ DOMAIN ks = 1 .. Len(ks) /\ MaxMessages \in Nat
  BY ProducersAssumption
<1>2. Len(ks) # 0  BY EmptySeq
<1>3. \A i \in 1 .. Len(ks) : n + i \in 1 .. MaxMessages /\ ks[i] \in Keys
  BY <1>1
<1>4. \A i \in 1 .. Len(ks) : [id |-> <<c, n + i>>, key |-> ks[i]] \in Msg
  BY <1>3 DEF Msg, Ids
<1>5. b \in [1 .. Len(ks) -> Msg]  BY <1>1, <1>4
<1>6. b \in Seq(Msg) /\ Len(b) = Len(ks)  BY <1>1, <1>5
<1>7. \A k \in 1 .. Len(ks) : b[k].id = <<c, n + k>>  BY <1>1
<1>8. b # <<>>  BY <1>2, <1>6
<1>. QED  BY <1>6, <1>7, <1>8

\* A start makes a fresh call.
LEMMA StartDoes ==
    ASSUME SendTypes, NEW c \in Clients, NEW t \in Topics, NEW batch \in Seq(Msg),
           Start(c, t, batch)
    PROVE  /\ \E q \in Sending : Fresh(q, t, batch) /\ Turns(sending, sending', c, q)
           /\ tries' \in [Ids -> Nat]
<1>. DEFINE q == [at |-> IF t \in cache[c] THEN "partition" ELSE "metadata", topic |-> t,
                  batch |-> batch, todo |-> batch, batches |-> NoBatches, seen |-> 0]
<1>1. q \in Sending  BY NoBatchesMap DEF Sending
<1>2. Fresh(q, t, batch)  BY DEF Fresh
<1>3. Turns(sending, sending', c, q)  BY DEF Start, Turns
<1>4. tries' \in [Ids -> Nat]  BY DEF Start, SendTypes
<1>. QED  BY <1>1, <1>2, <1>3, <1>4

\* The two calls that start.
LEMMA SendBatchDoes ==
    ASSUME SendTypes, NEW c \in Clients, NEW t \in Topics,
           NEW ks \in Batches, SendBatch(c, t, ks)
    PROVE  \E batch \in Seq(Msg) :
              /\ Start(c, t, batch) /\ batch # <<>>
              /\ made' = [made EXCEPT ![c] = @ + Len(batch)]
              /\ made[c] + Len(batch) <= MaxMessages
              /\ \A k \in 1 .. Len(batch) : batch[k].id = <<c, made[c] + k>>
<1>1. ks \in Seq(Keys) /\ ks # <<>>  BY ProducersAssumption
<1>2. made[c] \in Nat  BY ProducersAssumption DEF SendTypes
<1>3. made[c] + Len(ks) <= MaxMessages  BY DEF SendBatch
<1>. DEFINE b == [i \in DOMAIN ks |-> [id |-> <<c, made[c] + i>>, key |-> ks[i]]]
<1>4. /\ b \in Seq(Msg) /\ Len(b) = Len(ks) /\ b # <<>>
      /\ \A k \in 1 .. Len(b) : b[k].id = <<c, made[c] + k>>
  BY <1>1, <1>2, <1>3, MadeBatch
<1>5. Start(c, t, b) /\ made' = [made EXCEPT ![c] = @ + Len(ks)]  BY DEF SendBatch
<1>. HIDE DEF b
<1>. QED  BY <1>3, <1>4, <1>5

\* A retry starts with the batch of the call that failed.
LEMMA RetryDoes ==
    ASSUME SendTypes, NEW c \in Clients, Retry(c)
    PROVE  /\ sending[c] \in Sending
           /\ Start(c, sending[c].topic, sending[c].batch)
<1>1. sending[c] \in Sending  BY CallFields DEF Retry
<1>. QED  BY <1>1 DEF Retry

\* The steps of a call that send and divide nothing.
LEMMA MoveDoes ==
    ASSUME SendTypes, NEW c \in Clients,
           \/ Refresh(c) \/ RefreshFails(c)
           \/ StickyCount(c) \/ StickyLoad(c) \/ StickyStore(c)
    PROVE  /\ sending[c] \in Sending
           /\ \E q \in Sending : Moves(sending[c], q) /\ Turns(sending, sending', c, q)
<1>1. sending[c].at \in Early
  BY DEF Refresh, RefreshFails, StickyCount, StickyLoad, StickyStore, Chooses, Early
<1>2. sending[c] \in Sending  BY <1>1, CallFields DEF Early
<1>. DEFINE o == sending[c]
<1>3. ASSUME NEW a \in Early \cup {"failed"}, a # "metadata", NEW n \in Nat,
             sending' = [sending EXCEPT ![c] = [o EXCEPT !.at = a, !.seen = n]]
      PROVE  \E q \in Sending : Moves(o, q) /\ Turns(sending, sending', c, q)
  <2>. DEFINE q == [o EXCEPT !.at = a, !.seen = n]
  <2>1. q \in Sending  BY <1>2, <1>3 DEF Sending, Early
  <2>2. Moves(o, q)  BY <1>1, <1>2, <1>3 DEF Sending, Moves
  <2>. QED  BY <1>3, <2>1, <2>2 DEF Turns
<1>4. current \in Nat /\ o.seen \in Nat /\ c \in DOMAIN sending  BY <1>2 DEF SendTypes, Sending
<1>5. CASE Refresh(c)
  <2>1. sending' = [sending EXCEPT ![c] = [o EXCEPT !.at = "partition", !.seen = o.seen]]
    BY <1>2, <1>4, <1>5 DEF Refresh, Sending
  <2>. QED  BY <1>2, <1>3, <1>4, <2>1 DEF Early
<1>6. CASE RefreshFails(c)
  <2>1. sending' = [sending EXCEPT ![c] = [o EXCEPT !.at = "failed", !.seen = o.seen]]
    BY <1>2, <1>4, <1>6 DEF RefreshFails, Sending
  <2>. QED  BY <1>2, <1>3, <1>4, <2>1 DEF Early
<1>7. CASE StickyCount(c)
  <2>. DEFINE a == IF counter > 0 /\ counter % BatchSize = 0 THEN "load" ELSE "read"
  <2>1. sending' = [sending EXCEPT ![c] = [o EXCEPT !.at = a, !.seen = o.seen]]
    BY <1>2, <1>4, <1>7 DEF StickyCount, Sending
  <2>2. a \in Early /\ a # "metadata"  BY DEF Early
  <2>. HIDE DEF a
  <2>. QED  BY <1>2, <1>3, <1>4, <2>1, <2>2
<1>8. CASE StickyLoad(c)
  <2>1. sending' = [sending EXCEPT ![c] = [o EXCEPT !.at = "store", !.seen = current]]
    BY <1>2, <1>4, <1>8 DEF StickyLoad, Sending
  <2>. QED  BY <1>2, <1>3, <1>4, <2>1 DEF Early
<1>9. CASE StickyStore(c)
  <2>1. sending' = [sending EXCEPT ![c] = [o EXCEPT !.at = "read", !.seen = o.seen]]
    BY <1>2, <1>4, <1>9 DEF StickyStore, Sending
  <2>. QED  BY <1>2, <1>3, <1>4, <2>1 DEF Early
<1>. QED  BY <1>5, <1>6, <1>7, <1>8, <1>9

\* A fresh call, and one that has moved, are well numbered.
LEMMA FreshDivides ==
    ASSUME NEW o \in Sending, NEW c, NEW n \in Nat, NEW t, NEW batch \in Seq(Msg), Fresh(o, t, batch),
           batch # <<>>, Len(batch) <= n,
           \A k \in 1 .. Len(batch) : batch[k].id = <<c, n - Len(batch) + k>>
    PROVE  Divides(o, c, n)
<1>1. Len(batch) \in Nat  OBVIOUS
<1>2. \A k \in 1 .. Len(batch) : Len(batch) - Len(batch) + k = k  BY <1>1
<1>. QED  BY <1>1, <1>2 DEF Fresh, Divides

\* ... one that divides nothing keeps its numbers, ...
LEMMA MoveDivides ==
    ASSUME NEW o, NEW q, NEW c, NEW n, Divides(o, c, n), Moves(o, q)
    PROVE  Divides(q, c, n)
BY DEF Divides, Moves, Early

\* ... and so does one that divides a message.
LEMMA ChosenDivides ==
    ASSUME NEW o \in Sending, o.todo # <<>>, NEW i \in Nat, NEW q, Chosen(o, q, i),
           NEW c, NEW n, Divides(o, c, n)
    PROVE  Divides(q, c, n)
<1>1. /\ q.batch = o.batch /\ q.todo = Tail(o.todo)
      /\ q.at = IF Len(o.todo) = 1 THEN "send" ELSE "partition"
  BY ChosenType
<1>2. o.todo \in Seq(Msg) /\ o.batch \in Seq(Msg) /\ Len(o.todo) \in Nat /\ Len(o.batch) \in Nat
  BY DEF Sending
<1>3. /\ Len(q.todo) = Len(o.todo) - 1
      /\ \A k \in 1 .. Len(q.todo) : q.todo[k] = o.todo[k + 1]
      /\ q.todo \in Seq(Msg)
  BY <1>1, <1>2, HeadTailProperties
<1>4. ASSUME NEW k \in 1 .. Len(q.todo)
      PROVE  q.todo[k] = q.batch[Len(q.batch) - Len(q.todo) + k]
  <2>1. k + 1 \in 1 .. Len(o.todo)  BY <1>2, <1>3
  <2>2. o.todo[k + 1] = o.batch[Len(o.batch) - Len(o.todo) + (k + 1)]  BY <2>1 DEF Divides
  <2>3. Len(o.batch) - Len(o.todo) + (k + 1) = Len(q.batch) - Len(q.todo) + k
    <3>1. k \in Nat /\ Len(q.batch) = Len(o.batch)  BY <1>1, <1>2, <1>3
    <3>2. \A a, b, x \in Nat : b - a + (x + 1) = b - (a - 1) + x  OBVIOUS
    <3>3. Len(o.batch) - Len(o.todo) + (k + 1) = Len(o.batch) - (Len(o.todo) - 1) + k
      BY ONLY <1>2, <3>1, <3>2
    <3>. QED  BY ONLY <1>3, <3>1, <3>3
  <2>. QED  BY <1>1, <1>3, <2>2, <2>3
<1>5. q.at = "send" => q.todo = <<>>
  <2>1. Len(o.todo) = 1 => Len(q.todo) = 0  BY <1>3
  <2>. QED  BY <1>1, <1>3, <2>1, EmptySeq
<1>6. q.at = "partition" => q.todo # <<>>
  <2>1. Len(o.todo) # 0  BY <1>2, EmptySeq
  <2>2. Len(o.todo) # 1 => Len(q.todo) # 0  BY <1>2, <1>3, <2>1
  <2>. QED  BY <1>1, <2>2, EmptySeq
<1>7. Len(q.todo) <= Len(q.batch)  BY <1>1, <1>2, <1>3 DEF Divides
<1>. QED  BY <1>1, <1>4, <1>5, <1>6, <1>7 DEF Divides

\* A call that is not over has a message to divide.
LEMMA CallNumbers ==
    ASSUME SendInv, NEW c \in Clients, sending[c].at # "idle"
    PROVE  /\ sending[c] \in Sending /\ Divides(sending[c], c, made[c])
           /\ sending[c].at \in Early => sending[c].todo # <<>> /\ Head(sending[c].todo) \in Msg
<1>1. sending[c] \in Sending  BY CallFields DEF SendInv
<1>2. Divides(sending[c], c, made[c])  BY DEF SendInv, Numbers, NoSend
<1>3. sending[c].at \in Early => sending[c].todo # <<>>  BY <1>2 DEF Divides, Early
<1>4. sending[c].todo \in Seq(Msg)  BY <1>1 DEF Sending
<1>. QED  BY <1>1, <1>2, <1>3, <1>4, HeadTailProperties

\* The steps that choose a partition, and which one.
LEMMA ChoiceDoes ==
    ASSUME SendInv, NEW c \in Clients,
           PartitionNone(c) \/ PartitionRound(c) \/ PartitionKey(c) \/ StickyRead(c)
    PROVE  /\ sending[c] \in Sending /\ sending[c].at \in {"partition", "read"}
           /\ sending[c].todo # <<>>
           /\ \E i \in Places :
                 /\ Choose(c, i)
                 /\ mode = "key_hash" /\ CountOf[sending[c].topic] > 0 =>
                       i = PlaceOf(sending[c].topic, Head(sending[c].todo).key)
<1>1. sending[c].at \in {"partition", "read"}
  BY DEF PartitionNone, PartitionRound, PartitionKey, StickyRead, Chooses
<1>2. /\ sending[c] \in Sending /\ sending[c].todo # <<>>
      /\ Head(sending[c].todo) \in Msg /\ Head(sending[c].todo).key \in Keys
  BY <1>1, CallNumbers DEF Early, Msg
<1>3. sending[c].topic \in Topics  BY <1>2 DEF Sending
<1>4. CASE PartitionNone(c)
  BY <1>1, <1>2, <1>4, PlacesAre DEF PartitionNone
<1>5. CASE PartitionRound(c)
  <2>1. counter \in Nat  BY ProducersAssumption DEF SendInv, SendTypes
  <2>2. CountOf[sending[c].topic] > 0 /\ mode = "round_robin"  BY <1>5 DEF PartitionRound, Chooses
  <2>3. counter % CountOf[sending[c].topic] \in Places  BY <1>3, <2>1, <2>2, PlaceIs
  <2>. QED  BY <1>1, <1>2, <1>5, <2>2, <2>3 DEF PartitionRound
<1>6. CASE PartitionKey(c)
  <2>. DEFINE key == Head(sending[c].todo).key
              i == PlaceOf(sending[c].topic, key)
  <2>1. CountOf[sending[c].topic] > 0  BY <1>6 DEF PartitionKey, Chooses
  <2>2. key # NoKey => HashOf[key] \in Nat  BY <1>2, ProducersAssumption
  <2>3. i \in Places  BY <1>3, <2>1, <2>2, PlaceIs, PlacesAre DEF PlaceOf
  <2>4. Choose(c, i)  BY <1>6 DEF PartitionKey, PlaceOf
  <2>. HIDE DEF i
  <2>5. \E h \in Places : Choose(c, h) /\ h = i  BY <2>3, <2>4
  <2>. QED  BY <1>1, <1>2, <2>5 DEF i
<1>7. CASE StickyRead(c)
  <2>1. current \in Places /\ mode = "sticky"  BY <1>7 DEF SendInv, Sticks, StickyRead
  <2>. QED  BY <1>1, <1>2, <1>7, <2>1 DEF StickyRead
<1>. QED  BY <1>4, <1>5, <1>6, <1>7

\* The call without the batch of partition i.
Rests(o, q, i) ==
    /\ q.at = "send" /\ q.topic = o.topic /\ q.batch = o.batch /\ q.todo = o.todo
    /\ q.batches = [j \in DOMAIN o.batches \ {i} |-> o.batches[j]]

\* A first part of a batch.
Part(s, full) ==
    /\ s \in Seq(Msg) /\ Len(s) <= Len(full)
    /\ \A k \in 1 .. Len(s) : s[k] = full[k]

\* The call without that batch is a call.
LEMMA RestsType ==
    ASSUME NEW o \in Sending, o.at = "send", NEW i,
           NEW q, q = [o EXCEPT !.batches = [j \in DOMAIN o.batches \ {i} |-> o.batches[j]]]
    PROVE  q \in Sending /\ Rests(o, q, i)
<1>. DEFINE f == [j \in DOMAIN o.batches \ {i} |-> o.batches[j]]
            S == DOMAIN o.batches \ {i}
<1>1. o.batches \in Maps  BY DEF Sending
<1>2. S \in SUBSET Nat /\ \A j \in S : o.batches[j] \in Seq(Msg)  BY <1>1, MapsAre
<1>3. f \in [S -> Seq(Msg)]  BY <1>2
<1>. HIDE DEF S
<1>4. f \in Maps  BY <1>2, <1>3 DEF Maps
<1>. HIDE DEF f
<1>5. q = [o EXCEPT !.batches = f]  BY DEF f
<1>6. q \in Sending  BY <1>4, <1>5 DEF Sending
<1>7. q.at = "send" /\ q.topic = o.topic /\ q.batch = o.batch /\ q.todo = o.todo /\ q.batches = f
  BY <1>5 DEF Sending
<1>. QED  BY <1>6, <1>7 DEF Rests, f

\* The call that sends the batch of i, and where it goes.
LEMMA SendsTo ==
    ASSUME SendTypes, NEW c \in Clients, NEW i \in Places, Sends(c, i)
    PROVE  /\ sending[c] \in Sending /\ sending[c].at = "send" /\ i \in DOMAIN sending[c].batches
           /\ sending[c].topic \in Topics /\ sending[c].batches[i] \in Seq(Msg)
           /\ Accepts(sending[c].topic, i) =>
                 /\ i \in DOMAIN log[sending[c].topic]
                 /\ log[sending[c].topic][i] \in Seq(Msg)
<1>1. sending[c].at = "send" /\ i \in DOMAIN sending[c].batches  BY DEF Sends
<1>2. sending[c] \in Sending  BY <1>1, CallFields
<1>3. sending[c].topic \in Topics /\ sending[c].batches \in Maps  BY <1>2 DEF Sending
<1>4. sending[c].batches[i] \in Seq(Msg)  BY <1>1, <1>3, MapsAre
<1>5. ASSUME Accepts(sending[c].topic, i)
      PROVE  i \in DOMAIN log[sending[c].topic] /\ log[sending[c].topic][i] \in Seq(Msg)
  <2>1. i \in Nat /\ CountOf[sending[c].topic] \in Nat  BY <1>3, PlacesAre
  <2>2. i \in 0 .. CountOf[sending[c].topic] - 1  BY <1>5, <2>1 DEF Accepts
  <2>. QED  BY <1>3, <2>2 DEF SendTypes
<1>. QED  BY <1>1, <1>2, <1>3, <1>4, <1>5

\* A batch is appended, and the call ends or goes on without it.
LEMMA SendDoes ==
    ASSUME SendTypes, NEW c \in Clients, NEW i \in Places, Send(c, i)
    PROVE  /\ i \in DOMAIN log[sending[c].topic]
           /\ Grown(log, log', sending[c].topic, i, sending[c].batches[i])
           /\ \/ /\ DOMAIN sending[c].batches = {i}
                 /\ Turns(sending, sending', c, NoSend)
                 /\ acked' = acked \cup {sending[c].batch[k].id : k \in DOMAIN sending[c].batch}
              \/ /\ acked' = acked
                 /\ \E q \in Sending : Rests(sending[c], q, i) /\ Turns(sending, sending', c, q)
<1>. DEFINE o == sending[c]
<1>1. Sends(c, i) /\ Accepts(o.topic, i)  BY DEF Send
<1>2. /\ o \in Sending /\ o.at = "send" /\ i \in DOMAIN o.batches /\ o.topic \in Topics
      /\ i \in DOMAIN log[o.topic]
  BY <1>1, SendsTo
<1>3. log' = [log EXCEPT ![o.topic][i] = @ \o o.batches[i]]  BY DEF Send
<1>4. Grown(log, log', o.topic, i, o.batches[i])
  BY <1>2, <1>3, GrownLog DEF SendTypes
<1>5. CASE DOMAIN o.batches \ {i} = {}
  <2>1. DOMAIN o.batches = {i}  BY <1>2, <1>5
  <2>2. Turns(sending, sending', c, NoSend)  BY <1>5 DEF Send, Turns
  <2>3. acked' = acked \cup {o.batch[k].id : k \in DOMAIN o.batch}  BY <1>5 DEF Send
  <2>. QED  BY <1>2, <1>4, <2>1, <2>2, <2>3
<1>6. CASE DOMAIN o.batches \ {i} # {}
  <2>. DEFINE q == [o EXCEPT !.batches = [j \in DOMAIN o.batches \ {i} |-> o.batches[j]]]
  <2>1. sending' = [sending EXCEPT ![c] = q]  BY <1>2, <1>6 DEF Send, SendTypes, Sending
  <2>2. q \in Sending /\ Rests(o, q, i)  BY <1>2, RestsType
  <2>3. acked' = acked  BY <1>6 DEF Send
  <2>. HIDE DEF q
  <2>. QED  BY <1>2, <1>4, <2>1, <2>2, <2>3 DEF Turns
<1>. QED  BY <1>5, <1>6

\* A part of a batch is appended, or nothing, and the call fails.
LEMMA SendFailsDoes ==
    ASSUME SendTypes, NEW c \in Clients, NEW i \in Places, NEW n \in Nat,
           SendFails(c, i, n)
    PROVE  /\ \E q \in Sending :
                 /\ q.at = "failed" /\ q.topic = sending[c].topic /\ q.batch = sending[c].batch
                 /\ q.todo = sending[c].todo
                 /\ Turns(sending, sending', c, q)
           /\ \/ log' = log
              \/ /\ i \in DOMAIN log[sending[c].topic]
                 /\ \E s : /\ Part(s, sending[c].batches[i])
                           /\ Grown(log, log', sending[c].topic, i, s)
<1>. DEFINE o == sending[c]
<1>1. Sends(c, i)  BY DEF SendFails
<1>2. /\ o \in Sending /\ o.at = "send" /\ i \in DOMAIN o.batches /\ o.topic \in Topics
      /\ o.batches[i] \in Seq(Msg)
  BY <1>1, SendsTo
<1>3. \E q \in Sending :
          /\ q.at = "failed" /\ q.topic = o.topic /\ q.batch = o.batch /\ q.todo = o.todo
          /\ Turns(sending, sending', c, q)
  <2>. DEFINE q == [o EXCEPT !.at = "failed"]
  <2>1. /\ q \in Sending /\ q.at = "failed" /\ q.topic = o.topic /\ q.batch = o.batch
        /\ q.todo = o.todo
    BY <1>2 DEF Sending
  <2>2. Turns(sending, sending', c, q)  BY DEF SendFails, Turns
  <2>. HIDE DEF q
  <2>. QED  BY <2>1, <2>2
<1>4. CASE n = 0
  BY <1>3, <1>4 DEF SendFails
<1>5. CASE n # 0
  <2>. DEFINE s == SubSeq(o.batches[i], 1, n)
  <2>1. Accepts(o.topic, i) /\ n \in 0 .. Len(o.batches[i])
    BY <1>5 DEF SendFails
  <2>2. i \in DOMAIN log[o.topic]  BY <1>1, <2>1, SendsTo
  <2>3. log' = [log EXCEPT ![o.topic][i] = @ \o s]  BY <1>5 DEF SendFails
  <2>4. Grown(log, log', o.topic, i, s)
    BY <1>2, <2>2, <2>3, GrownLog DEF SendTypes
  <2>5. Part(s, o.batches[i])
    <3>1. Len(o.batches[i]) \in Nat /\ n <= Len(o.batches[i])  BY <1>2, <2>1
    <3>2. \A k \in 1 .. n : o.batches[i][k] \in Msg  BY <1>2, <3>1
    <3>3. /\ s \in Seq(Msg) /\ Len(s) = IF 1 <= n THEN n - 1 + 1 ELSE 0
          /\ \A k \in 1 .. n - 1 + 1 : s[k] = o.batches[i][1 + k - 1]
      BY <3>2, SubSeqProperties
    <3>4. Len(s) = n /\ n - 1 + 1 = n  BY <1>5, <3>3
    <3>5. \A k \in 1 .. n : 1 + k - 1 = k  OBVIOUS
    <3>. HIDE DEF s
    <3>. QED  BY <3>1, <3>3, <3>4, <3>5 DEF Part
  <2>. HIDE DEF s
  <2>. QED  BY <1>3, <2>2, <2>4, <2>5
<1>. QED  BY <1>4, <1>5

-----------------------------------------------------------------------------
(* Types and numbers: the invariant SendInv.                               *)

\* The parts of SendTypes that a step may change apart from the others.
CallsTyped ==
    /\ DOMAIN sending = Clients
    /\ \A c \in Clients : sending[c] = NoSend \/ sending[c] \in Sending

\* ... the log, ...
LogTyped ==
    /\ DOMAIN log = Topics
    /\ \A t \in Topics :
          /\ DOMAIN log[t] = 0 .. CountOf[t] - 1
          /\ \A i \in DOMAIN log[t] : log[t][i] \in Seq(Msg)

\* ... the counters, ...
CountsTyped ==
    /\ counter \in 0 .. Modulus - 1 /\ current \in Nat /\ wraps \in Nat

\* ... and what is made, tried, acknowledged and given.
NotedTyped ==
    /\ made \in [Clients -> 0 .. MaxMessages]
    /\ tries \in [Ids -> Nat]
    /\ acked \subseteq Ids
    /\ given \in [Topics -> [Places -> Nat]]

\* They are all of SendTypes.
LEMMA SendTypesIs ==
    SendTypes <=> mode \in Modes /\ CountsTyped /\ LogTyped /\ CallsTyped /\ NotedTyped
BY DEF SendTypes, CountsTyped, LogTyped, CallsTyped, NotedTyped

\* The log keeps its type when messages are appended.
LEMMA GrownTyped ==
    ASSUME LogTyped, NEW t \in Topics, NEW i \in DOMAIN log[t], NEW s \in Seq(Msg),
           Grown(log, log', t, i, s)
    PROVE  LogTyped'
<1>1. DOMAIN log' = Topics /\ \A u \in Topics : DOMAIN log'[u] = 0 .. CountOf[u] - 1
  BY DEF LogTyped, Grown
<1>2. \A u \in Topics : \A j \in DOMAIN log[u] :
          log'[u][j] = IF u = t /\ j = i THEN log[u][j] \o s ELSE log[u][j]
  BY DEF LogTyped, Grown
<1>3. \A u \in Topics : \A j \in DOMAIN log[u] : log[u][j] \in Seq(Msg)
  BY DEF LogTyped
<1>4. \A u \in Topics : \A j \in DOMAIN log[u] : log[u][j] \o s \in Seq(Msg)
  BY <1>3, ConcatProperties
<1>5. \A u \in Topics : \A j \in DOMAIN log'[u] : log'[u][j] \in Seq(Msg)
  BY <1>1, <1>2, <1>3, <1>4 DEF LogTyped
<1>. QED  BY <1>1, <1>5 DEF LogTyped

\* The call of c turns into q.
LEMMA TurnsTyped ==
    ASSUME CallsTyped, NEW c \in Clients, NEW q, Turns(sending, sending', c, q),
           q = NoSend \/ q \in Sending
    PROVE  /\ CallsTyped'
           /\ sending'[c] = q
           /\ \A d \in Clients : d # c => sending'[d] = sending[d]
BY DEF CallsTyped, Turns

\* The numbers of the other calls stay.
LEMMA TurnsNumbers ==
    ASSUME CallsTyped, Numbers, NEW c \in Clients, NEW q, Turns(sending, sending', c, q),
           q = NoSend \/ q \in Sending,
           \A d \in Clients : d # c => made'[d] = made[d],
           q # NoSend => Divides(q, c, made'[c])
    PROVE  Numbers'
<1>1. sending'[c] = q /\ \A d \in Clients : d # c => sending'[d] = sending[d]
  BY TurnsTyped
<1>2. ASSUME NEW d \in Clients, sending'[d] # NoSend PROVE Divides(sending'[d], d, made'[d])
  <2>1. CASE d = c  BY <1>1, <1>2, <2>1
  <2>2. CASE d # c
    <3>1. sending'[d] = sending[d] /\ made'[d] = made[d]  BY <1>1, <2>2
    <3>. QED  BY <1>2, <3>1 DEF Numbers
  <2>. QED  BY <2>1, <2>2
<1>. QED  BY <1>2 DEF Numbers

\* So does what the sticky partitioner needs of them.
LEMMA TurnsSticks ==
    ASSUME CallsTyped, Sticks, NEW c \in Clients, NEW q, Turns(sending, sending', c, q),
           q = NoSend \/ q \in Sending, mode' = mode, current' \in Places,
           q.at \in {"load", "store", "read"} => mode = "sticky" /\ CountOf[q.topic] > 0
    PROVE  Sticks'
<1>1. sending'[c] = q /\ \A d \in Clients : d # c => sending'[d] = sending[d]
  BY TurnsTyped
<1>. QED  BY <1>1 DEF Sticks

\* Fewer batches are left; the numbers are the same.
LEMMA RestsDivides ==
    ASSUME NEW o, NEW q, NEW i, NEW c, NEW n, Divides(o, c, n), o.at = "send", Rests(o, q, i)
    PROVE  Divides(q, c, n)
BY DEF Divides, Rests

\* A failed call keeps its numbers.
LEMMA FailedDivides ==
    ASSUME NEW o, NEW q, NEW c, NEW n, Divides(o, c, n),
           q.at = "failed", q.batch = o.batch, q.todo = o.todo
    PROVE  Divides(q, c, n)
BY DEF Divides

\* At first.
LEMMA SendInit == ASSUME ProducersInit PROVE SendInv
<1>1. 0 \in Places /\ Modulus \in Nat \ {0} /\ MaxMessages \in Nat
  BY PlacesAre, ProducersAssumption
<1>2. CountsTyped /\ mode \in Modes  BY <1>1 DEF ProducersInit, CountsTyped
<1>3. LogTyped
  <2>1. \A t \in Topics : log[t] = [i \in 0 .. CountOf[t] - 1 |-> <<>>]  BY DEF ProducersInit
  <2>. QED  BY <2>1 DEF ProducersInit, LogTyped
<1>4. CallsTyped  BY DEF ProducersInit, CallsTyped
<1>5. NotedTyped  BY <1>1 DEF ProducersInit, NotedTyped
<1>6. Sticks  BY <1>1 DEF ProducersInit, Sticks, NoSend
<1>7. Numbers  BY DEF ProducersInit, Numbers
<1>. QED  BY <1>2, <1>3, <1>4, <1>5, <1>6, <1>7, SendTypesIs DEF SendInv

\* The counter counts modulo its size.
LEMMA CountTyped ==
    ASSUME CountsTyped, Count
    PROVE  counter' \in 0 .. Modulus - 1 /\ wraps' \in Nat
<1>1. Modulus \in Nat /\ Modulus > 0 /\ counter \in Nat /\ wraps \in Nat
  BY ProducersAssumption DEF CountsTyped
<1>2. (counter + 1) % Modulus \in 0 .. Modulus - 1  BY <1>1, Remainder
<1>. QED  BY <1>1, <1>2 DEF Count

\* Every step keeps the types, the numbers and the place of the sticky partitioner.
LEMMA SendStep ==
    ASSUME SendInv, [ProducersNext]_producerVars
    PROVE  SendInv'
<1>. USE SendTypesIs
<1>1. mode \in Modes /\ CountsTyped /\ LogTyped /\ CallsTyped /\ NotedTyped /\ Sticks /\ Numbers
      /\ SendTypes
  BY DEF SendInv
<1>2. SendTypes' <=> (mode \in Modes)' /\ CountsTyped' /\ LogTyped' /\ CallsTyped' /\ NotedTyped'
  BY SendTypesIs, PTL
<1>3. ASSUME UNCHANGED <<mode, partitioner, log, sending, made, tries, acked, given>> PROVE SendInv'
  <2>1. Sticks' /\ Numbers'  BY <1>1, <1>3 DEF partitioner, Sticks, Numbers
  <2>2. CountsTyped' /\ LogTyped' /\ CallsTyped' /\ NotedTyped'
    BY <1>1, <1>3 DEF partitioner, CountsTyped, LogTyped, CallsTyped, NotedTyped
  <2>. QED  BY <1>1, <1>2, <1>3, <2>1, <2>2 DEF SendInv
<1>4. ASSUME NEW c \in Clients, NEW t \in Topics, NEW ks \in Batches, SendBatch(c, t, ks)
      PROVE  SendInv'
  <2>1. PICK batch \in Seq(Msg) :
              /\ Start(c, t, batch) /\ batch # <<>>
              /\ made' = [made EXCEPT ![c] = @ + Len(batch)]
              /\ made[c] + Len(batch) <= MaxMessages
              /\ \A k \in 1 .. Len(batch) : batch[k].id = <<c, made[c] + k>>
    BY <1>1, <1>4, SendBatchDoes
  <2>2. tries' \in [Ids -> Nat]  BY <1>1, <2>1, StartDoes
  <2>3. PICK q \in Sending : Fresh(q, t, batch) /\ Turns(sending, sending', c, q)
    BY <1>1, <2>1, StartDoes
  <2>4. /\ Len(batch) \in Nat /\ made[c] \in Nat /\ MaxMessages \in Nat
        /\ made \in [Clients -> 0 .. MaxMessages]
    BY <1>1, ProducersAssumption DEF NotedTyped
  <2>5. made'[c] = made[c] + Len(batch) /\ \A d \in Clients : d # c => made'[d] = made[d]
    BY <2>1, <2>4
  <2>6. made' \in [Clients -> 0 .. MaxMessages]
    <3>1. made[c] + Len(batch) \in 0 .. MaxMessages  BY <2>1, <2>4
    <3>. QED  BY <2>1, <2>4, <3>1
  <2>7. Divides(q, c, made'[c])
    <3>1. \A k \in 1 .. Len(batch) : made'[c] - Len(batch) + k = made[c] + k  BY <2>4, <2>5
    <3>2. \A k \in 1 .. Len(batch) : batch[k].id = <<c, made'[c] - Len(batch) + k>>  BY <2>1, <3>1
    <3>3. made'[c] \in Nat /\ Len(batch) <= made'[c]  BY <2>4, <2>5
    <3>. QED  BY <2>1, <2>3, <3>2, <3>3, FreshDivides
  <2>8. Numbers'  BY <1>1, <2>3, <2>5, <2>7, TurnsNumbers
  <2>9. UNCHANGED <<mode, partitioner, log, acked, given>>  BY <1>4 DEF SendBatch
  <2>10. Sticks'
    <3>1. q.at \notin {"load", "store", "read"}  BY <2>3 DEF Fresh
    <3>2. current' \in Places  BY <1>1, <2>9 DEF partitioner, Sticks
    <3>. QED  BY <1>1, <2>3, <2>9, <3>1, <3>2, TurnsSticks
  <2>11. CallsTyped'  BY <1>1, <2>3, TurnsTyped
  <2>12. CountsTyped' /\ LogTyped'  BY <1>1, <2>9 DEF partitioner, CountsTyped, LogTyped
  <2>13. NotedTyped'  BY <1>1, <2>2, <2>6, <2>9 DEF NotedTyped
  <2>. QED  BY <1>1, <1>2, <2>8, <2>9, <2>10, <2>11, <2>12, <2>13 DEF SendInv
<1>5. ASSUME NEW c \in Clients, Retry(c) PROVE SendInv'
  <2>. DEFINE o == sending[c]
  <2>1. o \in Sending /\ Start(c, o.topic, o.batch)  BY <1>1, <1>5, RetryDoes
  <2>2. o.topic \in Topics /\ o.batch \in Seq(Msg)  BY <2>1 DEF Sending
  <2>3. tries' \in [Ids -> Nat]  BY <1>1, <2>1, <2>2, StartDoes
  <2>4. PICK q \in Sending : Fresh(q, o.topic, o.batch) /\ Turns(sending, sending', c, q)
    BY <1>1, <2>1, <2>2, StartDoes
  <2>5. UNCHANGED <<mode, partitioner, log, made, acked, given>>  BY <1>5 DEF Retry
  <2>6. Divides(o, c, made[c])  BY <1>5, CallNumbers DEF Retry
  <2>7. Divides(q, c, made'[c])
    <3>1. made[c] \in Nat  BY <1>1, ProducersAssumption DEF NotedTyped
    <3>2. /\ o.batch # <<>> /\ Len(o.batch) <= made[c]
          /\ \A k \in 1 .. Len(o.batch) : o.batch[k].id = <<c, made[c] - Len(o.batch) + k>>
      BY <2>6 DEF Divides
    <3>. QED  BY <2>2, <2>4, <2>5, <3>1, <3>2, FreshDivides
  <2>8. Numbers'  BY <1>1, <2>4, <2>5, <2>7, TurnsNumbers
  <2>10. Sticks'
    <3>1. q.at \notin {"load", "store", "read"}  BY <2>4 DEF Fresh
    <3>2. current' \in Places  BY <1>1, <2>5 DEF partitioner, Sticks
    <3>. QED  BY <1>1, <2>4, <2>5, <3>1, <3>2, TurnsSticks
  <2>11. CallsTyped'  BY <1>1, <2>4, TurnsTyped
  <2>12. CountsTyped' /\ LogTyped'  BY <1>1, <2>5 DEF partitioner, CountsTyped, LogTyped
  <2>13. NotedTyped'  BY <1>1, <2>3, <2>5 DEF NotedTyped
  <2>. QED  BY <1>1, <1>2, <2>5, <2>8, <2>10, <2>11, <2>12, <2>13 DEF SendInv
<1>6. ASSUME NEW c \in Clients, GiveUp(c) PROVE SendInv'
  <2>1. Turns(sending, sending', c, NoSend)  BY <1>6 DEF GiveUp, Turns
  <2>2. UNCHANGED <<mode, partitioner, log, made, tries, acked, given>>  BY <1>6 DEF GiveUp
  <2>3. CallsTyped'  BY <1>1, <2>1, TurnsTyped
  <2>4. Numbers'  BY <1>1, <2>1, <2>2, TurnsNumbers
  <2>5. Sticks'
    <3>1. current' \in Places  BY <1>1, <2>2 DEF partitioner, Sticks
    <3>. QED  BY <1>1, <2>1, <2>2, <3>1, TurnsSticks DEF NoSend
  <2>6. CountsTyped' /\ LogTyped' /\ NotedTyped'
    BY <1>1, <2>2 DEF partitioner, CountsTyped, LogTyped, NotedTyped
  <2>. QED  BY <1>1, <1>2, <2>2, <2>3, <2>4, <2>5, <2>6 DEF SendInv
<1>7. ASSUME NEW c \in Clients,
             \/ Refresh(c) \/ RefreshFails(c)
             \/ StickyCount(c) \/ StickyLoad(c) \/ StickyStore(c)
      PROVE  SendInv'
  <2>. DEFINE o == sending[c]
  <2>1. o \in Sending  BY <1>1, <1>7, MoveDoes
  <2>2. PICK q \in Sending : Moves(o, q) /\ Turns(sending, sending', c, q)
    BY <1>1, <1>7, MoveDoes
  <2>3. UNCHANGED <<mode, log, made, tries, acked, given>>
    BY <1>7 DEF Refresh, RefreshFails, StickyCount, StickyLoad, StickyStore
  <2>4. CallsTyped' /\ sending'[c] = q  BY <1>1, <2>2, TurnsTyped
  <2>5. o.at # "idle" /\ o.topic \in Topics /\ q.topic = o.topic
    BY <2>1, <2>2 DEF Moves, Early, Sending
  <2>6. Numbers'
    <3>1. Divides(o, c, made[c])  BY <2>5, CallNumbers
    <3>2. Divides(q, c, made'[c])  BY <2>2, <2>3, <3>1, MoveDivides
    <3>. QED  BY <1>1, <2>2, <2>3, <3>2, TurnsNumbers
  <2>7. current' \in Places /\ CountsTyped'
        /\ (q.at \in {"load", "store", "read"} => mode = "sticky" /\ CountOf[q.topic] > 0)
    <3>1. current \in Places  BY <1>1 DEF Sticks
    <3>2. CASE Refresh(c) \/ RefreshFails(c)
      <4>1. q.at \in {"partition", "failed"}
        BY <1>1, <2>1, <2>4, <3>2 DEF Refresh, RefreshFails, SendTypes, Sending
      <4>. QED  BY <1>1, <3>1, <3>2, <4>1 DEF Refresh, RefreshFails, partitioner, CountsTyped
    <3>3. CASE StickyCount(c)
      <4>1. mode = "sticky" /\ CountOf[o.topic] > 0 /\ Count /\ current' = current
        BY <3>3 DEF StickyCount, Chooses
      <4>2. CountsTyped'  BY <1>1, <4>1, CountTyped DEF CountsTyped
      <4>. QED  BY <2>5, <3>1, <4>1, <4>2
    <3>4. CASE StickyLoad(c)
      <4>1. mode = "sticky" /\ CountOf[o.topic] > 0 /\ UNCHANGED partitioner
        BY <1>1, <3>4 DEF StickyLoad, Sticks
      <4>. QED  BY <1>1, <2>5, <3>1, <4>1 DEF partitioner, CountsTyped
    <3>5. CASE StickyStore(c)
      <4>1. mode = "sticky" /\ CountOf[o.topic] > 0 /\ UNCHANGED <<counter, wraps>>
        BY <1>1, <3>5 DEF StickyStore, Sticks
      <4>2. o.seen + 1 \in Nat  BY <2>1 DEF Sending
      <4>3. current' = (o.seen + 1) % CountOf[o.topic]  BY <3>5 DEF StickyStore
      <4>4. current' \in Places  BY <2>5, <4>1, <4>2, <4>3, PlaceIs
      <4>5. current' \in Nat  BY <4>4, PlacesAre
      <4>. QED  BY <1>1, <2>5, <4>1, <4>4, <4>5 DEF CountsTyped
    <3>. QED  BY <1>7, <3>2, <3>3, <3>4, <3>5
  <2>8. Sticks'  BY <1>1, <2>2, <2>3, <2>7, TurnsSticks
  <2>9. LogTyped' /\ NotedTyped'  BY <1>1, <2>3 DEF LogTyped, NotedTyped
  <2>. QED  BY <1>1, <1>2, <2>3, <2>4, <2>6, <2>7, <2>8, <2>9 DEF SendInv
<1>8. ASSUME NEW c \in Clients,
             PartitionNone(c) \/ PartitionRound(c) \/ PartitionKey(c) \/ StickyRead(c)
      PROVE  SendInv'
  <2>. DEFINE o == sending[c]
  <2>1. o \in Sending /\ o.at \in {"partition", "read"} /\ o.todo # <<>>
    BY <1>8, ChoiceDoes
  <2>2. PICK i \in Places : Choose(c, i)  BY <1>8, ChoiceDoes
  <2>3. i \in Nat  BY PlacesAre
  <2>4. PICK q : Chosen(o, q, i) /\ Turns(sending, sending', c, q)
    BY <1>1, <2>1, <2>2, ChooseDoes
  <2>5. q \in Sending /\ q.at \in {"send", "partition"}  BY <2>1, <2>3, <2>4, ChosenType
  <2>6. UNCHANGED <<mode, current, log, made, tries, acked>>
    BY <1>8 DEF PartitionNone, PartitionRound, PartitionKey, StickyRead, partitioner
  <2>7. Divides(q, c, made'[c])
    BY <2>1, <2>3, <2>4, <2>6, CallNumbers, ChosenDivides
  <2>8. Numbers'  BY <1>1, <2>4, <2>5, <2>6, <2>7, TurnsNumbers
  <2>9. Sticks'
    <3>1. current' \in Places  BY <1>1, <2>6 DEF Sticks
    <3>2. q.at \notin {"load", "store", "read"}  BY <2>5
    <3>. QED  BY <1>1, <2>4, <2>5, <2>6, <3>1, <3>2, TurnsSticks
  <2>10. CallsTyped'  BY <1>1, <2>4, <2>5, TurnsTyped
  <2>11. CountsTyped'
    <3>1. CASE UNCHANGED partitioner  BY <1>1, <3>1 DEF partitioner, CountsTyped
    <3>2. CASE Count  BY <1>1, <2>6, <3>2, CountTyped DEF CountsTyped
    <3>. QED  BY <1>8, <3>1, <3>2 DEF PartitionNone, PartitionRound, PartitionKey, StickyRead
  <2>12. given' \in [Topics -> [Places -> Nat]]
    <3>1. o.topic \in Topics  BY <2>1 DEF Sending
    <3>2. given' = [given EXCEPT ![o.topic][i] = @ + 1]  BY <2>2 DEF Choose
    <3>. QED  BY <1>1, <3>1, <3>2 DEF NotedTyped
  <2>13. LogTyped' /\ NotedTyped'  BY <1>1, <2>6, <2>12 DEF LogTyped, NotedTyped
  <2>. QED  BY <1>1, <1>2, <2>6, <2>8, <2>9, <2>10, <2>11, <2>13 DEF SendInv
<1>9. ASSUME NEW c \in Clients, NEW i \in Places, Send(c, i) PROVE SendInv'
  <2>. DEFINE o == sending[c]
  <2>1. /\ o \in Sending /\ o.at = "send" /\ o.topic \in Topics /\ o.batches[i] \in Seq(Msg)
        /\ i \in DOMAIN log[o.topic] /\ Grown(log, log', o.topic, i, o.batches[i])
    BY <1>1, <1>9, SendsTo, SendDoes DEF Send
  <2>2. LogTyped'  BY <1>1, <2>1, GrownTyped
  <2>3. UNCHANGED <<mode, partitioner, made, tries, given>>  BY <1>9 DEF Send
  <2>4. current' \in Places  BY <1>1, <2>3 DEF partitioner, Sticks
  <2>5. Divides(o, c, made[c])  BY <2>1, CallNumbers
  <2>6. CallsTyped' /\ Numbers' /\ Sticks' /\ acked' \subseteq Ids
    <3>1. CASE /\ Turns(sending, sending', c, NoSend)
               /\ acked' = acked \cup {o.batch[k].id : k \in DOMAIN o.batch}
      <4>1. CallsTyped'  BY <1>1, <3>1, TurnsTyped
      <4>2. Numbers'  BY <1>1, <2>3, <3>1, TurnsNumbers
      <4>3. Sticks'  BY <1>1, <2>3, <2>4, <3>1, TurnsSticks DEF NoSend
      <4>4. \A k \in DOMAIN o.batch : o.batch[k].id \in Ids
        <5>1. o.batch \in Seq(Msg)  BY <2>1 DEF Sending
        <5>2. \A k \in DOMAIN o.batch : o.batch[k] \in Msg  BY <5>1
        <5>. QED  BY <5>2 DEF Msg
      <4>. QED  BY <1>1, <3>1, <4>1, <4>2, <4>3, <4>4 DEF NotedTyped
    <3>2. CASE /\ acked' = acked
               /\ \E q \in Sending : Rests(o, q, i) /\ Turns(sending, sending', c, q)
      <4>1. PICK q \in Sending : Rests(o, q, i) /\ Turns(sending, sending', c, q)  BY <3>2
      <4>2. CallsTyped'  BY <1>1, <4>1, TurnsTyped
      <4>3. Divides(q, c, made'[c])  BY <2>1, <2>3, <2>5, <4>1, RestsDivides
      <4>4. Numbers'  BY <1>1, <2>3, <4>1, <4>3, TurnsNumbers
      <4>5. Sticks'
        <5>1. q.at = "send"  BY <4>1 DEF Rests
        <5>. QED  BY <1>1, <2>3, <2>4, <4>1, <5>1, TurnsSticks
      <4>. QED  BY <1>1, <3>2, <4>2, <4>4, <4>5 DEF NotedTyped
    <3>. QED  BY <1>1, <1>9, <3>1, <3>2, SendDoes
  <2>7. CountsTyped' /\ NotedTyped'
    BY <1>1, <2>3, <2>6 DEF partitioner, CountsTyped, NotedTyped
  <2>. QED  BY <1>1, <1>2, <2>2, <2>3, <2>6, <2>7 DEF SendInv
<1>10. ASSUME NEW c \in Clients, NEW i \in Places, NEW n \in 0 .. MaxMessages, SendFails(c, i, n)
       PROVE  SendInv'
  <2>. DEFINE o == sending[c]
  <2>1. o \in Sending /\ o.at = "send" /\ o.topic \in Topics
    BY <1>1, <1>10, SendsTo DEF SendFails
  <2>2. n \in Nat  BY ProducersAssumption
  <2>3. PICK q \in Sending :
              /\ q.at = "failed" /\ q.topic = o.topic /\ q.batch = o.batch /\ q.todo = o.todo
              /\ Turns(sending, sending', c, q)
    BY <1>1, <1>10, <2>2, SendFailsDoes
  <2>4. LogTyped'
    <3>1. CASE log' = log  BY <1>1, <3>1 DEF LogTyped
    <3>2. CASE /\ i \in DOMAIN log[o.topic]
               /\ \E s : Part(s, o.batches[i]) /\ Grown(log, log', o.topic, i, s)
      <4>1. PICK s : Part(s, o.batches[i]) /\ Grown(log, log', o.topic, i, s)  BY <3>2
      <4>2. s \in Seq(Msg)  BY <4>1 DEF Part
      <4>. QED  BY <1>1, <2>1, <3>2, <4>1, <4>2, GrownTyped
    <3>. QED  BY <1>1, <1>10, <2>2, <3>1, <3>2, SendFailsDoes
  <2>5. UNCHANGED <<mode, partitioner, made, tries, acked, given>>  BY <1>10 DEF SendFails
  <2>6. current' \in Places  BY <1>1, <2>5 DEF partitioner, Sticks
  <2>7. Divides(o, c, made[c])  BY <2>1, CallNumbers
  <2>8. Divides(q, c, made'[c])  BY <2>3, <2>5, <2>7, FailedDivides
  <2>9. CallsTyped'  BY <1>1, <2>3, TurnsTyped
  <2>10. Numbers'  BY <1>1, <2>3, <2>5, <2>8, TurnsNumbers
  <2>11. Sticks'  BY <1>1, <2>3, <2>5, <2>6, TurnsSticks
  <2>12. CountsTyped' /\ NotedTyped'  BY <1>1, <2>5 DEF partitioner, CountsTyped, NotedTyped
  <2>. QED  BY <1>1, <1>2, <2>4, <2>5, <2>9, <2>10, <2>11, <2>12 DEF SendInv
<1>11. ASSUME NEW c \in Clients, GetMetadata(c) \/ \E t \in Topics : CreateTopic(c, t)
       PROVE  SendInv'
  BY <1>3, <1>11 DEF GetMetadata, CreateTopic
<1>12. CASE UNCHANGED producerVars  BY <1>3, <1>12 DEF producerVars
<1>13. CASE ProducersNext
  BY <1>4, <1>5, <1>6, <1>7, <1>8, <1>9, <1>10, <1>11, <1>13 DEF ProducersNext
<1>. QED  BY <1>12, <1>13 DEF producerVars

-----------------------------------------------------------------------------
(* The partitioners share the messages out evenly.                         *)

\* Division with remainder.
LEMMA QuotientIs ==
    ASSUME NEW x \in Nat, NEW n \in Nat, n > 0
    PROVE  x \div n \in Nat /\ x = n * (x \div n) + (x % n) /\ x % n \in 0 .. n - 1
OBVIOUS

\* A number is made of its quotient and remainder in one way.
LEMMA RemainderIs ==
    ASSUME NEW d \in Nat, NEW n \in Nat, n > 0, NEW r \in 0 .. n - 1
    PROVE  (n * d + r) % n = r
OBVIOUS

\* The partition after partition x % n in the round.
LEMMA NextInRound ==
    ASSUME NEW x \in Nat, NEW n \in Nat, n > 0
    PROVE  (x + 1) % n = IF (x % n) + 1 = n THEN 0 ELSE (x % n) + 1
<1>1. PICK d \in Nat : d = x \div n  BY QuotientIs
<1>2. PICK r \in 0 .. n - 1 : r = x % n  BY QuotientIs
<1>3. x = n * d + r  BY <1>1, <1>2, QuotientIs
<1>4. n * d \in Nat  OBVIOUS
<1>5. CASE r + 1 = n
  <2>1. x + 1 = n * d + n  BY <1>3, <1>4, <1>5
  <2>2. n * (d + 1) = n * d + n  OBVIOUS
  <2>3. d + 1 \in Nat /\ 0 \in 0 .. n - 1  OBVIOUS
  <2>4. (n * (d + 1) + 0) % n = 0  BY ONLY <2>3, RemainderIs, n \in Nat, n > 0
  <2>5. x + 1 = n * (d + 1) + 0  BY ONLY <2>1, <2>2, <1>4, n \in Nat
  <2>6. (x + 1) % n = 0  BY ONLY <2>4, <2>5
  <2>. QED  BY <1>2, <1>5, <2>6
<1>6. CASE r + 1 # n
  <2>1. r + 1 \in 0 .. n - 1  BY <1>6
  <2>2. x + 1 = n * d + (r + 1)  BY <1>3, <1>4
  <2>3. (n * d + (r + 1)) % n = r + 1  BY <2>1, RemainderIs
  <2>. QED  BY <1>2, <1>6, <2>2, <2>3
<1>. QED  BY <1>5, <1>6

\* 1 for the partitions before r in the round.
LEMMA BeforeIs == \A i, r : Before(i, r) \in {0, 1}
BY DEF Before

\* The first n partitions have the messages g: even, but for w, and for those
\* that the round has not come to.
RoundOK(g, n, r, w) ==
    \A i, j \in 0 .. n - 1 : g[i] + Before(j, r) <= g[j] + w + Before(i, r)

\* Partition r has one more.
OneMore(g, h, n, r) ==
    \A i \in 0 .. n - 1 : g[i] \in Nat /\ h[i] = IF i = r THEN g[i] + 1 ELSE g[i]

\* One message more in the round.
LEMMA RoundEven ==
    ASSUME NEW n \in Nat, n > 0, NEW r \in 0 .. n - 1, NEW w \in Nat, NEW v \in Nat,
           NEW g, NEW h, NEW s,
           OneMore(g, h, n, r), RoundOK(g, n, r, w),
           \/ s = 0 /\ v = w + 1
           \/ v = w /\ s = IF r + 1 = n THEN 0 ELSE r + 1
    PROVE  RoundOK(h, n, s, v)
<1>. SUFFICES ASSUME NEW i \in 0 .. n - 1, NEW j \in 0 .. n - 1
              PROVE  h[i] + Before(j, s) <= h[j] + v + Before(i, s)
  BY DEF RoundOK
<1>1. i \in Nat /\ j \in Nat /\ r \in Nat /\ g[i] \in Nat /\ g[j] \in Nat  BY DEF OneMore
<1>2. g[i] + Before(j, r) <= g[j] + w + Before(i, r)  BY DEF RoundOK
<1>3. h[i] = (IF i = r THEN g[i] + 1 ELSE g[i]) /\ h[j] = (IF j = r THEN g[j] + 1 ELSE g[j])
  BY DEF OneMore
<1>4. PICK a, b, x, y \in Nat : a = g[i] /\ b = g[j] /\ x = h[i] /\ y = h[j]
  BY <1>1, <1>3
<1>5. a + Before(j, r) <= b + w + Before(i, r)  BY <1>2, <1>4
<1>6. x = (IF i = r THEN a + 1 ELSE a) /\ y = (IF j = r THEN b + 1 ELSE b)  BY <1>3, <1>4
<1>7. i <= n - 1 /\ j <= n - 1 /\ r <= n - 1  OBVIOUS
<1>8. x + Before(j, s) <= y + v + Before(i, s)
  <2>1. CASE s = 0 /\ v = w + 1
    BY ONLY <1>1, <1>5, <1>6, <2>1, a \in Nat, b \in Nat, w \in Nat DEF Before
  <2>2. CASE v = w /\ s = IF r + 1 = n THEN 0 ELSE r + 1
    BY ONLY <1>1, <1>5, <1>6, <1>7, <2>2, a \in Nat, b \in Nat, w \in Nat, n \in Nat DEF Before
  <2>. QED  BY <2>1, <2>2
<1>. QED  BY <1>4, <1>8

\* A topic that a partitioner serves alone was so before, unless it just chose for
\* another.
LEMMA ServedSame ==
    ASSUME SendInv, NEW c \in Clients, NEW q, Turns(sending, sending', c, q),
           q = NoSend \/ q \in Sending, sending[c].at # "read", given' = given,
           NEW t \in Topics, ServesOnly(t)'
    PROVE  ServesOnly(t) /\ (q.at = "read" => q.topic = t)
<1>1. sending'[c] = q /\ \A d \in Clients : d # c => sending'[d] = sending[d]
  BY TurnsTyped, SendTypesIs DEF SendInv
<1>2. \A d \in Clients : sending'[d].at = "read" => sending'[d].topic = t  BY DEF ServesOnly
<1>3. \A d \in Clients : sending[d].at = "read" => sending[d].topic = t  BY <1>1, <1>2
<1>. QED  BY <1>1, <1>2, <1>3 DEF ServesOnly

\* A choice that leaves t the only topic served was for t.
LEMMA ServedChoice ==
    ASSUME SendInv, NEW c \in Clients, sending[c] \in Sending,
           NEW i \in Places, Choose(c, i), NEW q \in Sending, Turns(sending, sending', c, q),
           NEW t \in Topics, ServesOnly(t)'
    PROVE  /\ ServesOnly(t) /\ sending[c].topic = t
           /\ given'[t] = [given[t] EXCEPT ![i] = @ + 1]
<1>1. sending'[c] = q /\ \A d \in Clients : d # c => sending'[d] = sending[d]
  BY TurnsTyped, SendTypesIs DEF SendInv
<1>2. sending[c].topic \in Topics  BY DEF Sending
<1>3. given \in [Topics -> [Places -> Nat]]  BY DEF SendInv, SendTypes
<1>4. given' = [given EXCEPT ![sending[c].topic][i] = @ + 1]  BY DEF Choose
<1>5. given'[sending[c].topic][i] = given[sending[c].topic][i] + 1  BY <1>2, <1>3, <1>4
<1>6. given'[sending[c].topic][i] # 0  BY <1>2, <1>3, <1>5
<1>7. sending[c].topic = t  BY <1>2, <1>6 DEF ServesOnly
<1>8. \A u \in Topics \ {t} : given'[u] = given[u]  BY <1>3, <1>4, <1>7
<1>9. \A u \in Topics \ {t} : \A j \in Places : given[u][j] = 0  BY <1>8 DEF ServesOnly
<1>10. \A d \in Clients : sending[d].at = "read" => sending[d].topic = t
  BY <1>1, <1>7 DEF ServesOnly
<1>11. given'[t] = [given[t] EXCEPT ![i] = @ + 1]  BY <1>2, <1>3, <1>4, <1>7
<1>. QED  BY <1>7, <1>9, <1>10, <1>11 DEF ServesOnly

\* Evenly of one topic.
EvenlyIn(t) ==
    /\ current < CountOf[t]
    /\ \A i \in Places : i >= CountOf[t] => given[t][i] = 0
    /\ mode = "round_robin" => \A i, j \in 0 .. CountOf[t] - 1 :
          given[t][i] + Before(j, counter % CountOf[t]) <=
              given[t][j] + wraps + Before(i, counter % CountOf[t])

\* Evenly, topic by topic.
LEMMA EvenlyIs ==
    Evenly <=> \A t \in Topics : CountOf[t] > 0 /\ ServesOnly(t) => EvenlyIn(t)
BY DEF Evenly, EvenlyIn

\* ... also of the next state.
LEMMA EvenlyNext ==
    Evenly' <=> \A t \in Topics : CountOf[t] > 0 /\ ServesOnly(t)' => EvenlyIn(t)'
<1>1. Evenly' <=> (\A t \in Topics : CountOf[t] > 0 /\ ServesOnly(t) => EvenlyIn(t))'
  BY EvenlyIs, PTL
<1>. QED  BY <1>1

\* At first nothing was given.
LEMMA EvenlyInit == ASSUME ProducersInit PROVE Evenly
<1>1. ASSUME NEW t \in Topics, CountOf[t] > 0 PROVE EvenlyIn(t)
  <2>1. CountOf[t] \in Nat  BY PlacesAre
  <2>2. 0 % CountOf[t] = 0  BY <1>1, <2>1
  <2>3. \A i \in 0 .. CountOf[t] - 1 : Before(i, 0) = 0  BY <2>1 DEF Before
  <2>4. \A i \in 0 .. CountOf[t] : i \in Places  BY PlacesAre
  <2>5. \A i \in 0 .. CountOf[t] - 1 : i \in 0 .. CountOf[t]  BY <2>1
  <2>6. \A i \in Places : given[t][i] = 0  BY DEF ProducersInit
  <2>7. \A i \in 0 .. CountOf[t] - 1 : given[t][i] = 0  BY <2>4, <2>5, <2>6
  <2>8. counter = 0 /\ wraps = 0 /\ current = 0  BY DEF ProducersInit
  <2>. QED  BY <1>1, <2>2, <2>3, <2>6, <2>7, <2>8 DEF EvenlyIn
<1>. QED  BY <1>1, EvenlyIs

\* A choice for the topic t.
LEMMA EvenlyChoice ==
    ASSUME SendInv, NEW t \in Topics, CountOf[t] > 0, EvenlyIn(t),
           NEW i \in Places, i < CountOf[t], given'[t] = [given[t] EXCEPT ![i] = @ + 1],
           current' = current, mode' = mode,
           mode = "round_robin" => i = counter % CountOf[t] /\ Count
    PROVE  EvenlyIn(t)'
<1>1. given \in [Topics -> [Places -> Nat]] /\ CountOf[t] \in Nat /\ Places \subseteq Nat
      /\ 0 .. CountOf[t] \subseteq Places
  BY PlacesAre DEF SendInv, SendTypes
<1>2. current' < CountOf[t]  BY DEF EvenlyIn
<1>3. \A j \in Places : j >= CountOf[t] => given'[t][j] = 0
  <2>1. \A j \in Places : j >= CountOf[t] => j # i  BY <1>1
  <2>2. \A j \in Places : j # i => given'[t][j] = given[t][j]  BY <1>1
  <2>. QED  BY <2>1, <2>2 DEF EvenlyIn
<1>4. ASSUME mode = "round_robin"
      PROVE  \A j, l \in 0 .. CountOf[t] - 1 :
                 given'[t][j] + Before(l, counter' % CountOf[t]) <=
                     given'[t][l] + wraps' + Before(j, counter' % CountOf[t])
  <2>. DEFINE n == CountOf[t]
              r == counter % n
              s == counter' % n
              g == given[t]
              h == given'[t]
  <2>1. counter \in 0 .. Modulus - 1 /\ wraps \in Nat /\ Modulus \in Nat /\ Modulus > 0
    BY ProducersAssumption DEF SendInv, SendTypes
  <2>2. r \in 0 .. n - 1 /\ i = r  BY <1>1, <1>4, <2>1, Remainder
  <2>3. \A j \in 0 .. n - 1 : j \in Places  BY <1>1
  <2>4. \A j \in 0 .. n - 1 : g[j] \in Nat  BY <1>1, <2>3
  <2>5. \A j \in 0 .. n - 1 : h[j] = IF j = r THEN g[j] + 1 ELSE g[j]
    BY <1>1, <2>2, <2>3
  <2>6. \A j, l \in 0 .. n - 1 : g[j] + Before(l, r) <= g[l] + wraps + Before(j, r)
    BY <1>4 DEF EvenlyIn
  <2>7. Count  BY <1>4
  <2>8. wraps' \in Nat  BY <2>1, <2>7 DEF Count
  <2>9. \/ s = 0 /\ wraps' = wraps + 1
        \/ wraps' = wraps /\ s = IF r + 1 = n THEN 0 ELSE r + 1
    <3>1. CASE counter + 1 = Modulus
      <4>1. Modulus % Modulus = 0 /\ 0 % n = 0  BY <1>1, <2>1
      <4>. QED  BY <2>7, <3>1, <4>1 DEF Count
    <3>2. CASE counter + 1 # Modulus
      <4>1. counter + 1 \in 0 .. Modulus - 1  BY <2>1, <3>2
      <4>2. (counter + 1) % Modulus = counter + 1  BY <2>1, <4>1
      <4>3. counter' = counter + 1 /\ wraps' = wraps  BY <2>7, <3>2, <4>2 DEF Count
      <4>4. (counter + 1) % n = IF r + 1 = n THEN 0 ELSE r + 1
        <5>1. counter \in Nat /\ n \in Nat /\ n > 0  BY <1>1, <2>1
        <5>. HIDE DEF n
        <5>. QED  BY ONLY <5>1, NextInRound DEF r
      <4>. QED  BY <4>3, <4>4
    <3>. QED  BY <3>1, <3>2
  <2>. HIDE DEF n, r, s, g, h
  <2>10. n \in Nat /\ n > 0  BY <1>1 DEF n
  <2>11. \A j, l \in 0 .. n - 1 : h[j] + Before(l, s) <= h[l] + wraps' + Before(j, s)
    <3>1. PICK w \in Nat : w = wraps  BY <2>1
    <3>2. PICK v \in Nat : v = wraps'  BY <2>8
    <3>3. r \in 0 .. n - 1  BY <2>2
    <3>4. RoundOK(g, n, r, w)  BY <2>6, <3>1 DEF RoundOK
    <3>5. \/ s = 0 /\ v = w + 1
          \/ v = w /\ s = IF r + 1 = n THEN 0 ELSE r + 1
      BY <2>9, <3>1, <3>2
    <3>6. OneMore(g, h, n, r)  BY <2>4, <2>5 DEF OneMore
    <3>7. RoundOK(h, n, s, v)
      BY ONLY <2>10, <3>3, <3>4, <3>5, <3>6, w \in Nat, v \in Nat, RoundEven
    <3>. QED  BY <3>2, <3>7 DEF RoundOK
  <2>. QED  BY <2>11 DEF n, r, s, g, h
<1>. QED  BY <1>2, <1>3, <1>4 DEF EvenlyIn

\* Every step keeps it.
LEMMA EvenlyStep ==
    ASSUME SendInv, Evenly, [ProducersNext]_producerVars
    PROVE  Evenly'
<1>. SUFFICES ASSUME NEW t \in Topics, CountOf[t] > 0, ServesOnly(t)' PROVE EvenlyIn(t)'
  BY EvenlyNext
<1>1. SendTypes /\ Sticks /\ CountOf[t] \in Nat  BY PlacesAre DEF SendInv
<1>2. ServesOnly(t) => EvenlyIn(t)  BY EvenlyIs
<1>3. ASSUME EvenlyIn(t), UNCHANGED <<mode, partitioner, given>> PROVE EvenlyIn(t)'
  BY <1>3 DEF EvenlyIn, partitioner
<1>4. ASSUME NEW c \in Clients, NEW q, Turns(sending, sending', c, q), q = NoSend \/ q \in Sending,
             sending[c].at # "read", UNCHANGED <<mode, partitioner, given>>
      PROVE  EvenlyIn(t)'
  <2>1. ServesOnly(t)  BY <1>4, ServedSame
  <2>. QED  BY <1>2, <1>3, <1>4, <2>1
<1>5. ASSUME NEW c \in Clients, NEW u \in Topics, NEW ks \in Batches, SendBatch(c, u, ks)
      PROVE  EvenlyIn(t)'
  <2>1. PICK batch \in Seq(Msg) : Start(c, u, batch)  BY <1>1, <1>5, SendBatchDoes
  <2>2. PICK q \in Sending : Turns(sending, sending', c, q)  BY <1>1, <2>1, StartDoes
  <2>3. sending[c].at # "read" /\ UNCHANGED <<mode, partitioner, given>>
    BY <1>5 DEF SendBatch, NoSend
  <2>. QED  BY <1>4, <2>2, <2>3
<1>6. ASSUME NEW c \in Clients, Retry(c) PROVE EvenlyIn(t)'
  <2>1. sending[c] \in Sending /\ Start(c, sending[c].topic, sending[c].batch)
    BY <1>1, <1>6, RetryDoes
  <2>2. sending[c].topic \in Topics /\ sending[c].batch \in Seq(Msg)  BY <2>1 DEF Sending
  <2>3. PICK q \in Sending : Turns(sending, sending', c, q)  BY <1>1, <2>1, <2>2, StartDoes
  <2>4. sending[c].at # "read" /\ UNCHANGED <<mode, partitioner, given>>  BY <1>6 DEF Retry
  <2>. QED  BY <1>4, <2>3, <2>4
<1>7. ASSUME NEW c \in Clients, GiveUp(c) PROVE EvenlyIn(t)'
  <2>1. Turns(sending, sending', c, NoSend)  BY <1>7 DEF GiveUp, Turns
  <2>2. sending[c].at # "read" /\ UNCHANGED <<mode, partitioner, given>>  BY <1>7 DEF GiveUp
  <2>. QED  BY <1>4, <2>1, <2>2
<1>8. ASSUME NEW c \in Clients,
             \/ Refresh(c) \/ RefreshFails(c)
             \/ StickyCount(c) \/ StickyLoad(c) \/ StickyStore(c)
      PROVE  EvenlyIn(t)'
  <2>. DEFINE o == sending[c]
  <2>1. o \in Sending  BY <1>1, <1>8, MoveDoes
  <2>2. PICK q \in Sending : Moves(o, q) /\ Turns(sending, sending', c, q)
    BY <1>1, <1>8, MoveDoes
  <2>3. o.at # "read" /\ UNCHANGED <<mode, given>>
    BY <1>8 DEF Refresh, RefreshFails, StickyCount, StickyLoad, StickyStore, Chooses
  <2>4. ServesOnly(t) /\ (q.at = "read" => q.topic = t)  BY <2>2, <2>3, ServedSame
  <2>5. EvenlyIn(t)  BY <1>2, <2>4
  <2>6. CASE Refresh(c) \/ RefreshFails(c) \/ StickyLoad(c)
    BY <1>3, <2>3, <2>5, <2>6 DEF Refresh, RefreshFails, StickyLoad
  <2>7. CASE StickyCount(c)
    <3>1. mode = "sticky" /\ current' = current  BY <2>7 DEF StickyCount
    <3>. QED  BY <2>3, <2>5, <3>1 DEF EvenlyIn
  <2>8. CASE StickyStore(c)
    <3>1. sending'[c] = q  BY <1>1, <2>2, TurnsTyped, SendTypesIs
    <3>2. q.at = "read"  BY <1>1, <2>1, <2>8, <3>1 DEF StickyStore, SendTypes, Sending
    <3>3. o.topic = t  BY <2>2, <2>4, <3>2 DEF Moves
    <3>4. o.seen + 1 \in Nat  BY <2>1 DEF Sending
    <3>5. current' = (o.seen + 1) % CountOf[t]  BY <2>8, <3>3 DEF StickyStore
    <3>6. (o.seen + 1) % CountOf[t] \in 0 .. CountOf[t] - 1  BY <3>4, PlaceIs
    <3>7. current' < CountOf[t]  BY <1>1, <3>5, <3>6
    <3>8. mode = "sticky"  BY <1>1, <2>8 DEF StickyStore, Sticks
    <3>. QED  BY <2>3, <2>5, <3>7, <3>8 DEF EvenlyIn
  <2>. QED  BY <1>8, <2>6, <2>7, <2>8
<1>9. ASSUME NEW c \in Clients,
             PartitionNone(c) \/ PartitionRound(c) \/ PartitionKey(c) \/ StickyRead(c)
      PROVE  EvenlyIn(t)'
  <2>. DEFINE o == sending[c]
  <2>1. o \in Sending /\ o.at \in {"partition", "read"} /\ o.todo # <<>> /\ Head(o.todo).key \in Keys
    <3>1. o \in Sending /\ o.at \in {"partition", "read"} /\ o.todo # <<>>  BY <1>9, ChoiceDoes
    <3>2. Head(o.todo) \in Msg  BY <3>1, HeadTailProperties DEF Sending
    <3>. QED  BY <3>1, <3>2 DEF Msg
  <2>2. o.topic \in Topics  BY <2>1 DEF Sending
  <2>3. UNCHANGED <<mode, current>>
    BY <1>9 DEF PartitionNone, PartitionRound, PartitionKey, StickyRead, partitioner
  <2>4. ASSUME NEW i \in Places, Choose(c, i), o.topic = t => i < CountOf[t] \/ ~ServesOnly(t),
               mode = "round_robin" => i = counter % CountOf[o.topic] /\ Count
        PROVE  EvenlyIn(t)'
    <3>1. i \in Nat  BY PlacesAre
    <3>2. PICK q : Chosen(o, q, i) /\ Turns(sending, sending', c, q)
      BY <1>1, <2>1, <2>4, ChooseDoes
    <3>3. q \in Sending  BY <2>1, <3>1, <3>2, ChosenType
    <3>4. /\ ServesOnly(t) /\ o.topic = t
          /\ given'[t] = [given[t] EXCEPT ![i] = @ + 1]
      BY <2>1, <2>4, <3>2, <3>3, ServedChoice
    <3>. QED  BY <1>2, <2>3, <2>4, <3>4, EvenlyChoice
  <2>5. CASE PartitionNone(c)
    <3>1. Choose(c, 0) /\ CountOf[o.topic] = 0 /\ 0 \in Places  BY <2>5, PlacesAre DEF PartitionNone
    <3>2. PICK q : Chosen(o, q, 0) /\ Turns(sending, sending', c, q)
      BY <1>1, <2>1, <3>1, ChooseDoes
    <3>3. q \in Sending  BY <2>1, <3>2, ChosenType
    <3>4. o.topic = t  BY <2>1, <3>1, <3>2, <3>3, ServedChoice
    <3>. QED  BY <3>1, <3>4
  <2>6. CASE PartitionRound(c)
    <3>. DEFINE i == counter % CountOf[o.topic]
    <3>1. counter \in Nat  BY <1>1, ProducersAssumption DEF SendTypes
    <3>2. CountOf[o.topic] > 0 /\ Choose(c, i) /\ Count  BY <2>6 DEF PartitionRound, Chooses
    <3>3. i \in 0 .. CountOf[o.topic] - 1 /\ i \in Places  BY <2>2, <3>1, <3>2, PlaceIs
    <3>4. o.topic = t => i < CountOf[t]  BY <1>1, <3>3
    <3>. QED  BY <2>4, <3>2, <3>3, <3>4
  <2>7. CASE PartitionKey(c)
    <3>. DEFINE key == Head(o.todo).key
                i == IF key = NoKey THEN 0 ELSE HashOf[key] % CountOf[o.topic]
    <3>1. CountOf[o.topic] > 0 /\ Choose(c, i) /\ mode = "key_hash"
      BY <2>7 DEF PartitionKey, Chooses
    <3>2. key # NoKey => HashOf[key] \in Nat  BY <2>1, ProducersAssumption
    <3>3. key # NoKey => HashOf[key] % CountOf[o.topic] \in 0 .. CountOf[o.topic] - 1
                         /\ HashOf[key] % CountOf[o.topic] \in Places
      BY <2>2, <3>1, <3>2, PlaceIs
    <3>4. i \in Places  BY <3>3, PlacesAre
    <3>5. ASSUME o.topic = t PROVE i < CountOf[t]
      <4>1. CASE key = NoKey  BY <4>1
      <4>2. CASE key # NoKey
        <5>1. HashOf[key] % CountOf[t] \in 0 .. CountOf[t] - 1 /\ i = HashOf[key] % CountOf[t]
          BY <3>3, <3>5, <4>2
        <5>. HIDE DEF i
        <5>. QED  BY <1>1, <5>1
      <4>. QED  BY <4>1, <4>2
    <3>. HIDE DEF i
    <3>. QED  BY <2>4, <3>1, <3>4, <3>5
  <2>8. CASE StickyRead(c)
    <3>1. Choose(c, current) /\ current \in Places /\ mode = "sticky"
      BY <1>1, <2>8 DEF StickyRead, Sticks
    <3>2. ServesOnly(t) => current < CountOf[t]  BY <1>2 DEF EvenlyIn
    <3>. QED  BY <2>4, <3>1, <3>2
  <2>. QED  BY <1>9, <2>5, <2>6, <2>7, <2>8
<1>10. ASSUME NEW c \in Clients, NEW i \in Places, Send(c, i) PROVE EvenlyIn(t)'
  <2>1. sending[c].at # "read" /\ UNCHANGED <<mode, partitioner, given>>  BY <1>10 DEF Send, Sends
  <2>2. \E q : (q = NoSend \/ q \in Sending) /\ Turns(sending, sending', c, q)
    BY <1>1, <1>10, SendDoes
  <2>. QED  BY <1>4, <2>1, <2>2
<1>11. ASSUME NEW c \in Clients, NEW i \in Places, NEW n \in 0 .. MaxMessages, SendFails(c, i, n)
       PROVE  EvenlyIn(t)'
  <2>1. sending[c].at # "read" /\ UNCHANGED <<mode, partitioner, given>>  BY <1>11 DEF SendFails, Sends
  <2>2. n \in Nat  BY ProducersAssumption
  <2>3. \E q \in Sending : Turns(sending, sending', c, q)  BY <1>1, <1>11, <2>2, SendFailsDoes
  <2>. QED  BY <1>4, <2>1, <2>3
<1>12. ASSUME UNCHANGED <<mode, partitioner, given, sending>> PROVE EvenlyIn(t)'
  <2>1. ServesOnly(t)  BY <1>12 DEF ServesOnly
  <2>. QED  BY <1>2, <1>3, <1>12, <2>1
<1>13. ASSUME NEW c \in Clients, GetMetadata(c) \/ \E u \in Topics : CreateTopic(c, u)
       PROVE  EvenlyIn(t)'
  BY <1>12, <1>13 DEF GetMetadata, CreateTopic
<1>14. CASE UNCHANGED producerVars  BY <1>12, <1>14 DEF producerVars
<1>15. CASE ProducersNext
  BY <1>5, <1>6, <1>7, <1>8, <1>9, <1>10, <1>11, <1>13, <1>15 DEF ProducersNext
<1>. QED  BY <1>14, <1>15

\* What Evenly promises.
LEMMA EvenlySpreads == ASSUME SendInv, Evenly PROVE Spread
<1>. SUFFICES ASSUME NEW t \in Topics, CountOf[t] > 0, ServesOnly(t)
              PROVE  /\ \A i \in Places : i >= CountOf[t] => given[t][i] = 0
                     /\ mode = "round_robin" =>
                           \A i, j \in 0 .. CountOf[t] - 1 : given[t][i] <= given[t][j] + 1 + wraps
  BY DEF Spread
<1>1. EvenlyIn(t)  BY EvenlyIs
<1>2. ASSUME mode = "round_robin", NEW i \in 0 .. CountOf[t] - 1, NEW j \in 0 .. CountOf[t] - 1
      PROVE  given[t][i] <= given[t][j] + 1 + wraps
  <2>. DEFINE r == counter % CountOf[t]
  <2>1. given[t][i] + Before(j, r) <= given[t][j] + wraps + Before(i, r)
    BY <1>1, <1>2 DEF EvenlyIn
  <2>2. Before(i, r) \in {0, 1} /\ Before(j, r) \in {0, 1}  BY BeforeIs
  <2>3. given[t][i] \in Nat /\ given[t][j] \in Nat /\ wraps \in Nat
    <3>1. i \in Places /\ j \in Places
      <4>1. CountOf[t] \in Nat /\ 0 .. CountOf[t] \subseteq Places  BY PlacesAre
      <4>2. 0 .. CountOf[t] - 1 \subseteq 0 .. CountOf[t]  BY <4>1
      <4>. QED  BY <4>1, <4>2
    <3>. QED  BY <3>1 DEF SendInv, SendTypes
  <2>. HIDE DEF r
  <2>4. PICK a, b, w \in Nat : a = given[t][i] /\ b = given[t][j] /\ w = wraps  BY <2>3
  <2>5. PICK x \in {0, 1} : x = Before(i, r)  BY <2>2
  <2>6. PICK y \in {0, 1} : y = Before(j, r)  BY <2>2
  <2>7. a + y <= b + w + x  BY <2>1, <2>4, <2>5, <2>6
  <2>8. a <= b + 1 + w  BY ONLY <2>7, a \in Nat, b \in Nat, w \in Nat, x \in {0, 1}, y \in {0, 1}
  <2>. QED  BY <2>4, <2>8
<1>. QED  BY <1>1, <1>2 DEF EvenlyIn

\* The invariant of the partitioners and calls.
LEMMA SendInvariance == ProducersSpec => []SendInv
<1>1. ProducersInit => SendInv  BY SendInit
<1>2. SendInv /\ [ProducersNext]_producerVars => SendInv'  BY SendStep
<1>. QED  BY <1>1, <1>2, PTL DEF ProducersSpec

\* For any producers, topics, partition counts, batches and counter width: a
\* partitioner that serves one topic gives only partitions of it, and the
\* round-robin one the same number of messages to each, but for one and one more
\* for every wrap of its counter, however the producers' steps interleave.
THEOREM PartitionersSpread == ProducersSpec => []Spread
<1>1. ProducersInit => Evenly  BY EvenlyInit
<1>2. SendInv /\ Evenly /\ [ProducersNext]_producerVars => Evenly'  BY EvenlyStep
<1>3. SendInv /\ Evenly => Spread  BY EvenlySpreads
<1>. QED  BY <1>1, <1>2, <1>3, SendInvariance, PTL DEF ProducersSpec

-----------------------------------------------------------------------------
(* Every message of a call is sent once: the invariant Delivery.           *)

\* The batch that a choice makes longer.
LEMMA JoinedAt ==
    ASSUME NEW o \in Sending, o.todo # <<>>, NEW i \in Nat, NEW f, f = Joined(o, i)
    PROVE  \E old \in Seq(Msg) :
              /\ i \in DOMAIN o.batches => old = o.batches[i]
              /\ i \notin DOMAIN o.batches => old = <<>>
              /\ f[i] = Append(old, Head(o.todo))
<1>2. o.batches \in Maps  BY DEF Sending
<1>. DEFINE old == IF i \in DOMAIN o.batches THEN o.batches[i] ELSE <<>>
<1>5. old \in Seq(Msg)  BY <1>2, MapsAre
<1>6. f[i] = Append(old, Head(o.todo))  BY DEF Joined
<1>7. (i \in DOMAIN o.batches => old = o.batches[i]) /\ (i \notin DOMAIN o.batches => old = <<>>)
  OBVIOUS
<1>. HIDE DEF old
<1>. QED  BY <1>5, <1>6, <1>7

\* A message in f was in the batches of o, or is the one chosen for; those that were
\* there are.
JoinedIs(o, f, i) ==
    /\ i \in DOMAIN f /\ Len(f[i]) \in Nat /\ Len(f[i]) \in 1 .. Len(f[i])
    /\ f[i][Len(f[i])] = Head(o.todo)
    /\ \A h \in DOMAIN o.batches : \A j \in 1 .. Len(o.batches[h]) :
          /\ h \in DOMAIN f /\ j \in 1 .. Len(f[h]) /\ f[h][j] = o.batches[h][j]
          /\ h = i => j < Len(f[i])
    /\ \A h \in DOMAIN f : \A j \in 1 .. Len(f[h]) :
          \/ /\ h \in DOMAIN o.batches /\ j \in 1 .. Len(o.batches[h])
             /\ f[h][j] = o.batches[h][j]
          \/ h = i /\ j = Len(f[i])

\* The batches after a choice are such.
LEMMA JoinedElements ==
    ASSUME NEW o \in Sending, o.todo # <<>>, NEW i \in Nat, NEW f, f = Joined(o, i)
    PROVE  JoinedIs(o, f, i)
<1>1. /\ f \in Maps /\ DOMAIN f = DOMAIN o.batches \cup {i}
      /\ \A h \in DOMAIN o.batches : h # i => f[h] = o.batches[h]
  <2>1. f \in Maps  BY JoinedType
  <2>2. DOMAIN f = DOMAIN o.batches \cup {i}  BY DEF Joined
  <2>3. \A h \in DOMAIN o.batches : h # i => f[h] = o.batches[h]  BY DEF Joined
  <2>. QED  BY <2>1, <2>2, <2>3
<1>2. PICK old \in Seq(Msg) :
          /\ i \in DOMAIN o.batches => old = o.batches[i]
          /\ i \notin DOMAIN o.batches => old = <<>>
          /\ f[i] = Append(old, Head(o.todo))
  BY JoinedAt
<1>3. Head(o.todo) \in Msg  BY HeadTailProperties DEF Sending
<1>4. PICK n \in Nat : n = Len(old)  OBVIOUS
<1>5. /\ Len(f[i]) = n + 1 /\ f[i][n + 1] = Head(o.todo)
      /\ \A j \in 1 .. n : f[i][j] = old[j]
  BY <1>2, <1>3, <1>4
<1>6. ASSUME NEW h \in DOMAIN o.batches, NEW j \in 1 .. Len(o.batches[h])
      PROVE  /\ h \in DOMAIN f /\ j \in 1 .. Len(f[h]) /\ f[h][j] = o.batches[h][j]
             /\ h = i => j < Len(f[i])
  <2>1. CASE h # i  BY <1>1, <2>1
  <2>2. CASE h = i
    <3>1. j \in 1 .. n /\ o.batches[h] = old  BY <1>2, <1>4, <2>2
    <3>2. j \in 1 .. n + 1 /\ j < n + 1  BY <3>1
    <3>. QED  BY <1>1, <1>5, <2>2, <3>1, <3>2
  <2>. QED  BY <2>1, <2>2
<1>7. ASSUME NEW h \in DOMAIN f, NEW j \in 1 .. Len(f[h])
      PROVE  \/ /\ h \in DOMAIN o.batches /\ j \in 1 .. Len(o.batches[h])
                /\ f[h][j] = o.batches[h][j]
             \/ h = i /\ j = Len(f[i])
  <2>1. CASE h # i
    <3>1. h \in DOMAIN o.batches  BY <1>1, <2>1
    <3>. QED  BY <1>1, <2>1, <3>1
  <2>2. CASE h = i /\ j = n + 1  BY <1>5, <2>2
  <2>3. CASE h = i /\ j # n + 1
    <3>1. j \in 1 .. n  BY <1>5, <2>3
    <3>2. n # 0  BY <3>1
    <3>3. i \in DOMAIN o.batches  BY <1>2, <1>4, <3>2
    <3>. QED  BY <1>2, <1>4, <1>5, <2>3, <3>1, <3>3
  <2>. QED  BY <2>1, <2>2, <2>3
<1>8. n + 1 \in 1 .. n + 1 /\ n + 1 \in Nat  OBVIOUS
<1>. QED  BY <1>1, <1>5, <1>6, <1>7, <1>8 DEF JoinedIs

\* Of the batch of o the first messages were divided, as many as done, and in q one
\* more.
Counted(o, q, done) ==
    /\ done = Len(o.batch) - Len(o.todo) /\ done + 1 = Len(q.batch) - Len(q.todo)
    /\ done + 1 \in 1 .. Len(o.batch) /\ Head(o.todo) = o.batch[done + 1]
    /\ \A k \in 1 .. done : k \in 1 .. Len(o.batch) /\ o.batch[k].id # o.batch[done + 1].id

\* The message chosen for is the first of the batch that was not divided.
LEMMA ChosenNumbers ==
    ASSUME NEW o \in Sending, o.todo # <<>>, NEW i \in Nat, NEW q, Chosen(o, q, i),
           NEW c, NEW n \in Nat, Divides(o, c, n)
    PROVE  \E done \in Nat : Counted(o, q, done)
<1>1. q.batch = o.batch /\ q.todo = Tail(o.todo)  BY ChosenType
<1>2. o.todo \in Seq(Msg) /\ o.batch \in Seq(Msg)  BY DEF Sending
<1>3. PICK a \in Nat : a = Len(o.todo)  BY <1>2
<1>4. PICK b \in Nat : b = Len(o.batch)  BY <1>2
<1>5. a # 0  BY <1>2, <1>3, EmptySeq
<1>6. Len(q.todo) = a - 1  BY <1>1, <1>2, <1>3, HeadTailProperties
<1>7. Head(o.todo) = o.todo[1]  BY <1>2
<1>8. a <= b /\ b <= n  BY <1>3, <1>4 DEF Divides
<1>9. o.todo[1] = o.batch[b - a + 1]
  <2>1. 1 \in 1 .. Len(o.todo)  BY <1>3, <1>5
  <2>. QED  BY <1>3, <1>4, <2>1 DEF Divides
<1>. DEFINE d == b - a
<1>10. /\ d \in Nat /\ d = Len(o.batch) - Len(o.todo) /\ d + 1 = Len(q.batch) - Len(q.todo)
       /\ d + 1 \in 1 .. b
  <2>1. Len(q.batch) = b  BY <1>1, <1>4
  <2>2. d \in Nat /\ d + 1 = b - (a - 1) /\ d + 1 \in 1 .. b
    BY ONLY a \in Nat, b \in Nat, <1>5, <1>8
  <2>. QED  BY <1>3, <1>4, <1>6, <2>1, <2>2
<1>11. ASSUME NEW k \in 1 .. d PROVE k \in 1 .. b /\ o.batch[k].id # o.batch[d + 1].id
  <2>1. k \in 1 .. b /\ d + 1 \in 1 .. b  BY <1>8, <1>10
  <2>2. o.batch[k].id = <<c, n - b + k>> /\ o.batch[d + 1].id = <<c, n - b + (d + 1)>>
    BY <1>4, <2>1 DEF Divides
  <2>3. n - b + k # n - b + (d + 1)  BY <1>10
  <2>. QED  BY <2>1, <2>2, <2>3
<1>12. Counted(o, q, d)  BY <1>4, <1>7, <1>9, <1>10, <1>11 DEF Counted
<1>. QED  BY <1>10, <1>12

\* The places of a message in the log.
LEMMA CopiesAre == ASSUME NEW m PROVE Copies(m) = CopiesIn(log, m)
BY DEF Copies, CopiesIn

\* What is in CopiesIn.
LEMMA InCopies ==
    ASSUME NEW l, NEW m, NEW x
    PROVE  x \in CopiesIn(l, m) <=>
              \E t \in Topics : \E i \in DOMAIN l[t] : \E k \in DOMAIN l[t][i] :
                  l[t][i][k].id = m /\ x = <<t, i, k>>
BY DEF CopiesIn

\* The log has the messages it had, at their places, and the new ones after them.
Logs(l) ==
    DOMAIN l = Topics /\ \A t \in Topics : \A i \in DOMAIN l[t] : l[t][i] \in Seq(Msg)

\* Where messages are after an append.
LEMMA GrownPlaces ==
    ASSUME NEW l, Logs(l), NEW t \in Topics, NEW i \in DOMAIN l[t], NEW s \in Seq(Msg),
           NEW l2, Grown(l, l2, t, i, s)
    PROVE  /\ Logs(l2) /\ \A u \in Topics : DOMAIN l2[u] = DOMAIN l[u]
           /\ \A u \in Topics : \A j \in DOMAIN l[u] : \A k \in DOMAIN l[u][j] :
                 k \in DOMAIN l2[u][j] /\ l2[u][j][k] = l[u][j][k]
           /\ \A k \in 1 .. Len(s) :
                 /\ Len(l[t][i]) + k \in DOMAIN l2[t][i]
                 /\ l2[t][i][Len(l[t][i]) + k] = s[k]
           /\ \A u \in Topics : \A j \in DOMAIN l[u] : \A k \in DOMAIN l2[u][j] :
                 \/ k \in DOMAIN l[u][j] /\ l2[u][j][k] = l[u][j][k]
                 \/ /\ u = t /\ j = i
                    /\ \E h \in 1 .. Len(s) : k = Len(l[t][i]) + h /\ l2[t][i][k] = s[h]
<1>1. DOMAIN l2 = Topics /\ \A u \in Topics : DOMAIN l2[u] = DOMAIN l[u]  BY DEF Grown, Logs
<1>2. \A u \in Topics : \A j \in DOMAIN l[u] : u # t \/ j # i => l2[u][j] = l[u][j]
  BY DEF Grown, Logs
<1>3. PICK a \in Seq(Msg) : a = l[t][i]  BY DEF Logs
<1>4. PICK n \in Nat : n = Len(a)  OBVIOUS
<1>5. PICK m \in Nat : m = Len(s)  OBVIOUS
<1>6. l2[t][i] = a \o s  BY <1>3 DEF Grown, Logs
<1>7. /\ a \o s \in Seq(Msg) /\ Len(a \o s) = n + m
      /\ \A k \in 1 .. n + m : (a \o s)[k] = IF k <= n THEN a[k] ELSE s[k - n]
  BY <1>4, <1>5, ConcatProperties
<1>8. DOMAIN a = 1 .. n /\ DOMAIN l2[t][i] = 1 .. n + m  BY <1>4, <1>6, <1>7
<1>9. Logs(l2)
  <2>1. \A u \in Topics : \A j \in DOMAIN l[u] : l[u][j] \in Seq(Msg)  BY DEF Logs
  <2>2. l2[t][i] \in Seq(Msg)  BY <1>6, <1>7
  <2>3. \A u \in Topics : \A j \in DOMAIN l2[u] : l2[u][j] \in Seq(Msg)
    BY <1>1, <1>2, <2>1, <2>2
  <2>. QED  BY <1>1, <2>3 DEF Logs
<1>10. ASSUME NEW u \in Topics, NEW j \in DOMAIN l[u], NEW k \in DOMAIN l[u][j]
       PROVE  k \in DOMAIN l2[u][j] /\ l2[u][j][k] = l[u][j][k]
  <2>1. CASE u # t \/ j # i
    <3>1. l2[u][j] = l[u][j]  BY <1>2, <2>1
    <3>. QED  BY <3>1
  <2>2. CASE u = t /\ j = i
    <3>1. k \in 1 .. n /\ l[u][j] = a /\ l2[u][j] = a \o s  BY <1>3, <1>6, <1>8, <2>2
    <3>2. k \in 1 .. n + m /\ k <= n  BY <3>1
    <3>. QED  BY <1>7, <1>8, <2>2, <3>1, <3>2
  <2>. QED  BY <2>1, <2>2
<1>11. ASSUME NEW k \in 1 .. m
       PROVE  n + k \in DOMAIN l2[t][i] /\ l2[t][i][n + k] = s[k]
  <2>1. n + k \in 1 .. n + m /\ ~(n + k <= n) /\ n + k - n = k  OBVIOUS
  <2>. QED  BY <1>6, <1>7, <1>8, <2>1
<1>12. ASSUME NEW u \in Topics, NEW j \in DOMAIN l[u], NEW k \in DOMAIN l2[u][j]
       PROVE  \/ k \in DOMAIN l[u][j] /\ l2[u][j][k] = l[u][j][k]
              \/ /\ u = t /\ j = i
                 /\ \E h \in 1 .. m : k = n + h /\ l2[t][i][k] = s[h]
  <2>1. CASE u # t \/ j # i
    <3>1. l2[u][j] = l[u][j]  BY <1>2, <2>1
    <3>. QED  BY <3>1
  <2>2. CASE u = t /\ j = i
    <3>1. k \in 1 .. n + m  BY <1>8, <2>2
    <3>2. CASE k <= n
      <4>1. k \in DOMAIN l[u][j]  BY <1>3, <1>8, <2>2, <3>1, <3>2
      <4>. QED  BY <1>10, <4>1
    <3>3. CASE ~(k <= n)
      <4>1. k - n \in 1 .. m /\ k = n + (k - n)  BY <3>1, <3>3
      <4>2. l2[t][i][k] = s[k - n]  BY <1>6, <1>7, <3>1, <3>3
      <4>. QED  BY <2>2, <4>1, <4>2
    <3>. QED  BY <3>2, <3>3
  <2>. QED  BY <2>1, <2>2
<1>13. n = Len(l[t][i]) /\ m = Len(s)  BY <1>3, <1>4, <1>5
<1>. QED  BY <1>1, <1>9, <1>10, <1>11, <1>12, <1>13

\* No copy goes away.
LEMMA GrownCopies ==
    ASSUME NEW l, Logs(l), NEW t \in Topics, NEW i \in DOMAIN l[t], NEW s \in Seq(Msg),
           NEW l2, Grown(l, l2, t, i, s), NEW m
    PROVE  /\ CopiesIn(l, m) \subseteq CopiesIn(l2, m)
           /\ \A k \in 1 .. Len(s) : s[k].id = m => CopiesIn(l2, m) # {}
<1>1. /\ \A u \in Topics : DOMAIN l2[u] = DOMAIN l[u]
      /\ \A u \in Topics : \A j \in DOMAIN l[u] : \A k \in DOMAIN l[u][j] :
            k \in DOMAIN l2[u][j] /\ l2[u][j][k] = l[u][j][k]
  BY GrownPlaces
<1>2. \A k \in 1 .. Len(s) :
          Len(l[t][i]) + k \in DOMAIN l2[t][i] /\ l2[t][i][Len(l[t][i]) + k] = s[k]
  BY GrownPlaces
<1>3. ASSUME NEW x \in CopiesIn(l, m) PROVE x \in CopiesIn(l2, m)
  <2>1. PICK u \in Topics : \E j \in DOMAIN l[u] : \E k \in DOMAIN l[u][j] :
            l[u][j][k].id = m /\ x = <<u, j, k>>
    BY InCopies
  <2>2. PICK j \in DOMAIN l[u] : \E k \in DOMAIN l[u][j] : l[u][j][k].id = m /\ x = <<u, j, k>>
    BY <2>1
  <2>3. PICK k \in DOMAIN l[u][j] : l[u][j][k].id = m /\ x = <<u, j, k>>  BY <2>2
  <2>4. j \in DOMAIN l2[u] /\ k \in DOMAIN l2[u][j] /\ l2[u][j][k].id = m  BY <1>1, <2>3
  <2>. QED  BY <2>3, <2>4, InCopies
<1>4. ASSUME NEW k \in 1 .. Len(s), s[k].id = m PROVE CopiesIn(l2, m) # {}
  <2>1. PICK p : p = Len(l[t][i]) + k  OBVIOUS
  <2>2. p \in DOMAIN l2[t][i] /\ l2[t][i][p].id = m  BY <1>2, <1>4, <2>1
  <2>3. i \in DOMAIN l2[t]  BY <1>1
  <2>4. <<t, i, p>> \in CopiesIn(l2, m)  BY <2>2, <2>3, InCopies
  <2>. QED  BY <2>4
<1>. QED  BY <1>3, <1>4

\* A message that is not appended has as many copies as before, one that is once
\* has at most one more.
LEMMA NoNewCopy ==
    ASSUME NEW l, Logs(l), NEW t \in Topics, NEW i \in DOMAIN l[t], NEW s \in Seq(Msg),
           NEW l2, Grown(l, l2, t, i, s), NEW m, \A k \in 1 .. Len(s) : s[k].id # m
    PROVE  CopiesIn(l2, m) = CopiesIn(l, m)
<1>1. /\ \A u \in Topics : DOMAIN l2[u] = DOMAIN l[u]
      /\ \A u \in Topics : \A j \in DOMAIN l[u] : \A k \in DOMAIN l2[u][j] :
            \/ k \in DOMAIN l[u][j] /\ l2[u][j][k] = l[u][j][k]
            \/ /\ u = t /\ j = i
               /\ \E h \in 1 .. Len(s) : k = Len(l[t][i]) + h /\ l2[t][i][k] = s[h]
  BY GrownPlaces
<1>2. ASSUME NEW x \in CopiesIn(l2, m) PROVE x \in CopiesIn(l, m)
  <2>1. PICK u \in Topics : \E j \in DOMAIN l2[u] : \E k \in DOMAIN l2[u][j] :
            l2[u][j][k].id = m /\ x = <<u, j, k>>
    BY InCopies
  <2>2. PICK j \in DOMAIN l2[u] : \E k \in DOMAIN l2[u][j] :
            l2[u][j][k].id = m /\ x = <<u, j, k>>
    BY <2>1
  <2>3. PICK k \in DOMAIN l2[u][j] : l2[u][j][k].id = m /\ x = <<u, j, k>>  BY <2>2
  <2>4. j \in DOMAIN l[u]  BY <1>1
  <2>5. k \in DOMAIN l[u][j] /\ l2[u][j][k] = l[u][j][k]  BY <1>1, <2>3, <2>4
  <2>. QED  BY <2>3, <2>4, <2>5, InCopies
<1>3. CopiesIn(l, m) \subseteq CopiesIn(l2, m)  BY GrownCopies
<1>. QED  BY <1>2, <1>3

\* A message that is appended once has at most one copy more.
LEMMA OneNewCopy ==
    ASSUME NEW l, Logs(l), NEW t \in Topics, NEW i \in DOMAIN l[t], NEW s \in Seq(Msg),
           NEW l2, Grown(l, l2, t, i, s), NEW m,
           \A j, k \in 1 .. Len(s) : s[j].id = m /\ s[k].id = m => j = k,
           IsFiniteSet(CopiesIn(l, m))
    PROVE  /\ IsFiniteSet(CopiesIn(l2, m))
           /\ Cardinality(CopiesIn(l2, m)) <= Cardinality(CopiesIn(l, m)) + 1
<1>. DEFINE C == CopiesIn(l, m)
            D == CopiesIn(l2, m)
<1>0. Cardinality(C) \in Nat  BY FS_CardinalityType
<1>1. CASE \A k \in 1 .. Len(s) : s[k].id # m
  <2>1. D = C  BY <1>1, NoNewCopy
  <2>. QED  BY <1>0, <2>1
<1>2. CASE \E k \in 1 .. Len(s) : s[k].id = m
  <2>1. PICK h \in 1 .. Len(s) : s[h].id = m  BY <1>2
  <2>. DEFINE y == <<t, i, Len(l[t][i]) + h>>
  <2>2. /\ \A u \in Topics : DOMAIN l2[u] = DOMAIN l[u]
        /\ \A u \in Topics : \A j \in DOMAIN l[u] : \A k \in DOMAIN l2[u][j] :
              \/ k \in DOMAIN l[u][j] /\ l2[u][j][k] = l[u][j][k]
              \/ /\ u = t /\ j = i
                 /\ \E g \in 1 .. Len(s) : k = Len(l[t][i]) + g /\ l2[t][i][k] = s[g]
    BY GrownPlaces
  <2>3. ASSUME NEW x \in D PROVE x \in C \cup {y}
    <3>1. PICK u \in Topics : \E j \in DOMAIN l2[u] : \E k \in DOMAIN l2[u][j] :
              l2[u][j][k].id = m /\ x = <<u, j, k>>
      BY InCopies
    <3>2. PICK j \in DOMAIN l2[u] : \E k \in DOMAIN l2[u][j] :
              l2[u][j][k].id = m /\ x = <<u, j, k>>
      BY <3>1
    <3>3. PICK k \in DOMAIN l2[u][j] : l2[u][j][k].id = m /\ x = <<u, j, k>>  BY <3>2
    <3>4. j \in DOMAIN l[u]  BY <2>2
    <3>5. CASE k \in DOMAIN l[u][j] /\ l2[u][j][k] = l[u][j][k]
      BY <3>3, <3>4, <3>5, InCopies
    <3>6. CASE /\ u = t /\ j = i
               /\ \E g \in 1 .. Len(s) : k = Len(l[t][i]) + g /\ l2[t][i][k] = s[g]
      <4>1. PICK g \in 1 .. Len(s) : k = Len(l[t][i]) + g /\ l2[t][i][k] = s[g]  BY <3>6
      <4>2. g = h  BY <2>1, <3>3, <3>6, <4>1
      <4>. QED  BY <3>3, <3>6, <4>1, <4>2
    <3>. QED  BY <2>2, <3>3, <3>4, <3>5, <3>6
  <2>4. C \subseteq D  BY GrownCopies
  <2>5. i \in DOMAIN l2[t] /\ y \in D
    <3>1. Len(l[t][i]) + h \in DOMAIN l2[t][i] /\ l2[t][i][Len(l[t][i]) + h] = s[h]
      BY GrownPlaces
    <3>2. i \in DOMAIN l2[t]  BY <2>2
    <3>3. PICK p : p = Len(l[t][i]) + h  OBVIOUS
    <3>. QED  BY <2>1, <3>1, <3>2, <3>3, InCopies
  <2>6. D = C \cup {y}  BY <2>3, <2>4, <2>5
  <2>. HIDE DEF C, D, y
  <2>7. /\ IsFiniteSet(C \cup {y})
        /\ Cardinality(C \cup {y}) = IF y \in C THEN Cardinality(C) ELSE Cardinality(C) + 1
    BY FS_AddElement DEF C
  <2>8. IsFiniteSet(D) /\ Cardinality(D) <= Cardinality(C) + 1  BY <1>0, <2>6, <2>7
  <2>. QED  BY <2>8 DEF C, D
<1>. QED  BY <1>1, <1>2

\* A call that has just started has divided nothing.
LEMMA FreshHolds ==
    ASSUME NEW o, NEW t, NEW batch \in Seq(Msg), Fresh(o, t, batch), NEW l
    PROVE  /\ Divided(o) /\ NoneLost(o, l)
           /\ Held(o) \subseteq {batch[k].id : k \in 1 .. Len(batch)}
<1>1. DOMAIN o.batches = {} /\ o.batch = batch /\ o.todo = batch  BY NoBatchesMap DEF Fresh
<1>2. Len(batch) \in Nat  OBVIOUS
<1>3. 1 .. Len(o.batch) - Len(o.todo) = {}  BY <1>1, <1>2
<1>4. Divided(o)  BY <1>1 DEF Divided
<1>5. NoneLost(o, l)  BY <1>3 DEF NoneLost
<1>6. Held(o) \subseteq {batch[k].id : k \in 1 .. Len(batch)}  BY <1>1 DEF Held
<1>. QED  BY <1>4, <1>5, <1>6

\* A call that divides and sends nothing holds no more than before.
LEMMA MoveHolds ==
    ASSUME NEW o, NEW q, Moves(o, q), NEW l, Divided(o), NoneLost(o, l)
    PROVE  Divided(q) /\ NoneLost(q, l) /\ Held(q) \subseteq Held(o)
<1>1. /\ q.batch = o.batch /\ q.todo = o.todo /\ q.batches = o.batches
      /\ o.at \in Early
  BY DEF Moves
<1>2. Divided(q)
  <2>1. \A h \in DOMAIN q.batches : \A j \in 1 .. Len(q.batches[h]) :
            \E k \in 1 .. Len(q.batch) - Len(q.todo) : q.batches[h][j] = q.batch[k]
    BY <1>1 DEF Divided
  <2>2. \A h, g \in DOMAIN q.batches : \A j \in 1 .. Len(q.batches[h]), k \in 1 .. Len(q.batches[g]) :
            q.batches[h][j].id = q.batches[g][k].id => h = g /\ j = k
    BY <1>1 DEF Divided
  <2>. QED  BY <2>1, <2>2 DEF Divided
<1>3. \A k \in 1 .. Len(o.batch) - Len(o.todo) : Kept(o, k)  BY <1>1 DEF NoneLost, Early
<1>4. \A k : Kept(o, k) => Kept(q, k)  BY <1>1 DEF Kept
<1>5. NoneLost(q, l)  BY <1>1, <1>3, <1>4 DEF NoneLost
<1>6. Held(q) \subseteq Held(o)  BY <1>1 DEF Held, Early
<1>. QED  BY <1>2, <1>5, <1>6

\* Membership in Held.
LEMMA HeldIs ==
    ASSUME NEW o, NEW m, o.at \notin {"idle", "failed"}
    PROVE  m \in Held(o) <=>
              \/ \E k \in 1 .. Len(o.todo) : o.todo[k].id = m
              \/ \E i \in DOMAIN o.batches : \E j \in 1 .. Len(o.batches[i]) : o.batches[i][j].id = m
<1>1. Held(o) = {o.todo[k].id : k \in 1 .. Len(o.todo)} \cup
         UNION {{o.batches[i][j].id : j \in 1 .. Len(o.batches[i])} : i \in DOMAIN o.batches}
  BY DEF Held
<1>. QED  BY <1>1

\* A message that is chosen for moves from what is to be divided to a batch.
LEMMA ChosenHolds ==
    ASSUME NEW o \in Sending, o.at \in Early, o.todo # <<>>, NEW i \in Nat, NEW q, Chosen(o, q, i),
           NEW c, NEW n \in Nat, Divides(o, c, n), NEW l, Divided(o), NoneLost(o, l)
    PROVE  Divided(q) /\ NoneLost(q, l) /\ Held(q) \subseteq Held(o)
<1>14. PICK f : f = Joined(o, i)  OBVIOUS
<1>15. JoinedIs(o, f, i)  BY <1>14, JoinedElements
<1>1. /\ q.batch = o.batch /\ q.todo = Tail(o.todo) /\ q.batches = f
      /\ q.at \in {"send", "partition"}
  BY <1>14, ChosenType
<1>2. PICK done \in Nat : Counted(o, q, done)  BY ChosenNumbers
<1>. DEFINE last == done + 1
<1>13. /\ done = Len(o.batch) - Len(o.todo) /\ last = Len(q.batch) - Len(q.todo)
       /\ last \in 1 .. Len(o.batch) /\ Head(o.todo) = o.batch[last]
       /\ \A k \in 1 .. done : o.batch[k].id # o.batch[last].id
  BY <1>2 DEF Counted
<1>3. /\ i \in DOMAIN f /\ Len(f[i]) \in 1 .. Len(f[i]) /\ f[i][Len(f[i])] = Head(o.todo)
      /\ \A h \in DOMAIN o.batches : \A j \in 1 .. Len(o.batches[h]) :
            h \in DOMAIN f /\ j \in 1 .. Len(f[h]) /\ f[h][j] = o.batches[h][j]
      /\ \A h \in DOMAIN f : \A j \in 1 .. Len(f[h]) :
            \/ /\ h \in DOMAIN o.batches /\ j \in 1 .. Len(o.batches[h])
               /\ f[h][j] = o.batches[h][j]
            \/ h = i /\ j = Len(f[i])
  BY <1>15 DEF JoinedIs
<1>4. 1 .. done \subseteq 1 .. last /\ last \in 1 .. last
      /\ \A k \in 1 .. last : k \in 1 .. done \/ k = last
  OBVIOUS
<1>. HIDE DEF last
<1>5. \A h \in DOMAIN o.batches : \A j \in 1 .. Len(o.batches[h]) :
          \E k \in 1 .. done : o.batches[h][j] = o.batch[k]
  BY <1>13 DEF Divided
<1>6. \A h \in DOMAIN f : \A j \in 1 .. Len(f[h]) : \E k \in 1 .. last : f[h][j] = o.batch[k]
  <2>1. SUFFICES ASSUME NEW h \in DOMAIN f, NEW j \in 1 .. Len(f[h])
                 PROVE  \E k \in 1 .. last : f[h][j] = o.batch[k]
    OBVIOUS
  <2>2. CASE h = i /\ j = Len(f[i])
    <3>1. f[h][j] = o.batch[last]  BY <1>3, <1>13, <2>2
    <3>. QED  BY <1>4, <3>1
  <2>3. CASE h \in DOMAIN o.batches /\ j \in 1 .. Len(o.batches[h]) /\ f[h][j] = o.batches[h][j]
    BY <1>4, <1>5, <2>3
  <2>. QED  BY <1>3, <2>2, <2>3
<1>7. ASSUME NEW h \in DOMAIN f, NEW g \in DOMAIN f, NEW j \in 1 .. Len(f[h]), NEW k \in 1 .. Len(f[g]),
             f[h][j].id = f[g][k].id
      PROVE  h = g /\ j = k
  <2>1. CASE /\ h \in DOMAIN o.batches /\ j \in 1 .. Len(o.batches[h]) /\ f[h][j] = o.batches[h][j]
             /\ g \in DOMAIN o.batches /\ k \in 1 .. Len(o.batches[g]) /\ f[g][k] = o.batches[g][k]
    BY <1>7, <2>1 DEF Divided
  <2>2. CASE /\ h \in DOMAIN o.batches /\ j \in 1 .. Len(o.batches[h]) /\ f[h][j] = o.batches[h][j]
             /\ g = i /\ k = Len(f[i])
    <3>1. f[g][k] = o.batch[last]  BY <1>3, <1>13, <2>2
    <3>2. PICK x \in 1 .. done : o.batches[h][j] = o.batch[x]  BY <1>5, <2>2
    <3>3. o.batch[x].id = o.batch[last].id  BY <1>7, <2>2, <3>1, <3>2
    <3>. QED  BY <1>13, <3>3
  <2>3. CASE /\ g \in DOMAIN o.batches /\ k \in 1 .. Len(o.batches[g]) /\ f[g][k] = o.batches[g][k]
             /\ h = i /\ j = Len(f[i])
    <3>1. f[h][j] = o.batch[last]  BY <1>3, <1>13, <2>3
    <3>2. PICK x \in 1 .. done : o.batches[g][k] = o.batch[x]  BY <1>5, <2>3
    <3>3. o.batch[x].id = o.batch[last].id  BY <1>7, <2>3, <3>1, <3>2
    <3>. QED  BY <1>13, <3>3
  <2>4. CASE h = i /\ j = Len(f[i]) /\ g = i /\ k = Len(f[i])
    BY <2>4
  <2>. QED  BY <1>3, <2>1, <2>2, <2>3, <2>4
<1>8. Divided(q)
  <2>1. ASSUME NEW h \in DOMAIN q.batches, NEW j \in 1 .. Len(q.batches[h])
        PROVE  \E k \in 1 .. Len(q.batch) - Len(q.todo) : q.batches[h][j] = q.batch[k]
    <3>1. h \in DOMAIN f /\ j \in 1 .. Len(f[h]) /\ q.batches[h][j] = f[h][j]  BY <1>1
    <3>2. PICK k \in 1 .. last : f[h][j] = o.batch[k]  BY <1>6, <3>1
    <3>3. k \in 1 .. Len(q.batch) - Len(q.todo)  BY <1>13
    <3>. QED  BY <1>1, <3>1, <3>2, <3>3
  <2>2. \A h, g \in DOMAIN q.batches : \A j \in 1 .. Len(q.batches[h]), k \in 1 .. Len(q.batches[g]) :
            q.batches[h][j].id = q.batches[g][k].id => h = g /\ j = k
    BY <1>1, <1>7
  <2>. QED  BY <2>1, <2>2 DEF Divided
<1>9. \A k \in 1 .. done : Kept(o, k)  BY <1>13 DEF NoneLost, Early
<1>10. ASSUME NEW k \in 1 .. last PROVE Kept(q, k)
  <2>1. CASE k = last
    <3>1. \E j \in 1 .. Len(f[i]) : f[i][j] = o.batch[k]  BY <1>13, <1>3, <2>1
    <3>. QED  BY <1>1, <1>3, <3>1 DEF Kept
  <2>2. CASE k \in 1 .. done
    <3>1. PICK h \in DOMAIN o.batches : \E j \in 1 .. Len(o.batches[h]) : o.batches[h][j] = o.batch[k]
      BY <1>9, <2>2 DEF Kept
    <3>2. PICK j \in 1 .. Len(o.batches[h]) : o.batches[h][j] = o.batch[k]  BY <3>1
    <3>3. h \in DOMAIN f /\ j \in 1 .. Len(f[h]) /\ f[h][j] = o.batch[k]  BY <1>3, <3>2
    <3>. QED  BY <1>1, <3>3 DEF Kept
  <2>. QED  BY <1>4, <2>1, <2>2
<1>11. NoneLost(q, l)  BY <1>13, <1>10 DEF NoneLost
<1>12. ASSUME NEW m \in Held(q) PROVE m \in Held(o)
  <2>1. o.at \notin {"idle", "failed"} /\ q.at \notin {"idle", "failed"}  BY <1>1 DEF Early
  <2>2. o.todo \in Seq(Msg)  BY DEF Sending
  <2>3. /\ Head(o.todo) = o.todo[1] /\ 1 \in 1 .. Len(o.todo)
        /\ \A k \in 1 .. Len(q.todo) : k + 1 \in 1 .. Len(o.todo) /\ q.todo[k] = o.todo[k + 1]
    <3>1. Len(o.todo) \in Nat /\ Len(o.todo) # 0  BY <2>2, EmptySeq
    <3>2. /\ Len(q.todo) = Len(o.todo) - 1
          /\ \A k \in 1 .. Len(q.todo) : q.todo[k] = o.todo[k + 1]
      BY <1>1, <2>2, HeadTailProperties
    <3>3. \A k \in 1 .. Len(q.todo) : k + 1 \in 1 .. Len(o.todo)  BY <3>1, <3>2
    <3>4. Head(o.todo) = o.todo[1]  BY <2>2
    <3>. QED  BY <3>1, <3>2, <3>3, <3>4
  <2>4. CASE \E k \in 1 .. Len(q.todo) : q.todo[k].id = m
    <3>1. PICK k \in 1 .. Len(q.todo) : q.todo[k].id = m  BY <2>4
    <3>2. PICK x \in 1 .. Len(o.todo) : q.todo[k] = o.todo[x]  BY <2>3
    <3>3. o.todo[x].id = m  BY <3>1, <3>2
    <3>. QED  BY <2>1, <3>3, HeldIs
  <2>5. CASE \E h \in DOMAIN f : \E j \in 1 .. Len(f[h]) : f[h][j].id = m
    <3>1. PICK h \in DOMAIN f : \E j \in 1 .. Len(f[h]) : f[h][j].id = m  BY <2>5
    <3>2. PICK j \in 1 .. Len(f[h]) : f[h][j].id = m  BY <3>1
    <3>3. CASE h = i /\ j = Len(f[i])
      <4>1. o.todo[1].id = m  BY <1>3, <2>3, <3>2, <3>3
      <4>. QED  BY <2>1, <2>3, <4>1, HeldIs
    <3>4. CASE h \in DOMAIN o.batches /\ j \in 1 .. Len(o.batches[h]) /\ f[h][j] = o.batches[h][j]
      BY <2>1, <3>2, <3>4, HeldIs
    <3>. QED  BY <1>3, <3>3, <3>4
  <2>6. \/ \E k \in 1 .. Len(q.todo) : q.todo[k].id = m
        \/ \E h \in DOMAIN q.batches : \E j \in 1 .. Len(q.batches[h]) : q.batches[h][j].id = m
    BY <2>1, HeldIs
  <2>. QED  BY <1>1, <2>4, <2>5, <2>6
<1>. QED  BY <1>8, <1>11, <1>12

\* The messages of a batch by partition: held, each once, and those of the caller.
LEMMA BatchIds ==
    ASSUME NEW o \in Sending, o.at = "send", NEW i \in DOMAIN o.batches, Divided(o),
           NEW c, NEW n \in Nat, Divides(o, c, n)
    PROVE  /\ \A j, k \in 1 .. Len(o.batches[i]) : o.batches[i][j].id = o.batches[i][k].id => j = k
           /\ \A j \in 1 .. Len(o.batches[i]) :
                 o.batches[i][j].id \in Held(o) /\ o.batches[i][j].id[1] = c
<1>1. \A j, k \in 1 .. Len(o.batches[i]) : o.batches[i][j].id = o.batches[i][k].id => j = k
  BY DEF Divided
<1>2. ASSUME NEW j \in 1 .. Len(o.batches[i])
      PROVE  o.batches[i][j].id \in Held(o) /\ o.batches[i][j].id[1] = c
  <2>1. o.batches[i][j].id \in Held(o)  BY HeldIs
  <2>2. Len(o.batch) \in Nat /\ Len(o.todo) \in Nat  BY DEF Sending
  <2>3. PICK k \in 1 .. Len(o.batch) - Len(o.todo) : o.batches[i][j] = o.batch[k]  BY DEF Divided
  <2>4. k \in 1 .. Len(o.batch)  BY <2>2, <2>3
  <2>5. o.batch[k].id = <<c, n - Len(o.batch) + k>>  BY <2>4 DEF Divides
  <2>. QED  BY <2>1, <2>3, <2>5
<1>. QED  BY <1>1, <1>2

\* When a batch is appended, its messages are in the log and no longer held.
LEMMA RestsHolds ==
    ASSUME NEW o \in Sending, o.at = "send", o.todo = <<>>, NEW i \in DOMAIN o.batches,
           NEW q, Rests(o, q, i), Divided(o),
           NEW l, NoneLost(o, l), Logs(l), NEW t \in Topics, NEW h \in DOMAIN l[t],
           NEW l2, Grown(l, l2, t, h, o.batches[i]), o.batches[i] \in Seq(Msg)
    PROVE  /\ Divided(q) /\ NoneLost(q, l2) /\ Held(q) \subseteq Held(o)
           /\ \A j \in 1 .. Len(o.batches[i]) : o.batches[i][j].id \notin Held(q)
<1>1. /\ q.at = "send" /\ q.batch = o.batch /\ q.todo = <<>>
      /\ DOMAIN q.batches = DOMAIN o.batches \ {i}
      /\ \A j \in DOMAIN q.batches : q.batches[j] = o.batches[j] /\ j \in DOMAIN o.batches /\ j # i
  BY DEF Rests
<1>2. Divided(q)
  <2>1. \A j \in DOMAIN q.batches : \A k \in 1 .. Len(q.batches[j]) :
            \E x \in 1 .. Len(q.batch) - Len(q.todo) : q.batches[j][k] = q.batch[x]
    BY <1>1 DEF Divided
  <2>2. \A j, g \in DOMAIN q.batches : \A k \in 1 .. Len(q.batches[j]), x \in 1 .. Len(q.batches[g]) :
            q.batches[j][k].id = q.batches[g][x].id => j = g /\ k = x
    BY <1>1 DEF Divided
  <2>. QED  BY <2>1, <2>2 DEF Divided
<1>3. ASSUME NEW k \in 1 .. Len(q.batch) - Len(q.todo)
      PROVE  Kept(q, k) \/ CopiesIn(l2, q.batch[k].id) # {}
  <2>1. k \in 1 .. Len(o.batch) - Len(o.todo)  BY <1>1
  <2>2. CASE CopiesIn(l, o.batch[k].id) # {}
    <3>1. CopiesIn(l, o.batch[k].id) \subseteq CopiesIn(l2, o.batch[k].id)  BY GrownCopies
    <3>. QED  BY <1>1, <2>2, <3>1
  <2>3. CASE Kept(o, k)
    <3>1. PICK g \in DOMAIN o.batches : \E j \in 1 .. Len(o.batches[g]) : o.batches[g][j] = o.batch[k]
      BY <2>3 DEF Kept
    <3>2. PICK j \in 1 .. Len(o.batches[g]) : o.batches[g][j] = o.batch[k]  BY <3>1
    <3>3. CASE g = i
      <4>1. o.batches[i][j].id = o.batch[k].id /\ j \in 1 .. Len(o.batches[i])  BY <3>2, <3>3
      <4>2. PICK m : m = o.batch[k].id  OBVIOUS
      <4>3. \A x \in 1 .. Len(o.batches[i]) : o.batches[i][x].id = m => CopiesIn(l2, m) # {}
        BY GrownCopies
      <4>4. CopiesIn(l2, m) # {}  BY <4>1, <4>2, <4>3
      <4>. QED  BY <1>1, <4>2, <4>4
    <3>4. CASE g # i
      <4>1. g \in DOMAIN q.batches /\ q.batches[g] = o.batches[g]  BY <1>1, <3>4
      <4>. QED  BY <1>1, <3>2, <4>1 DEF Kept
    <3>. QED  BY <3>3, <3>4
  <2>. QED  BY <2>1, <2>2, <2>3 DEF NoneLost
<1>4. NoneLost(q, l2)  BY <1>1, <1>3 DEF NoneLost
<1>5. ASSUME NEW m \in Held(q)
      PROVE  m \in Held(o) /\ \A j \in 1 .. Len(o.batches[i]) : o.batches[i][j].id # m
  <2>1. PICK g \in DOMAIN q.batches : \E j \in 1 .. Len(q.batches[g]) : q.batches[g][j].id = m
    <3>1. ~ \E k \in 1 .. Len(q.todo) : q.todo[k].id = m  BY <1>1
    <3>. QED  BY <1>1, <3>1, HeldIs
  <2>2. PICK j \in 1 .. Len(q.batches[g]) : q.batches[g][j].id = m  BY <2>1
  <2>3. /\ g \in DOMAIN o.batches /\ g # i /\ j \in 1 .. Len(o.batches[g])
        /\ o.batches[g][j].id = m
    BY <1>1, <2>2
  <2>4. m \in Held(o)  BY <2>3, HeldIs
  <2>5. \A k \in 1 .. Len(o.batches[i]) : o.batches[i][k].id # m  BY <2>3 DEF Divided
  <2>. QED  BY <2>4, <2>5
<1>. QED  BY <1>2, <1>4, <1>5

\* What AckedOnce needs: what calls hold, and what was sent and acknowledged.
Delivery == Divisions /\ Tried /\ AckedIn

\* Every message that is in l is in l2.
Wider(l, l2) == \A m : CopiesIn(l, m) \subseteq CopiesIn(l2, m)

\* What a call has lost, it has not with a log that has more.
LEMMA WiderLost ==
    ASSUME NEW o, NEW l, NEW l2, Wider(l, l2), NoneLost(o, l)
    PROVE  NoneLost(o, l2)
<1>. SUFFICES ASSUME NEW k \in 1 .. Len(o.batch) - Len(o.todo)
              PROVE  Kept(o, k) \/ (o.at = "send" /\ CopiesIn(l2, o.batch[k].id) # {})
  BY DEF NoneLost
<1>1. CASE Kept(o, k)  BY <1>1
<1>2. CASE o.at = "send" /\ CopiesIn(l, o.batch[k].id) # {}
  <2>1. CopiesIn(l, o.batch[k].id) \subseteq CopiesIn(l2, o.batch[k].id)  BY DEF Wider
  <2>. QED  BY <1>2, <2>1
<1>. QED  BY <1>1, <1>2 DEF NoneLost

\* An append takes nothing out of the log.
LEMMA GrownWider ==
    ASSUME NEW l, Logs(l), NEW t \in Topics, NEW i \in DOMAIN l[t], NEW s \in Seq(Msg),
           NEW l2, Grown(l, l2, t, i, s)
    PROVE  Wider(l, l2)
<1>1. ASSUME NEW m PROVE CopiesIn(l, m) \subseteq CopiesIn(l2, m)  BY GrownCopies
<1>. QED  BY <1>1 DEF Wider

\* One call turns into q, and the log grows or stays.
LEMMA TurnsDivisions ==
    ASSUME CallsTyped, Divisions, NEW c \in Clients, NEW q, Turns(sending, sending', c, q),
           q = NoSend \/ q \in Sending, Wider(log, log'),
           q.at \notin {"idle", "failed"} => Divided(q) /\ NoneLost(q, log')
    PROVE  Divisions'
<1>1. sending'[c] = q /\ \A d \in Clients : d # c => sending'[d] = sending[d]
  BY TurnsTyped
<1>2. ASSUME NEW d \in Clients, sending'[d].at \notin {"idle", "failed"}
      PROVE  Divided(sending'[d]) /\ NoneLost(sending'[d], log')
  <2>1. CASE d = c  BY <1>1, <1>2, <2>1
  <2>2. CASE d # c
    <3>1. PICK o : o = sending[d] /\ o = sending'[d]  BY <1>1, <2>2
    <3>2. Divided(o) /\ NoneLost(o, log)  BY <1>2, <3>1 DEF Divisions
    <3>3. PICK l : l = log  OBVIOUS
    <3>4. PICK l2 : l2 = log'  OBVIOUS
    <3>5. Wider(l, l2) /\ NoneLost(o, l)  BY <3>2, <3>3, <3>4
    <3>6. NoneLost(o, l2)  BY <3>5, WiderLost
    <3>. QED  BY <3>1, <3>2, <3>4, <3>6
  <2>. QED  BY <2>1, <2>2
<1>. QED  BY <1>2 DEF Divisions

\* The messages of one call, and those of the others.
LEMMA TurnsTried ==
    ASSUME CallsTyped, NEW c \in Clients, NEW q, Turns(sending, sending', c, q),
           q = NoSend \/ q \in Sending,
           \A m \in Ids : m[1] = c => TriedFor(log', q, tries'[m], m),
           \A m \in Ids : m[1] # c => TriedFor(log', sending[m[1]], tries'[m], m)
    PROVE  Tried'
<1>1. sending'[c] = q /\ \A d \in Clients : d # c => sending'[d] = sending[d]
  BY TurnsTyped
<1>2. ASSUME NEW m \in Ids PROVE TriedFor(log', sending'[m[1]], tries'[m], m)
  <2>1. m[1] \in Clients  BY DEF Ids
  <2>2. CASE m[1] = c  BY <1>1, <2>2
  <2>3. CASE m[1] # c
    <3>1. sending'[m[1]] = sending[m[1]]  BY <1>1, <2>1, <2>3
    <3>. QED  BY <2>3, <3>1
  <2>. QED  BY <2>2, <2>3
<1>. QED  BY <1>2 DEF Tried

\* A call that holds less, and a message that was tried more often.
LEMMA TriedLess ==
    ASSUME NEW l, NEW o, NEW q, NEW m, NEW n \in Nat, NEW k \in Nat, TriedFor(l, o, n, m),
           n <= k, m \in Held(q) => m \in Held(o) \/ n + 1 <= k
    PROVE  TriedFor(l, q, k, m)
<1>1. IsFiniteSet(CopiesIn(l, m))  BY DEF TriedFor
<1>2. PICK a \in Nat : a = Cardinality(CopiesIn(l, m))  BY <1>1, FS_CardinalityType
<1>3. PICK x \in {0, 1} : x = IF m \in Held(o) THEN 1 ELSE 0  OBVIOUS
<1>4. PICK y \in {0, 1} : y = IF m \in Held(q) THEN 1 ELSE 0  OBVIOUS
<1>5. a + x <= n  BY <1>2, <1>3 DEF TriedFor
<1>6. y <= x \/ n + 1 <= k  BY <1>3, <1>4
<1>7. a + y <= k
  BY ONLY <1>5, <1>6, n <= k, a \in Nat, x \in {0, 1}, y \in {0, 1}, n \in Nat, k \in Nat
<1>. QED  BY <1>1, <1>2, <1>4, <1>7 DEF TriedFor

\* A message that the call held is appended once and no longer held.
LEMMA TriedSent ==
    ASSUME NEW l, Logs(l), NEW t \in Topics, NEW i \in DOMAIN l[t], NEW s \in Seq(Msg),
           NEW l2, Grown(l, l2, t, i, s),
           \A j, k \in 1 .. Len(s) : s[j].id = s[k].id => j = k,
           NEW o, NEW q, NEW m, NEW n \in Nat, TriedFor(l, o, n, m), Held(q) \subseteq Held(o),
           \A k \in 1 .. Len(s) : s[k].id = m => m \in Held(o) /\ m \notin Held(q)
    PROVE  TriedFor(l2, q, n, m)
<1>1. CASE \A k \in 1 .. Len(s) : s[k].id # m
  <2>1. CopiesIn(l2, m) = CopiesIn(l, m)  BY <1>1, NoNewCopy
  <2>2. TriedFor(l2, o, n, m)  BY <2>1 DEF TriedFor
  <2>3. n <= n  OBVIOUS
  <2>. QED  BY <2>2, <2>3, TriedLess
<1>2. CASE \E k \in 1 .. Len(s) : s[k].id = m
  <2>1. m \in Held(o) /\ m \notin Held(q)  BY <1>2
  <2>2. IsFiniteSet(CopiesIn(l, m)) /\ Cardinality(CopiesIn(l, m)) + 1 <= n
    BY <2>1 DEF TriedFor
  <2>3. \A j, k \in 1 .. Len(s) : s[j].id = m /\ s[k].id = m => j = k  OBVIOUS
  <2>4. /\ IsFiniteSet(CopiesIn(l2, m))
        /\ Cardinality(CopiesIn(l2, m)) <= Cardinality(CopiesIn(l, m)) + 1
    BY <2>2, <2>3, OneNewCopy
  <2>5. PICK a \in Nat : a = Cardinality(CopiesIn(l, m))  BY <2>2, FS_CardinalityType
  <2>6. PICK b \in Nat : b = Cardinality(CopiesIn(l2, m))  BY <2>4, FS_CardinalityType
  <2>7. b + 0 <= n  BY <2>2, <2>4, <2>5, <2>6
  <2>. QED  BY <2>1, <2>4, <2>6, <2>7 DEF TriedFor
<1>. QED  BY <1>1, <1>2

\* When the last batch is appended, every message of the call is in the log.
LEMMA LastHolds ==
    ASSUME NEW o \in Sending, o.at = "send", o.todo = <<>>, NEW i, DOMAIN o.batches = {i},
           NEW l, NoneLost(o, l), Logs(l), NEW t \in Topics, NEW h \in DOMAIN l[t],
           NEW l2, Grown(l, l2, t, h, o.batches[i]), o.batches[i] \in Seq(Msg),
           NEW k \in DOMAIN o.batch
    PROVE  CopiesIn(l2, o.batch[k].id) # {}
<1>1. o.batch \in Seq(Msg)  BY DEF Sending
<1>2. Len(o.batch) \in Nat /\ Len(o.todo) = 0 /\ DOMAIN o.batch = 1 .. Len(o.batch)  BY <1>1
<1>3. Len(o.batch) - Len(o.todo) = Len(o.batch)  BY <1>2
<1>4. k \in 1 .. Len(o.batch) - Len(o.todo)  BY <1>2, <1>3
<1>5. PICK m : m = o.batch[k].id  OBVIOUS
<1>6. CASE CopiesIn(l, m) # {}
  <2>1. CopiesIn(l, m) \subseteq CopiesIn(l2, m)  BY GrownCopies
  <2>. QED  BY <1>5, <1>6, <2>1
<1>7. CASE Kept(o, k)
  <2>1. PICK j \in 1 .. Len(o.batches[i]) : o.batches[i][j] = o.batch[k]  BY <1>7 DEF Kept
  <2>2. o.batches[i][j].id = m  BY <1>5, <2>1
  <2>3. \A x \in 1 .. Len(o.batches[i]) : o.batches[i][x].id = m => CopiesIn(l2, m) # {}
    BY GrownCopies
  <2>. QED  BY <1>5, <2>2, <2>3
<1>. QED  BY <1>4, <1>5, <1>6, <1>7 DEF NoneLost

\* A failed call, and none, hold nothing.
LEMMA NothingHeld ==
    ASSUME NEW q, q.at \in {"idle", "failed"}
    PROVE  Held(q) = {}
BY DEF Held

\* A call that holds no more than before, and nothing else.
LEMMA TurnsDelivers ==
    ASSUME SendInv, Delivery, NEW c \in Clients, NEW q, Turns(sending, sending', c, q),
           q = NoSend \/ q \in Sending, UNCHANGED <<log, tries, acked>>,
           q.at \notin {"idle", "failed"} => Divided(q) /\ NoneLost(q, log),
           Held(q) \subseteq Held(sending[c])
    PROVE  Delivery'
<1>1. CallsTyped /\ NotedTyped  BY SendTypesIs DEF SendInv
<1>2. Wider(log, log')  BY DEF Wider
<1>3. Divisions'  BY <1>1, <1>2, TurnsDivisions DEF Delivery
<1>4. ASSUME NEW m \in Ids PROVE TriedFor(log, sending[m[1]], tries[m], m) /\ tries[m] \in Nat
  BY <1>1 DEF Delivery, Tried, NotedTyped
<1>5. ASSUME NEW m \in Ids, m[1] = c PROVE TriedFor(log', q, tries'[m], m)
  <2>1. PICK l : l = log  OBVIOUS
  <2>2. PICK n \in Nat : n = tries[m]  BY <1>4
  <2>3. PICK o : o = sending[c]  OBVIOUS
  <2>4. TriedFor(l, o, n, m) /\ n <= n /\ Held(q) \subseteq Held(o)  BY <1>4, <1>5, <2>1, <2>2, <2>3
  <2>5. TriedFor(l, q, n, m)  BY <2>4, TriedLess
  <2>. QED  BY <2>1, <2>2, <2>5
<1>6. \A m \in Ids : m[1] # c => TriedFor(log', sending[m[1]], tries'[m], m)  BY <1>4
<1>7. Tried'  BY <1>1, <1>5, <1>6, TurnsTried
<1>8. AckedIn'  BY DEF Delivery, AckedIn
<1>. QED  BY <1>3, <1>7, <1>8 DEF Delivery

\* A call that starts has each of its messages tried once more.
LEMMA StartDelivers ==
    ASSUME SendInv, Delivery, NEW c \in Clients, NEW t \in Topics, NEW batch \in Seq(Msg),
           Start(c, t, batch), UNCHANGED <<log, acked>>
    PROVE  Delivery'
<1>1. CallsTyped /\ NotedTyped /\ SendTypes  BY SendTypesIs DEF SendInv
<1>2. PICK q \in Sending : Fresh(q, t, batch) /\ Turns(sending, sending', c, q)
  BY <1>1, StartDoes
<1>3. Wider(log, log')  BY DEF Wider
<1>4. Divided(q) /\ NoneLost(q, log')
  <2>1. PICK l : l = log'  OBVIOUS
  <2>2. Divided(q) /\ NoneLost(q, l)  BY <1>2, FreshHolds
  <2>. QED  BY <2>1, <2>2
<1>5. Divisions'  BY <1>1, <1>2, <1>3, <1>4, TurnsDivisions DEF Delivery
<1>6. Held(q) \subseteq {batch[k].id : k \in 1 .. Len(batch)}  BY <1>2, FreshHolds
<1>7. ASSUME NEW m \in Ids
      PROVE  /\ TriedFor(log, sending[m[1]], tries[m], m) /\ tries[m] \in Nat
             /\ tries'[m] \in Nat /\ tries[m] <= tries'[m]
             /\ m \in Held(q) => tries[m] + 1 <= tries'[m]
  <2>1. TriedFor(log, sending[m[1]], tries[m], m) /\ tries[m] \in Nat
    BY <1>1 DEF Delivery, Tried, NotedTyped
  <2>2. tries'[m] = IF \E i \in DOMAIN batch : batch[i].id = m THEN tries[m] + 1 ELSE tries[m]
    BY DEF Start
  <2>3. m \in Held(q) => \E i \in DOMAIN batch : batch[i].id = m  BY <1>6
  <2>. QED  BY <2>1, <2>2, <2>3
<1>8. ASSUME NEW m \in Ids, NEW p, Held(p) \subseteq Held(sending[m[1]]) \/ p = q
      PROVE  TriedFor(log', p, tries'[m], m)
  <2>1. PICK l : l = log  OBVIOUS
  <2>2. PICK n \in Nat : n = tries[m]  BY <1>7
  <2>3. PICK k \in Nat : k = tries'[m]  BY <1>7
  <2>4. PICK o : o = sending[m[1]]  OBVIOUS
  <2>5. TriedFor(l, o, n, m) /\ n <= k  BY <1>7, <2>1, <2>2, <2>3, <2>4
  <2>6. m \in Held(p) => m \in Held(o) \/ n + 1 <= k  BY <1>7, <1>8, <2>2, <2>3, <2>4
  <2>7. TriedFor(l, p, k, m)  BY <2>5, <2>6, TriedLess
  <2>. QED  BY <2>1, <2>3, <2>7
<1>9. \A m \in Ids : m[1] = c => TriedFor(log', q, tries'[m], m)  BY <1>8
<1>10. \A m \in Ids : m[1] # c => TriedFor(log', sending[m[1]], tries'[m], m)  BY <1>8
<1>11. Tried'  BY <1>1, <1>2, <1>9, <1>10, TurnsTried
<1>12. AckedIn'  BY DEF Delivery, AckedIn
<1>. QED  BY <1>5, <1>11, <1>12 DEF Delivery

\* Messages that the call of c held are appended, each once, and no longer held.
LEMMA AppendTried ==
    ASSUME SendInv, Delivery, NEW c \in Clients, NEW q, Turns(sending, sending', c, q),
           q = NoSend \/ q \in Sending, tries' = tries, Held(q) \subseteq Held(sending[c]),
           NEW t \in Topics, NEW i \in DOMAIN log[t], NEW s \in Seq(Msg), Grown(log, log', t, i, s),
           \A j, k \in 1 .. Len(s) : s[j].id = s[k].id => j = k,
           \A k \in 1 .. Len(s) :
               /\ s[k].id \in Held(sending[c]) /\ s[k].id \notin Held(q)
               /\ s[k].id[1] = c
    PROVE  Tried'
<1>1. CallsTyped /\ NotedTyped /\ LogTyped  BY SendTypesIs DEF SendInv
<1>2. PICK l : l = log  OBVIOUS
<1>3. PICK l2 : l2 = log'  OBVIOUS
<1>4. Logs(l) /\ i \in DOMAIN l[t] /\ Grown(l, l2, t, i, s)  BY <1>1, <1>2, <1>3 DEF LogTyped, Logs
<1>5. ASSUME NEW m \in Ids PROVE TriedFor(l, sending[m[1]], tries[m], m) /\ tries[m] \in Nat
  BY <1>1, <1>2 DEF Delivery, Tried, NotedTyped
<1>6. ASSUME NEW m \in Ids, m[1] = c PROVE TriedFor(log', q, tries'[m], m)
  <2>1. PICK n \in Nat : n = tries[m]  BY <1>5
  <2>2. PICK o : o = sending[c]  OBVIOUS
  <2>3. TriedFor(l, o, n, m) /\ Held(q) \subseteq Held(o)  BY <1>5, <1>6, <2>1, <2>2
  <2>4. \A k \in 1 .. Len(s) : s[k].id = m => m \in Held(o) /\ m \notin Held(q)  BY <2>2
  <2>5. TriedFor(l2, q, n, m)  BY <1>4, <2>3, <2>4, TriedSent
  <2>. QED  BY <1>3, <2>1, <2>5
<1>7. ASSUME NEW m \in Ids, m[1] # c PROVE TriedFor(log', sending[m[1]], tries'[m], m)
  <2>1. \A k \in 1 .. Len(s) : s[k].id # m  BY <1>7
  <2>2. CopiesIn(l2, m) = CopiesIn(l, m)  BY <1>4, <2>1, NoNewCopy
  <2>. QED  BY <1>3, <1>5, <2>2 DEF TriedFor
<1>. QED  BY <1>1, <1>6, <1>7, TurnsTried

\* The acknowledged messages stay, and those of a call that is acknowledged are in.
LEMMA WiderAcked ==
    ASSUME Delivery, Wider(log, log'), NEW A, acked' = acked \cup A,
           \A m \in A : CopiesIn(log', m) # {}
    PROVE  AckedIn'
<1>1. ASSUME NEW m \in acked PROVE CopiesIn(log', m) # {}
  <2>1. CopiesIn(log, m) # {}  BY DEF Delivery, AckedIn
  <2>2. CopiesIn(log, m) \subseteq CopiesIn(log', m)  BY DEF Wider
  <2>. QED  BY <2>1, <2>2
<1>. QED  BY <1>1 DEF AckedIn

\* send_batch_auto sends a batch, or the last one.
LEMMA SendDelivers ==
    ASSUME SendInv, Delivery, NEW c \in Clients, NEW i \in Places, Send(c, i)
    PROVE  Delivery'
<1>0. CallsTyped /\ NotedTyped /\ LogTyped /\ SendTypes  BY SendTypesIs DEF SendInv
<1>1. PICK o \in Sending : o = sending[c]  BY <1>0, SendsTo DEF Send
<1>2. /\ o.at = "send" /\ o.topic \in Topics /\ o.batches[i] \in Seq(Msg) /\ i \in DOMAIN o.batches
      /\ i \in DOMAIN log[o.topic] /\ Grown(log, log', o.topic, i, o.batches[i])
  BY <1>0, <1>1, SendsTo, SendDoes DEF Send
<1>3. Divides(o, c, made[c]) /\ o.todo = <<>> /\ made[c] \in Nat
  <2>1. Divides(o, c, made[c])  BY <1>1, <1>2, CallNumbers
  <2>2. o.todo = <<>>  BY <1>2, <2>1 DEF Divides
  <2>3. made[c] \in Nat  BY <1>0, ProducersAssumption DEF NotedTyped
  <2>. QED  BY <2>1, <2>2, <2>3
<1>4. Divided(o) /\ NoneLost(o, log)  BY <1>1, <1>2 DEF Delivery, Divisions
<1>5. PICK t \in Topics : t = o.topic  BY <1>2
<1>6. PICK s \in Seq(Msg) : s = o.batches[i]  BY <1>2
<1>7. PICK l : l = log  OBVIOUS
<1>8. PICK l2 : l2 = log'  OBVIOUS
<1>9. /\ Logs(l) /\ i \in DOMAIN l[t] /\ Grown(l, l2, t, i, o.batches[i]) /\ Grown(l, l2, t, i, s)
      /\ NoneLost(o, l) /\ Grown(log, log', t, i, s) /\ i \in DOMAIN log[t]
  BY <1>0, <1>2, <1>4, <1>5, <1>6, <1>7, <1>8 DEF LogTyped, Logs
<1>10. Wider(log, log')  BY <1>7, <1>8, <1>9, GrownWider
<1>11. /\ \A j, k \in 1 .. Len(s) : s[j].id = s[k].id => j = k
       /\ \A k \in 1 .. Len(s) : s[k].id \in Held(sending[c]) /\ s[k].id[1] = c
  <2>1. PICK n \in Nat : n = made[c]  BY <1>3
  <2>2. Divides(o, c, n)  BY <1>3, <2>1
  <2>. QED  BY <1>1, <1>2, <1>4, <1>6, <2>2, BatchIds
<1>12. tries' = tries  BY DEF Send
<1>13. CASE /\ DOMAIN o.batches = {i} /\ Turns(sending, sending', c, NoSend)
            /\ acked' = acked \cup {o.batch[k].id : k \in DOMAIN o.batch}
  <2>1. Held(NoSend) = {} /\ NoSend.at = "idle"  BY NothingHeld DEF NoSend
  <2>2. Divisions'  BY <1>0, <1>10, <1>13, <2>1, TurnsDivisions DEF Delivery
  <2>3. Tried'  BY <1>9, <1>11, <1>12, <1>13, <2>1, AppendTried
  <2>4. \A k \in DOMAIN o.batch : CopiesIn(l2, o.batch[k].id) # {}
    BY <1>2, <1>3, <1>9, <1>13, LastHolds
  <2>5. PICK A : A = {o.batch[k].id : k \in DOMAIN o.batch}  OBVIOUS
  <2>6. acked' = acked \cup A /\ \A m \in A : CopiesIn(log', m) # {}  BY <1>8, <1>13, <2>4, <2>5
  <2>7. AckedIn'  BY <1>10, <2>6, WiderAcked
  <2>. QED  BY <2>2, <2>3, <2>7 DEF Delivery
<1>14. CASE /\ acked' = acked
            /\ \E q \in Sending : Rests(o, q, i) /\ Turns(sending, sending', c, q)
  <2>1. PICK q \in Sending : Rests(o, q, i) /\ Turns(sending, sending', c, q)  BY <1>14
  <2>2. /\ Divided(q) /\ NoneLost(q, l2) /\ Held(q) \subseteq Held(o)
        /\ \A j \in 1 .. Len(o.batches[i]) : o.batches[i][j].id \notin Held(q)
    BY <1>2, <1>3, <1>4, <1>9, <2>1, RestsHolds
  <2>3. Divisions'  BY <1>0, <1>8, <1>10, <2>1, <2>2, TurnsDivisions DEF Delivery
  <2>4. \A k \in 1 .. Len(s) :
            s[k].id \in Held(sending[c]) /\ s[k].id \notin Held(q) /\ s[k].id[1] = c
    BY <1>6, <1>11, <2>2
  <2>5. Tried'  BY <1>1, <1>9, <1>11, <1>12, <2>1, <2>2, <2>4, AppendTried
  <2>6. acked' = acked \cup {}  BY <1>14
  <2>7. AckedIn'  BY <1>10, <2>6, WiderAcked
  <2>. QED  BY <2>3, <2>5, <2>7 DEF Delivery
<1>. QED  BY <1>0, <1>1, <1>13, <1>14, SendDoes

\* A send fails with a part of the batch appended.
LEMMA SendFailsDelivers ==
    ASSUME SendInv, Delivery, NEW c \in Clients, NEW i \in Places, NEW n \in Nat,
           SendFails(c, i, n)
    PROVE  Delivery'
<1>0. CallsTyped /\ NotedTyped /\ LogTyped /\ SendTypes  BY SendTypesIs DEF SendInv
<1>1. PICK o \in Sending : o = sending[c]  BY <1>0, SendsTo DEF SendFails
<1>2. /\ o.at = "send" /\ o.topic \in Topics /\ o.batches[i] \in Seq(Msg) /\ i \in DOMAIN o.batches
  BY <1>0, <1>1, SendsTo DEF SendFails
<1>3. PICK q \in Sending : q.at = "failed" /\ Turns(sending, sending', c, q)
  BY <1>0, SendFailsDoes
<1>4. Held(q) = {} /\ q.at \in {"idle", "failed"}  BY <1>3, NothingHeld
<1>5. UNCHANGED <<tries, acked>>  BY DEF SendFails
<1>6. CASE log' = log
  BY <1>3, <1>4, <1>5, <1>6, TurnsDelivers
<1>7. CASE /\ i \in DOMAIN log[o.topic]
           /\ \E s : Part(s, o.batches[i]) /\ Grown(log, log', o.topic, i, s)
  <2>1. PICK t \in Topics : t = o.topic  BY <1>2
  <2>2. PICK s : Part(s, o.batches[i]) /\ Grown(log, log', t, i, s)  BY <1>7, <2>1
  <2>3. s \in Seq(Msg) /\ i \in DOMAIN log[t]  BY <1>7, <2>1, <2>2 DEF Part
  <2>4. PICK l : l = log  OBVIOUS
  <2>5. PICK l2 : l2 = log'  OBVIOUS
  <2>6. Logs(l) /\ i \in DOMAIN l[t] /\ Grown(l, l2, t, i, s)
    BY <1>0, <2>2, <2>3, <2>4, <2>5 DEF LogTyped, Logs
  <2>7. Wider(log, log')  BY <2>3, <2>4, <2>5, <2>6, GrownWider
  <2>8. /\ \A j, k \in 1 .. Len(s) : s[j].id = s[k].id => j = k
        /\ \A k \in 1 .. Len(s) : s[k].id \in Held(sending[c]) /\ s[k].id[1] = c
    <3>1. Divides(o, c, made[c]) /\ made[c] \in Nat
      <4>1. Divides(o, c, made[c])  BY <1>1, <1>2, CallNumbers
      <4>. QED  BY <1>0, <4>1, ProducersAssumption DEF NotedTyped
    <3>2. PICK x \in Nat : x = made[c]  BY <3>1
    <3>3. Divides(o, c, x)  BY <3>1, <3>2
    <3>4. Divided(o)  BY <1>1, <1>2 DEF Delivery, Divisions
    <3>5. /\ \A j, k \in 1 .. Len(o.batches[i]) : o.batches[i][j].id = o.batches[i][k].id => j = k
          /\ \A j \in 1 .. Len(o.batches[i]) :
                o.batches[i][j].id \in Held(o) /\ o.batches[i][j].id[1] = c
      BY <1>2, <3>3, <3>4, BatchIds
    <3>6. \A k \in 1 .. Len(s) : k \in 1 .. Len(o.batches[i]) /\ s[k] = o.batches[i][k]
      <4>1. Len(s) \in Nat /\ Len(o.batches[i]) \in Nat /\ Len(s) <= Len(o.batches[i])
        BY <1>2, <2>2, <2>3 DEF Part
      <4>. QED  BY <2>2, <4>1 DEF Part
    <3>. QED  BY <1>1, <3>5, <3>6
  <2>9. Tried'  BY <1>3, <1>4, <1>5, <2>2, <2>3, <2>8, AppendTried
  <2>10. Divisions'  BY <1>0, <1>3, <1>4, <2>7, TurnsDivisions DEF Delivery
  <2>11. acked' = acked \cup {}  BY <1>5
  <2>12. AckedIn'  BY <2>7, <2>11, WiderAcked
  <2>. QED  BY <2>9, <2>10, <2>12 DEF Delivery
<1>. QED  BY <1>0, <1>1, <1>6, <1>7, SendFailsDoes

\* At first nothing is sent.
LEMMA DeliveryInit == ASSUME ProducersInit PROVE Delivery
<1>1. \A c \in Clients : sending[c].at = "idle"  BY DEF ProducersInit, NoSend
<1>2. Divisions  BY <1>1 DEF Divisions
<1>3. AckedIn  BY DEF ProducersInit, AckedIn
<1>4. ASSUME NEW m \in Ids PROVE TriedFor(log, sending[m[1]], tries[m], m)
  <2>1. m[1] \in Clients /\ tries[m] = 0  BY DEF ProducersInit, Ids
  <2>2. Held(sending[m[1]]) = {}  BY <1>1, <2>1, NothingHeld
  <2>3. CopiesIn(log, m) = {}
    <3>1. \A t \in Topics : log[t] = [i \in 0 .. CountOf[t] - 1 |-> <<>>]  BY DEF ProducersInit
    <3>2. ASSUME NEW t \in Topics, NEW i \in DOMAIN log[t] PROVE DOMAIN log[t][i] = {}
      <4>1. log[t][i] = <<>>  BY <3>1
      <4>2. DOMAIN <<>> = {}  OBVIOUS
      <4>. QED  BY <4>1, <4>2
    <3>. QED  BY <3>2 DEF CopiesIn
  <2>4. IsFiniteSet({}) /\ Cardinality({}) = 0  BY FS_EmptySet
  <2>. QED  BY <2>1, <2>2, <2>3, <2>4 DEF TriedFor
<1>. QED  BY <1>2, <1>3, <1>4 DEF Delivery, Tried

\* Every step keeps it.
LEMMA DeliveryStep ==
    ASSUME SendInv, Delivery, [ProducersNext]_producerVars
    PROVE  Delivery'
<1>1. SendTypes  BY DEF SendInv
<1>2. ASSUME UNCHANGED <<log, sending, tries, acked>> PROVE Delivery'
  BY <1>2 DEF Delivery, Divisions, Tried, AckedIn
<1>3. ASSUME NEW c \in Clients, NEW t \in Topics, NEW ks \in Batches, SendBatch(c, t, ks)
      PROVE  Delivery'
  <2>1. PICK batch \in Seq(Msg) : Start(c, t, batch)  BY <1>1, <1>3, SendBatchDoes
  <2>2. UNCHANGED <<log, acked>>  BY <1>3 DEF SendBatch
  <2>. QED  BY <2>1, <2>2, StartDelivers
<1>4. ASSUME NEW c \in Clients, Retry(c) PROVE Delivery'
  <2>1. sending[c] \in Sending /\ Start(c, sending[c].topic, sending[c].batch)
    BY <1>1, <1>4, RetryDoes
  <2>2. sending[c].topic \in Topics /\ sending[c].batch \in Seq(Msg)  BY <2>1 DEF Sending
  <2>3. UNCHANGED <<log, acked>>  BY <1>4 DEF Retry
  <2>. QED  BY <2>1, <2>2, <2>3, StartDelivers
<1>5. ASSUME NEW c \in Clients, GiveUp(c) PROVE Delivery'
  <2>1. Turns(sending, sending', c, NoSend)  BY <1>5 DEF GiveUp, Turns
  <2>2. UNCHANGED <<log, tries, acked>>  BY <1>5 DEF GiveUp
  <2>3. Held(NoSend) = {} /\ NoSend.at = "idle"  BY NothingHeld DEF NoSend
  <2>. QED  BY <2>1, <2>2, <2>3, TurnsDelivers
<1>6. ASSUME NEW c \in Clients,
             \/ Refresh(c) \/ RefreshFails(c)
             \/ StickyCount(c) \/ StickyLoad(c) \/ StickyStore(c)
      PROVE  Delivery'
  <2>1. PICK q \in Sending : Moves(sending[c], q) /\ Turns(sending, sending', c, q)
    BY <1>1, <1>6, MoveDoes
  <2>2. UNCHANGED <<log, tries, acked>>
    BY <1>6 DEF Refresh, RefreshFails, StickyCount, StickyLoad, StickyStore
  <2>3. PICK o : o = sending[c]  OBVIOUS
  <2>4. PICK l : l = log  OBVIOUS
  <2>5. o.at \in Early  BY <2>1, <2>3 DEF Moves
  <2>6. Divided(o) /\ NoneLost(o, l)  BY <2>3, <2>4, <2>5 DEF Delivery, Divisions, Early
  <2>7. Divided(q) /\ NoneLost(q, l) /\ Held(q) \subseteq Held(o)  BY <2>1, <2>3, <2>6, MoveHolds
  <2>. QED  BY <2>1, <2>2, <2>3, <2>4, <2>7, TurnsDelivers
<1>7. ASSUME NEW c \in Clients,
             PartitionNone(c) \/ PartitionRound(c) \/ PartitionKey(c) \/ StickyRead(c)
      PROVE  Delivery'
  <2>1. PICK o \in Sending : o = sending[c]  BY <1>7, ChoiceDoes
  <2>2. o.at \in {"partition", "read"} /\ o.todo # <<>>  BY <1>7, <2>1, ChoiceDoes
  <2>3. PICK i \in Places : Choose(c, i)  BY <1>7, ChoiceDoes
  <2>4. i \in Nat  BY PlacesAre
  <2>5. PICK q : Chosen(o, q, i) /\ Turns(sending, sending', c, q)
    BY <1>1, <2>1, <2>3, ChooseDoes
  <2>6. q \in Sending  BY <2>2, <2>4, <2>5, ChosenType
  <2>7. UNCHANGED <<log, tries, acked>>
    BY <1>7 DEF PartitionNone, PartitionRound, PartitionKey, StickyRead
  <2>8. PICK l : l = log  OBVIOUS
  <2>9. Divided(o) /\ NoneLost(o, l) /\ o.at \in Early
    BY <2>1, <2>2, <2>8 DEF Delivery, Divisions, Early
  <2>10. PICK n \in Nat : n = made[c]
    BY <1>1, ProducersAssumption DEF SendTypes
  <2>11. Divides(o, c, n)  BY <2>1, <2>2, <2>10, CallNumbers
  <2>12. Divided(q) /\ NoneLost(q, l) /\ Held(q) \subseteq Held(o)
    BY <2>2, <2>4, <2>5, <2>9, <2>11, ChosenHolds
  <2>. QED  BY <2>1, <2>5, <2>6, <2>7, <2>8, <2>12, TurnsDelivers
<1>8. ASSUME NEW c \in Clients, NEW i \in Places, Send(c, i) PROVE Delivery'
  BY <1>8, SendDelivers
<1>9. ASSUME NEW c \in Clients, NEW i \in Places, NEW n \in 0 .. MaxMessages, SendFails(c, i, n)
      PROVE  Delivery'
  <2>1. n \in Nat  BY ProducersAssumption
  <2>. QED  BY <1>9, <2>1, SendFailsDelivers
<1>10. ASSUME NEW c \in Clients, GetMetadata(c) \/ \E t \in Topics : CreateTopic(c, t)
       PROVE  Delivery'
  BY <1>2, <1>10 DEF GetMetadata, CreateTopic
<1>11. CASE UNCHANGED producerVars  BY <1>2, <1>11 DEF producerVars
<1>12. CASE ProducersNext
  BY <1>3, <1>4, <1>5, <1>6, <1>7, <1>8, <1>9, <1>10, <1>12 DEF ProducersNext
<1>. QED  BY <1>11, <1>12

\* What Delivery promises.
LEMMA DeliveryAcked == ASSUME SendInv, Delivery PROVE AckedOnce
<1>. SUFFICES ASSUME NEW m \in Ids
              PROVE  /\ m \in acked => Copies(m) # {}
                     /\ Cardinality(Copies(m)) <= tries[m]
  BY DEF AckedOnce
<1>1. Copies(m) = CopiesIn(log, m)  BY CopiesAre
<1>2. TriedFor(log, sending[m[1]], tries[m], m)  BY DEF Delivery, Tried
<1>3. PICK n \in Nat : n = tries[m]  BY DEF SendInv, SendTypes
<1>4. IsFiniteSet(CopiesIn(log, m))  BY <1>2 DEF TriedFor
<1>5. PICK a \in Nat : a = Cardinality(CopiesIn(log, m))  BY <1>4, FS_CardinalityType
<1>6. PICK x \in {0, 1} : x = IF m \in Held(sending[m[1]]) THEN 1 ELSE 0  OBVIOUS
<1>7. a + x <= n  BY <1>2, <1>3, <1>5, <1>6 DEF TriedFor
<1>8. a <= n  BY ONLY <1>7, a \in Nat, n \in Nat, x \in {0, 1}
<1>9. m \in acked => CopiesIn(log, m) # {}  BY DEF Delivery, AckedIn
<1>. QED  BY <1>1, <1>3, <1>5, <1>8, <1>9

\* For any producers, topics, partition counts and batches: a message of a call
\* that returned Ok is in the log, and no message is there more often than calls of
\* the application had it, whatever part of a batch a failed send appended.
THEOREM AcknowledgedOnce == ProducersSpec => []AckedOnce
<1>1. ProducersInit => Delivery  BY DeliveryInit
<1>2. SendInv /\ Delivery /\ [ProducersNext]_producerVars => Delivery'  BY DeliveryStep
<1>3. SendInv /\ Delivery => AckedOnce  BY DeliveryAcked
<1>. QED  BY <1>1, <1>2, <1>3, SendInvariance, PTL DEF ProducersSpec

-----------------------------------------------------------------------------
(* Messages with one key keep their order: the invariant Ordered.          *)

\* Messages of the call o, in the order of its batch, to append to partition i.
Sent(s, o, i) ==
    \A k \in 1 .. Len(s) :
        /\ i = PlaceOf(o.topic, s[k].key)
        /\ \E x \in 1 .. Len(o.batch) :
              /\ s[k] = o.batch[x]
              /\ \A h \in 1 .. x - 1 : o.batch[h].key = o.batch[x].key =>
                    \E g \in 1 .. k - 1 : s[g] = o.batch[h]

\* A part of a batch is such messages.
LEMMA PartSent ==
    ASSUME NEW o \in Sending, NEW i \in DOMAIN o.batches, Divided(o), Follows(o), NEW s,
           o.batches[i] \in Seq(Msg), Part(s, o.batches[i])
    PROVE  Sent(s, o, i)
<1>1. Len(s) \in Nat /\ Len(o.batches[i]) \in Nat /\ Len(s) <= Len(o.batches[i])
      /\ \A k \in 1 .. Len(s) : s[k] = o.batches[i][k]
  BY DEF Part
<1>2. Len(o.batch) \in Nat /\ Len(o.todo) \in Nat  BY DEF Sending
<1>. SUFFICES ASSUME NEW k \in 1 .. Len(s)
              PROVE  /\ i = PlaceOf(o.topic, s[k].key)
                     /\ \E x \in 1 .. Len(o.batch) :
                           /\ s[k] = o.batch[x]
                           /\ \A h \in 1 .. x - 1 : o.batch[h].key = o.batch[x].key =>
                                 \E g \in 1 .. k - 1 : s[g] = o.batch[h]
  BY DEF Sent
<1>3. k \in 1 .. Len(o.batches[i]) /\ s[k] = o.batches[i][k]  BY <1>1
<1>4. i = PlaceOf(o.topic, s[k].key) /\ Behind(o, i, k)  BY <1>3 DEF Follows
<1>5. PICK x \in 1 .. Len(o.batch) - Len(o.todo) : o.batches[i][k] = o.batch[x]  BY <1>3 DEF Divided
<1>6. x \in 1 .. Len(o.batch)  BY <1>2
<1>7. ASSUME NEW h \in 1 .. x - 1, o.batch[h].key = o.batch[x].key
      PROVE  \E g \in 1 .. k - 1 : s[g] = o.batch[h]
  <2>1. h \in 1 .. Len(o.batch) /\ h < x  BY <1>2, <1>6
  <2>2. PICK g \in 1 .. k - 1 : o.batches[i][g] = o.batch[h]  BY <1>4, <1>5, <1>6, <1>7, <2>1 DEF Behind
  <2>3. g \in 1 .. Len(s)  BY <1>1
  <2>. QED  BY <1>1, <2>2, <2>3
<1>. QED  BY <1>3, <1>4, <1>5, <1>6, <1>7

\* The message x of c has a number of the call o, when n messages are made.
Recent(x, o, c, n) == x.id[1] = c /\ x.id[2] > n - Len(o.batch) /\ x.id[2] <= n

\* The numbers of the messages of a batch.
LEMMA BatchNumbers ==
    ASSUME NEW o \in Sending, NEW c, NEW n \in Nat, Divides(o, c, n), NEW k \in 1 .. Len(o.batch)
    PROVE  Recent(o.batch[k], o, c, n)
<1>1. o.batch[k].id = <<c, n - Len(o.batch) + k>>  BY DEF Divides
<1>2. PICK b \in Nat : b = Len(o.batch)  BY DEF Sending
<1>3. k \in 1 .. b  BY <1>2
<1>4. PICK x \in Int : x = n - b + k  OBVIOUS
<1>5. x > n - b /\ x <= n  BY ONLY n \in Nat, b \in Nat, <1>3, <1>4
<1>6. o.batch[k].id[1] = c /\ o.batch[k].id[2] = x  BY <1>1, <1>2, <1>4
<1>. QED  BY <1>2, <1>5, <1>6 DEF Recent

\* A message of the call that was in the log stays behind the others.
LEMMA InBatchGrown ==
    ASSUME NEW l, Logs(l), NEW t \in Topics, NEW i \in DOMAIN l[t], NEW s \in Seq(Msg),
           NEW l2, Grown(l, l2, t, i, s), NEW o,
           NEW u \in Topics, NEW j \in DOMAIN l[u], NEW b \in DOMAIN l[u][j], InBatch(l, o, u, j, b)
    PROVE  InBatch(l2, o, u, j, b)
<1>1. \A d \in DOMAIN l[u][j] : l2[u][j][d] = l[u][j][d]  BY GrownPlaces
<1>2. l[u][j] \in Seq(Msg)  BY DEF Logs
<1>3. \A d \in 1 .. b : d \in DOMAIN l[u][j]
  <2>1. Len(l[u][j]) \in Nat /\ DOMAIN l[u][j] = 1 .. Len(l[u][j])  BY <1>2
  <2>. QED  BY <2>1
<1>4. \A d \in 1 .. b : l2[u][j][d] = l[u][j][d]  BY <1>1, <1>3
<1>. QED  BY <1>1, <1>4 DEF InBatch

\* The messages of the call in the log, and the new ones, keep behind the others.
LEMMA FollowsGrown ==
    ASSUME NEW l, Logs(l), NEW t \in Topics, NEW i \in DOMAIN l[t], NEW s \in Seq(Msg),
           NEW l2, Grown(l, l2, t, i, s), NEW o \in Sending, t = o.topic, Sent(s, o, i),
           NEW c, NEW n, FollowsIn(l, o, c, n)
    PROVE  FollowsIn(l2, o, c, n)
<1>1. /\ \A u \in Topics : DOMAIN l2[u] = DOMAIN l[u]
      /\ \A u \in Topics : \A j \in DOMAIN l[u] : \A k \in DOMAIN l2[u][j] :
            \/ k \in DOMAIN l[u][j] /\ l2[u][j][k] = l[u][j][k]
            \/ /\ u = t /\ j = i
               /\ \E h \in 1 .. Len(s) : k = Len(l[t][i]) + h /\ l2[t][i][k] = s[h]
  BY GrownPlaces
<1>2. \A k \in 1 .. Len(s) : l2[t][i][Len(l[t][i]) + k] = s[k]  BY GrownPlaces
<1>. SUFFICES ASSUME NEW u \in Topics, NEW j \in DOMAIN l2[u], NEW b \in DOMAIN l2[u][j],
                     l2[u][j][b].id[1] = c, l2[u][j][b].id[2] > n - Len(o.batch)
              PROVE  InBatch(l2, o, u, j, b)
  BY DEF FollowsIn
<1>3. j \in DOMAIN l[u]  BY <1>1
<1>4. CASE b \in DOMAIN l[u][j] /\ l2[u][j][b] = l[u][j][b]
  <2>1. InBatch(l, o, u, j, b)  BY <1>3, <1>4 DEF FollowsIn
  <2>. QED  BY <1>3, <1>4, <2>1, InBatchGrown
<1>5. CASE u = t /\ j = i /\ \E h \in 1 .. Len(s) : b = Len(l[t][i]) + h /\ l2[t][i][b] = s[h]
  <2>1. PICK k \in 1 .. Len(s) : b = Len(l[t][i]) + k /\ l2[t][i][b] = s[k]  BY <1>5
  <2>2. PICK x \in 1 .. Len(o.batch) :
              /\ s[k] = o.batch[x]
              /\ \A h \in 1 .. x - 1 : o.batch[h].key = o.batch[x].key =>
                    \E g \in 1 .. k - 1 : s[g] = o.batch[h]
    BY DEF Sent
  <2>3. l[t][i] \in Seq(Msg)  BY DEF Logs
  <2>4. PICK a \in Nat : a = Len(l[t][i])  BY <2>3
  <2>5. ASSUME NEW h \in 1 .. x - 1, o.batch[h].key = o.batch[x].key
        PROVE  \E d \in 1 .. b : l2[t][i][d] = o.batch[h]
    <3>1. PICK g \in 1 .. k - 1 : s[g] = o.batch[h]  BY <2>2, <2>5
    <3>2. PICK m \in Nat : m = Len(s)  OBVIOUS
    <3>5. k \in 1 .. m /\ b = a + k  BY <2>1, <2>4, <3>2
    <3>6. g \in 1 .. m /\ a + g \in 1 .. b  BY ONLY <3>5, a \in Nat, m \in Nat, g \in 1 .. k - 1
    <3>3. g \in 1 .. Len(s) /\ a + g \in 1 .. b  BY <3>2, <3>6
    <3>4. l2[t][i][a + g] = s[g]  BY <1>2, <2>4, <3>3
    <3>. QED  BY <3>1, <3>3, <3>4
  <2>. QED  BY <1>5, <2>1, <2>2, <2>5 DEF InBatch
<1>. QED  BY <1>1, <1>3, <1>4, <1>5

\* The messages of another call stay where they are.
LEMMA FollowsOther ==
    ASSUME NEW l, Logs(l), NEW t \in Topics, NEW i \in DOMAIN l[t], NEW s \in Seq(Msg),
           NEW l2, Grown(l, l2, t, i, s), NEW o, NEW c, NEW n, FollowsIn(l, o, c, n),
           \A k \in 1 .. Len(s) : s[k].id[1] # c
    PROVE  FollowsIn(l2, o, c, n)
<1>1. /\ \A u \in Topics : DOMAIN l2[u] = DOMAIN l[u]
      /\ \A u \in Topics : \A j \in DOMAIN l[u] : \A k \in DOMAIN l2[u][j] :
            \/ k \in DOMAIN l[u][j] /\ l2[u][j][k] = l[u][j][k]
            \/ /\ u = t /\ j = i
               /\ \E h \in 1 .. Len(s) : k = Len(l[t][i]) + h /\ l2[t][i][k] = s[h]
  BY GrownPlaces
<1>. SUFFICES ASSUME NEW u \in Topics, NEW j \in DOMAIN l2[u], NEW b \in DOMAIN l2[u][j],
                     l2[u][j][b].id[1] = c, l2[u][j][b].id[2] > n - Len(o.batch)
              PROVE  InBatch(l2, o, u, j, b)
  BY DEF FollowsIn
<1>2. j \in DOMAIN l[u]  BY <1>1
<1>3. b \in DOMAIN l[u][j] /\ l2[u][j][b] = l[u][j][b]  BY <1>1, <1>2
<1>4. InBatch(l, o, u, j, b)  BY <1>2, <1>3 DEF FollowsIn
<1>. QED  BY <1>2, <1>3, <1>4, InBatchGrown

\* The new messages were made, ...
LEMMA MadeGrown ==
    ASSUME NEW l, Logs(l), NEW t \in Topics, NEW i \in DOMAIN l[t], NEW s \in Seq(Msg),
           NEW l2, Grown(l, l2, t, i, s), NEW n, MadeIn(l, n),
           \A k \in 1 .. Len(s) : s[k].id[2] <= n[s[k].id[1]]
    PROVE  MadeIn(l2, n)
<1>1. /\ \A u \in Topics : DOMAIN l2[u] = DOMAIN l[u]
      /\ \A u \in Topics : \A j \in DOMAIN l[u] : \A k \in DOMAIN l2[u][j] :
            \/ k \in DOMAIN l[u][j] /\ l2[u][j][k] = l[u][j][k]
            \/ /\ u = t /\ j = i
               /\ \E h \in 1 .. Len(s) : k = Len(l[t][i]) + h /\ l2[t][i][k] = s[h]
  BY GrownPlaces
<1>2. ASSUME NEW u \in Topics, NEW j \in DOMAIN l2[u], NEW b \in DOMAIN l2[u][j]
      PROVE  l2[u][j][b].id[2] <= n[l2[u][j][b].id[1]]
  <2>1. j \in DOMAIN l[u]  BY <1>1
  <2>2. CASE b \in DOMAIN l[u][j] /\ l2[u][j][b] = l[u][j][b]  BY <2>1, <2>2 DEF MadeIn
  <2>3. CASE \E h \in 1 .. Len(s) : l2[u][j][b] = s[h]  BY <2>3
  <2>. QED  BY <1>1, <2>1, <2>2, <2>3
<1>. QED  BY <1>2 DEF MadeIn

\* ... and are in their partition.
LEMMA PlacedGrown ==
    ASSUME NEW l, Logs(l), NEW t \in Topics, NEW i \in DOMAIN l[t], NEW s \in Seq(Msg),
           NEW l2, Grown(l, l2, t, i, s), PlacedIn(l),
           \A k \in 1 .. Len(s) : i = PlaceOf(t, s[k].key)
    PROVE  PlacedIn(l2)
<1>1. /\ \A u \in Topics : DOMAIN l2[u] = DOMAIN l[u]
      /\ \A u \in Topics : \A j \in DOMAIN l[u] : \A k \in DOMAIN l2[u][j] :
            \/ k \in DOMAIN l[u][j] /\ l2[u][j][k] = l[u][j][k]
            \/ /\ u = t /\ j = i
               /\ \E h \in 1 .. Len(s) : k = Len(l[t][i]) + h /\ l2[t][i][k] = s[h]
  BY GrownPlaces
<1>2. ASSUME NEW u \in Topics, NEW j \in DOMAIN l2[u], NEW b \in DOMAIN l2[u][j]
      PROVE  j = PlaceOf(u, l2[u][j][b].key)
  <2>1. j \in DOMAIN l[u]  BY <1>1
  <2>2. CASE b \in DOMAIN l[u][j] /\ l2[u][j][b] = l[u][j][b]  BY <2>1, <2>2 DEF PlacedIn
  <2>3. CASE u = t /\ j = i /\ \E h \in 1 .. Len(s) : l2[t][i][b] = s[h]  BY <2>3
  <2>. QED  BY <1>1, <2>1, <2>2, <2>3
<1>. QED  BY <1>2 DEF PlacedIn

\* Two messages of the call in the log are as far apart as in its batch.
LEMMA InBatchBefore ==
    ASSUME NEW l, NEW o \in Sending, NEW c, NEW n \in Nat, Divides(o, c, n),
           NEW t, NEW i, NEW a, NEW b, InBatch(l, o, t, i, a), InBatch(l, o, t, i, b),
           l[t][i][a].key = l[t][i][b].key, l[t][i][a].id[2] < l[t][i][b].id[2]
    PROVE  \E d \in 1 .. b : l[t][i][d].id = l[t][i][a].id
<1>1. PICK x \in 1 .. Len(o.batch) : l[t][i][a] = o.batch[x]  BY DEF InBatch
<1>2. PICK y \in 1 .. Len(o.batch) :
          /\ l[t][i][b] = o.batch[y]
          /\ \A h \in 1 .. y - 1 : o.batch[h].key = o.batch[y].key =>
                \E d \in 1 .. b : l[t][i][d] = o.batch[h]
  BY DEF InBatch
<1>3. PICK m \in Nat : m = Len(o.batch)  BY DEF Sending
<1>4. n - m + x < n - m + y
  <2>1. \A k \in 1 .. Len(o.batch) : o.batch[k].id[2] = n - Len(o.batch) + k
    <3>1. ASSUME NEW k \in 1 .. Len(o.batch) PROVE o.batch[k].id[2] = n - Len(o.batch) + k
      <4>1. o.batch[k].id = <<c, n - Len(o.batch) + k>>  BY DEF Divides
      <4>. QED  BY <4>1
    <3>. QED  BY <3>1
  <2>. QED  BY <1>1, <1>2, <1>3, <2>1
<1>5. x \in 1 .. m /\ y \in 1 .. m  BY <1>3
<1>6. x \in 1 .. y - 1  BY ONLY <1>4, <1>5, n \in Nat, m \in Nat
<1>7. PICK d \in 1 .. b : l[t][i][d] = o.batch[x]  BY <1>1, <1>2, <1>6
<1>. QED  BY <1>1, <1>7

\* The order stays, and the new messages come after.
LEMMA KeyGrown ==
    ASSUME NEW l, Logs(l), NEW t \in Topics, NEW i \in DOMAIN l[t], NEW s \in Seq(Msg),
           NEW l2, Grown(l, l2, t, i, s), KeyIn(l), PlacedIn(l2),
           NEW o \in Sending, NEW c, NEW n \in Nat, Divides(o, c, n), FollowsIn(l2, o, c, n),
           \A k \in 1 .. Len(s) : Recent(s[k], o, c, n)
    PROVE  KeyIn(l2)
<1>1. /\ \A u \in Topics : DOMAIN l2[u] = DOMAIN l[u]
      /\ \A u \in Topics : \A j \in DOMAIN l[u] : \A k \in DOMAIN l[u][j] :
            k \in DOMAIN l2[u][j] /\ l2[u][j][k] = l[u][j][k]
      /\ \A u \in Topics : \A j \in DOMAIN l[u] : \A k \in DOMAIN l2[u][j] :
            \/ k \in DOMAIN l[u][j] /\ l2[u][j][k] = l[u][j][k]
            \/ /\ u = t /\ j = i
               /\ \E h \in 1 .. Len(s) : k = Len(l[t][i]) + h /\ l2[t][i][k] = s[h]
      /\ Logs(l2)
  BY GrownPlaces
<1>2. ASSUME NEW u \in Topics, NEW j \in DOMAIN l2[u], NEW h \in DOMAIN l2[u],
             NEW a \in DOMAIN l2[u][j], NEW b \in DOMAIN l2[u][h],
             l2[u][j][a].key = l2[u][h][b].key, l2[u][j][a].id[1] = l2[u][h][b].id[1],
             l2[u][j][a].id[2] < l2[u][h][b].id[2]
      PROVE  j = h /\ \E d \in 1 .. b : l2[u][j][d].id = l2[u][j][a].id
  <2>1. j = h  BY <1>2 DEF PlacedIn
  <2>2. j \in DOMAIN l[u] /\ b \in DOMAIN l2[u][j]  BY <1>1, <2>1
  <2>3. PICK x \in Msg : x = l2[u][j][a]  BY <1>1 DEF Logs
  <2>4. PICK y \in Msg : y = l2[u][j][b]  BY <1>1, <2>2 DEF Logs
  <2>5. x.key = y.key /\ x.id[1] = y.id[1] /\ x.id[2] < y.id[2] /\ x.id[2] \in Int /\ y.id[2] \in Int
    BY <1>2, <2>1, <2>3, <2>4 DEF Msg, Ids
  <2>6. PICK m \in Int : m = n - Len(o.batch)
    <3>1. Len(o.batch) \in Nat  BY DEF Sending
    <3>2. n - Len(o.batch) \in Int  BY <3>1
    <3>. QED  BY <3>2
  <2>7. CASE x.id[1] = c /\ x.id[2] > m
    <3>1. y.id[1] = c /\ y.id[2] > m  BY <2>5, <2>7
    <3>2. InBatch(l2, o, u, j, a) /\ InBatch(l2, o, u, j, b)
      BY <2>2, <2>3, <2>4, <2>6, <2>7, <3>1 DEF FollowsIn
    <3>3. \E d \in 1 .. b : l2[u][j][d].id = l2[u][j][a].id
      BY <2>3, <2>4, <2>5, <3>2, InBatchBefore
    <3>. QED  BY <2>1, <3>3
  <2>8. CASE ~(x.id[1] = c /\ x.id[2] > m)
    <3>1. a \in DOMAIN l[u][j] /\ l[u][j][a] = x
      BY <1>1, <2>2, <2>3, <2>6, <2>8 DEF Recent
    <3>2. CASE b \in DOMAIN l[u][j] /\ l2[u][j][b] = l[u][j][b]
      <4>1. PICK d \in 1 .. b : l[u][j][d].id = l[u][j][a].id
        BY <2>2, <2>4, <2>5, <3>1, <3>2 DEF KeyIn
      <4>2. l[u][j] \in Seq(Msg)  BY <2>2 DEF Logs
      <4>3. d \in DOMAIN l[u][j]
        <5>1. Len(l[u][j]) \in Nat /\ DOMAIN l[u][j] = 1 .. Len(l[u][j])  BY <4>2
        <5>. QED  BY <3>2, <5>1
      <4>4. l2[u][j][d] = l[u][j][d]  BY <1>1, <2>2, <4>3
      <4>. QED  BY <2>1, <2>3, <3>1, <4>1, <4>4
    <3>3. CASE u = t /\ j = i /\ \E k \in 1 .. Len(s) : b = Len(l[t][i]) + k
      <4>1. PICK k \in 1 .. Len(s) : b = Len(l[t][i]) + k  BY <3>3
      <4>2. l[t][i] \in Seq(Msg)  BY DEF Logs
      <4>3. PICK p \in Nat : p = Len(l[t][i])  BY <4>2
      <4>4. a \in 1 .. p /\ b = p + k /\ k \in Nat  BY <3>1, <3>3, <4>1, <4>2, <4>3
      <4>5. a \in 1 .. b  BY ONLY <4>4, p \in Nat
      <4>. QED  BY <2>1, <4>5
    <3>. QED  BY <1>1, <2>2, <3>2, <3>3
  <2>. QED  BY <2>7, <2>8
<1>. QED  BY <1>2 DEF KeyIn

\* A message that is chosen for goes behind those with its key.
LEMMA ChosenFollows ==
    ASSUME NEW o \in Sending, o.at \in Early, o.todo # <<>>, NEW i \in Nat, NEW q, Chosen(o, q, i),
           NEW c, NEW n \in Nat, Divides(o, c, n), NEW l, Divided(o), NoneLost(o, l), Follows(o),
           i = PlaceOf(o.topic, Head(o.todo).key)
    PROVE  Follows(q)
<1>14. PICK f : f = Joined(o, i)  OBVIOUS
<1>15. JoinedIs(o, f, i)  BY <1>14, JoinedElements
<1>1. q.batch = o.batch /\ q.topic = o.topic /\ q.batches = f
  BY <1>14, ChosenType
<1>2. PICK done \in Nat : Counted(o, q, done)  BY ChosenNumbers
<1>3. /\ i \in DOMAIN f /\ f[i][Len(f[i])] = Head(o.todo) /\ Len(f[i]) \in Nat
      /\ \A h \in DOMAIN o.batches : \A j \in 1 .. Len(o.batches[h]) :
            /\ h \in DOMAIN f /\ j \in 1 .. Len(f[h]) /\ f[h][j] = o.batches[h][j]
            /\ h = i => j < Len(f[i])
      /\ \A h \in DOMAIN f : \A j \in 1 .. Len(f[h]) :
            \/ /\ h \in DOMAIN o.batches /\ j \in 1 .. Len(o.batches[h])
               /\ f[h][j] = o.batches[h][j]
            \/ h = i /\ j = Len(f[i])
  BY <1>15 DEF JoinedIs
<1>4. /\ done = Len(o.batch) - Len(o.todo) /\ done + 1 \in 1 .. Len(o.batch)
      /\ Head(o.todo) = o.batch[done + 1]
  BY <1>2 DEF Counted
<1>5. \A k \in 1 .. done : Kept(o, k)  BY <1>4 DEF NoneLost, Early
<1>6. o.batches \in Maps  BY DEF Sending
<1>7. ASSUME NEW h \in DOMAIN f, NEW j \in 1 .. Len(f[h])
      PROVE  h = PlaceOf(q.topic, f[h][j].key) /\ Behind(q, h, j)
  <2>1. CASE h \in DOMAIN o.batches /\ j \in 1 .. Len(o.batches[h]) /\ f[h][j] = o.batches[h][j]
    <3>1. h = PlaceOf(q.topic, f[h][j].key) /\ Behind(o, h, j)  BY <1>1, <2>1 DEF Follows
    <3>2. PICK m \in Nat : m = Len(o.batches[h])  BY <1>6, <2>1, MapsAre
    <3>3. \A g \in 1 .. j - 1 : g \in 1 .. Len(o.batches[h])  BY <2>1, <3>2
    <3>4. \A g \in 1 .. j - 1 : f[h][g] = o.batches[h][g]  BY <1>3, <2>1, <3>3
    <3>5. ASSUME NEW k \in 1 .. Len(q.batch), NEW x \in 1 .. Len(q.batch),
                 f[h][j] = q.batch[k], x < k, q.batch[x].key = q.batch[k].key
          PROVE  \E g \in 1 .. j - 1 : f[h][g] = q.batch[x]
      <4>1. PICK g \in 1 .. j - 1 : o.batches[h][g] = o.batch[x]
        BY <1>1, <2>1, <3>1, <3>5 DEF Behind
      <4>. QED  BY <1>1, <3>4, <4>1
    <3>6. Behind(q, h, j)  BY <1>1, <3>5 DEF Behind
    <3>. QED  BY <3>1, <3>6
  <2>2. CASE h = i /\ j = Len(f[i])
    <3>1. h = PlaceOf(q.topic, f[h][j].key)  BY <1>1, <1>3, <2>2
    <3>2. ASSUME NEW k \in 1 .. Len(q.batch), NEW x \in 1 .. Len(q.batch),
                 f[h][j] = q.batch[k], x < k, q.batch[x].key = q.batch[k].key
          PROVE  \E g \in 1 .. j - 1 : f[h][g] = q.batch[x]
      <4>1. PICK m \in Nat : m = Len(o.batch)  BY DEF Sending
      <4>2. o.batch[k].id[2] = n - m + k /\ o.batch[done + 1].id[2] = n - m + (done + 1)
        <5>1. \A z \in 1 .. Len(o.batch) : o.batch[z].id[2] = n - Len(o.batch) + z
          <6>1. ASSUME NEW z \in 1 .. Len(o.batch) PROVE o.batch[z].id[2] = n - Len(o.batch) + z
            <7>1. o.batch[z].id = <<c, n - Len(o.batch) + z>>  BY DEF Divides
            <7>. QED  BY <7>1
          <6>. QED  BY <6>1
        <5>. QED  BY <1>1, <1>4, <4>1, <5>1
      <4>3. o.batch[k] = o.batch[done + 1]  BY <1>1, <1>3, <1>4, <2>2, <3>2
      <4>4. n - m + k = n - m + (done + 1)  BY <4>2, <4>3
      <4>5. k \in 1 .. m /\ x \in 1 .. m  BY <1>1, <3>2, <4>1
      <4>6. x \in 1 .. done
        BY ONLY <4>4, <4>5, <3>2, n \in Nat, m \in Nat, done \in Nat
      <4>7. PICK g \in DOMAIN o.batches : \E y \in 1 .. Len(o.batches[g]) : o.batches[g][y] = o.batch[x]
        BY <1>5, <4>6 DEF Kept
      <4>8. PICK y \in 1 .. Len(o.batches[g]) : o.batches[g][y] = o.batch[x]  BY <4>7
      <4>9. g = PlaceOf(o.topic, o.batch[x].key)  BY <4>8 DEF Follows
      <4>10. o.batch[x].key = Head(o.todo).key  BY <1>1, <1>4, <3>2, <4>3
      <4>11. g = i  BY <4>9, <4>10
      <4>12. y \in 1 .. Len(f[i]) /\ f[i][y] = o.batch[x] /\ y < Len(f[i])
        BY <1>3, <4>8, <4>11
      <4>13. y \in 1 .. j - 1
        <5>1. PICK p \in Nat : p = Len(f[i])  BY <1>3
        <5>. QED  BY <2>2, <4>12, <5>1
      <4>. QED  BY <1>1, <2>2, <4>12, <4>13
    <3>3. Behind(q, h, j)  BY <1>1, <3>2 DEF Behind
    <3>. QED  BY <3>1, <3>3
  <2>. QED  BY <1>3, <2>1, <2>2
<1>. QED  BY <1>1, <1>7 DEF Follows

\* The other calls, and their parts of the log, are in the order they were in.
LEMMA SameFollows ==
    ASSUME NEW l, NEW o, NEW q, NEW c, NEW n, FollowsIn(l, o, c, n), q.batch = o.batch, q.topic = o.topic
    PROVE  FollowsIn(l, q, c, n)
<1>1. \A t, i, b : InBatch(l, o, t, i, b) => InBatch(l, q, t, i, b)  BY DEF InBatch
<1>. QED  BY <1>1 DEF FollowsIn

\* A call with some of its batches left keeps their order.
LEMMA FewerFollow ==
    ASSUME NEW o, NEW q, Follows(o), q.batch = o.batch, q.topic = o.topic,
           \A i \in DOMAIN q.batches : i \in DOMAIN o.batches /\ q.batches[i] = o.batches[i]
    PROVE  Follows(q)
<1>1. ASSUME NEW i \in DOMAIN q.batches, NEW j \in 1 .. Len(q.batches[i])
      PROVE  i = PlaceOf(q.topic, q.batches[i][j].key) /\ Behind(q, i, j)
  <2>1. i \in DOMAIN o.batches /\ q.batches[i] = o.batches[i]  OBVIOUS
  <2>2. i = PlaceOf(o.topic, o.batches[i][j].key) /\ Behind(o, i, j)  BY <2>1 DEF Follows
  <2>3. Behind(q, i, j)  BY <2>1, <2>2 DEF Behind
  <2>. QED  BY <2>1, <2>2, <2>3
<1>. QED  BY <1>1 DEF Follows

\* One call turns into q, and the log stays.
LEMMA TurnsOrders ==
    ASSUME CallsTyped, Ordered, NEW c \in Clients, NEW q, Turns(sending, sending', c, q),
           q = NoSend \/ q \in Sending, UNCHANGED <<mode, log>>, MadeIn(log, made'),
           \A d \in Clients : d # c => made'[d] = made[d],
           mode = "key_hash" => Orders(log, q, c, made'[c])
    PROVE  Ordered'
<1>1. sending'[c] = q /\ \A d \in Clients : d # c => sending'[d] = sending[d]
  BY TurnsTyped
<1>2. ASSUME mode = "key_hash", NEW d \in Clients
      PROVE  Orders(log, sending'[d], d, made'[d])
  <2>1. CASE d = c  BY <1>1, <1>2, <2>1
  <2>2. CASE d # c
    <3>1. sending'[d] = sending[d] /\ made'[d] = made[d]  BY <1>1, <2>2
    <3>2. Orders(log, sending[d], d, made[d])  BY <1>2 DEF Ordered
    <3>. QED  BY <3>1, <3>2
  <2>. QED  BY <2>1, <2>2
<1>3. mode = "key_hash" => PlacedIn(log) /\ KeyIn(log)  BY DEF Ordered
<1>. QED  BY <1>2, <1>3 DEF Ordered

\* A call that has the messages it had, and no new ones in its batches.
LEMMA SameOrders ==
    ASSUME NEW l, NEW o, NEW q, NEW c, NEW n, o # NoSend, Orders(l, o, c, n),
           q.batch = o.batch, q.topic = o.topic, q.at = "failed" \/ o.at # "failed",
           q.at # "failed" =>
               \A i \in DOMAIN q.batches : i \in DOMAIN o.batches /\ q.batches[i] = o.batches[i]
    PROVE  Orders(l, q, c, n)
<1>1. FollowsIn(l, q, c, n)  BY SameFollows DEF Orders
<1>2. q.at # "failed" /\ CountOf[q.topic] > 0 => Follows(q)  BY FewerFollow DEF Orders
<1>. QED  BY <1>1, <1>2 DEF Orders

\* A call that starts with new messages, or with those of the call that failed.
LEMMA FreshOrders ==
    ASSUME NEW l, NEW q, NEW t, NEW batch, Fresh(q, t, batch), NEW c, NEW n, FollowsIn(l, q, c, n)
    PROVE  Orders(l, q, c, n)
<1>1. DOMAIN q.batches = {}  BY NoBatchesMap DEF Fresh
<1>2. Follows(q)  BY <1>1 DEF Follows
<1>. QED  BY <1>2 DEF Orders

\* SendBatch makes new messages, which are not in the log.
LEMMA SendBatchOrders ==
    ASSUME SendInv, Ordered, NEW c \in Clients, NEW t \in Topics,
           NEW ks \in Batches, SendBatch(c, t, ks)
    PROVE  Ordered'
<1>0. CallsTyped /\ NotedTyped /\ LogTyped /\ SendTypes  BY SendTypesIs DEF SendInv
<1>1. PICK batch \in Seq(Msg) :
            /\ Start(c, t, batch) /\ made' = [made EXCEPT ![c] = @ + Len(batch)]
  BY <1>0, SendBatchDoes
<1>2. PICK q \in Sending : Fresh(q, t, batch) /\ Turns(sending, sending', c, q)
  BY <1>0, <1>1, StartDoes
<1>3. PICK b \in Nat : b = Len(batch)  OBVIOUS
<1>4. PICK n \in Nat : n = made[c]  BY <1>0, ProducersAssumption DEF NotedTyped
<1>5. made'[c] = n + b /\ \A d \in Clients : d # c => made'[d] = made[d]
  BY <1>0, <1>1, <1>3, <1>4 DEF NotedTyped
<1>6. ASSUME NEW u \in Topics, NEW i \in DOMAIN log[u], NEW a \in DOMAIN log[u][i]
      PROVE  /\ log[u][i][a].id[2] <= made'[log[u][i][a].id[1]]
             /\ log[u][i][a].id[1] = c => log[u][i][a].id[2] <= n
  <2>1. log[u][i] \in Seq(Msg)  BY <1>0 DEF LogTyped
  <2>2. PICK x \in Msg : x = log[u][i][a]  BY <2>1
  <2>3. x.id[1] \in Clients /\ x.id[2] \in Nat  BY <2>2 DEF Msg, Ids
  <2>4. x.id[2] <= made[x.id[1]]  BY <2>2 DEF Ordered, MadeIn
  <2>5. CASE x.id[1] = c
    <3>1. x.id[2] <= n  BY <1>4, <2>4, <2>5
    <3>2. x.id[2] <= n + b  BY <2>3, <3>1
    <3>. QED  BY <1>5, <2>2, <2>5, <3>1, <3>2
  <2>6. CASE x.id[1] # c  BY <1>5, <2>2, <2>3, <2>4, <2>6
  <2>. QED  BY <2>5, <2>6
<1>7. MadeIn(log, made')  BY <1>6 DEF MadeIn
<1>8. FollowsIn(log, q, c, made'[c])
  <2>1. q.batch = batch  BY <1>2 DEF Fresh
  <2>2. made'[c] - Len(q.batch) = n  BY <1>3, <1>5, <2>1
  <2>3. \A u \in Topics : \A i \in DOMAIN log[u] : \A a \in DOMAIN log[u][i] :
            ~(log[u][i][a].id[1] = c /\ log[u][i][a].id[2] > n)
    <3>1. ASSUME NEW u \in Topics, NEW i \in DOMAIN log[u], NEW a \in DOMAIN log[u][i],
                 log[u][i][a].id[1] = c, log[u][i][a].id[2] > n
          PROVE  FALSE
      <4>1. log[u][i] \in Seq(Msg)  BY <1>0 DEF LogTyped
      <4>2. PICK x \in Msg : x = log[u][i][a]  BY <4>1
      <4>3. x.id[2] \in Nat  BY <4>2 DEF Msg, Ids
      <4>. QED  BY <1>6, <3>1, <4>2, <4>3
    <3>. QED  BY <3>1
  <2>. QED  BY <2>2, <2>3 DEF FollowsIn
<1>9. Orders(log, q, c, made'[c])
  <2>1. PICK l : l = log  OBVIOUS
  <2>2. PICK m : m = made'[c]  OBVIOUS
  <2>3. Orders(l, q, c, m)  BY <1>2, <1>8, <2>1, <2>2, FreshOrders
  <2>. QED  BY <2>1, <2>2, <2>3
<1>10. UNCHANGED <<mode, log>>  BY DEF SendBatch
<1>. QED  BY <1>0, <1>2, <1>5, <1>7, <1>9, <1>10, TurnsOrders

\* Retry has the messages of the call that failed.
LEMMA RetryOrders ==
    ASSUME SendInv, Ordered, NEW c \in Clients, Retry(c)
    PROVE  Ordered'
<1>0. CallsTyped /\ SendTypes  BY SendTypesIs DEF SendInv
<1>1. sending[c] \in Sending /\ Start(c, sending[c].topic, sending[c].batch)
  BY <1>0, RetryDoes
<1>2. sending[c].topic \in Topics /\ sending[c].batch \in Seq(Msg)  BY <1>1 DEF Sending
<1>3. PICK q \in Sending :
          Fresh(q, sending[c].topic, sending[c].batch) /\ Turns(sending, sending', c, q)
  BY <1>0, <1>1, <1>2, StartDoes
<1>4. UNCHANGED <<mode, log, made>> /\ sending[c] # NoSend  BY DEF Retry, NoSend
<1>5. ASSUME mode = "key_hash" PROVE Orders(log, q, c, made'[c])
  <2>1. PICK l : l = log  OBVIOUS
  <2>2. PICK m : m = made[c]  OBVIOUS
  <2>3. PICK o : o = sending[c]  OBVIOUS
  <2>4. Orders(l, o, c, m)  BY <1>5, <2>1, <2>2, <2>3 DEF Ordered
  <2>5. FollowsIn(l, o, c, m)  BY <1>4, <2>3, <2>4 DEF Orders
  <2>6. Fresh(q, o.topic, o.batch)  BY <1>3, <2>3
  <2>7. q.batch = o.batch /\ q.topic = o.topic  BY <2>6 DEF Fresh
  <2>8. FollowsIn(l, q, c, m)  BY <2>5, <2>7, SameFollows
  <2>9. Orders(l, q, c, m)  BY <2>6, <2>8, FreshOrders
  <2>. QED  BY <1>4, <2>1, <2>2, <2>9
<1>6. MadeIn(log, made')  BY <1>4 DEF Ordered
<1>. QED  BY <1>0, <1>3, <1>4, <1>5, <1>6, TurnsOrders

\* Messages of the call of c are appended.
LEMMA AppendOrders ==
    ASSUME SendInv, Delivery, Ordered, NEW c \in Clients,
           NEW o \in Sending, o = sending[c], o.at = "send", NEW i \in DOMAIN o.batches,
           NEW t \in Topics, t = o.topic, i \in DOMAIN log[t], NEW s, Part(s, o.batches[i]),
           Grown(log, log', t, i, s), UNCHANGED <<mode, made>>,
           NEW q, q = NoSend \/ q \in Sending, Turns(sending, sending', c, q),
           q # NoSend =>
               /\ q.batch = o.batch /\ q.topic = o.topic
               /\ q.at # "failed" =>
                     \A j \in DOMAIN q.batches : j \in DOMAIN o.batches /\ q.batches[j] = o.batches[j]
    PROVE  Ordered'
<1>0. CallsTyped /\ NotedTyped /\ LogTyped /\ SendTypes  BY SendTypesIs DEF SendInv
<1>1. PICK n \in Nat : n = made[c]  BY <1>0, ProducersAssumption DEF NotedTyped
<1>2. PICK l : l = log  OBVIOUS
<1>3. PICK l2 : l2 = log'  OBVIOUS
<1>4. s \in Seq(Msg)  BY DEF Part
<1>5. Logs(l) /\ i \in DOMAIN l[t] /\ Grown(l, l2, t, i, s)
  BY <1>0, <1>2, <1>3 DEF LogTyped, Logs
<1>6. Divides(o, c, n) /\ Divided(o)
  <2>1. Divides(sending[c], c, made[c])  BY CallNumbers
  <2>2. Divided(o)  BY DEF Delivery, Divisions
  <2>. QED  BY <1>1, <2>1, <2>2
<1>7. o.batches[i] \in Seq(Msg)
  <2>1. o.batches \in Maps  BY DEF Sending
  <2>. QED  BY <2>1, MapsAre
<1>8. ASSUME NEW k \in 1 .. Len(s)
      PROVE  Recent(s[k], o, c, n)
  <2>1. Len(s) \in Nat /\ Len(o.batches[i]) \in Nat /\ Len(s) <= Len(o.batches[i])
    BY <1>4, <1>7 DEF Part
  <2>2. k \in 1 .. Len(o.batches[i]) /\ s[k] = o.batches[i][k]  BY <2>1 DEF Part
  <2>3. Len(o.batch) \in Nat /\ Len(o.todo) \in Nat  BY DEF Sending
  <2>4. PICK x \in 1 .. Len(o.batch) - Len(o.todo) : o.batches[i][k] = o.batch[x]
    BY <1>6, <2>2 DEF Divided
  <2>5. x \in 1 .. Len(o.batch)  BY <2>3
  <2>6. Recent(o.batch[x], o, c, n)  BY <1>6, <2>5, BatchNumbers
  <2>. QED  BY <2>2, <2>4, <2>6
<1>9. MadeIn(l2, made)
  <2>1. \A k \in 1 .. Len(s) : s[k].id[2] <= made[s[k].id[1]]  BY <1>1, <1>8 DEF Recent
  <2>2. MadeIn(l, made)  BY <1>2 DEF Ordered
  <2>3. PICK m : m = made  OBVIOUS
  <2>4. MadeIn(l2, m)  BY <1>4, <1>5, <2>1, <2>2, <2>3, MadeGrown
  <2>. QED  BY <2>3, <2>4
<1>10. ASSUME mode = "key_hash"
       PROVE  PlacedIn(l2) /\ KeyIn(l2) /\ \A d \in Clients : Orders(l2, sending'[d], d, made[d])
  <2>1. PlacedIn(l) /\ KeyIn(l) /\ \A d \in Clients : Orders(l, sending[d], d, made[d])
    BY <1>2, <1>10 DEF Ordered
  <2>2. o # NoSend  BY DEF NoSend
  <2>3. CountOf[t] > 0
    <3>1. i \in 0 .. CountOf[t] - 1 /\ CountOf[t] \in Nat
      BY <1>0, ProducersAssumption DEF LogTyped
    <3>. QED  BY <3>1
  <2>4. FollowsIn(l, o, c, n) /\ Follows(o)  BY <1>1, <2>1, <2>2, <2>3 DEF Orders
  <2>5. Sent(s, o, i)  BY <1>6, <1>7, <2>4, PartSent
  <2>6. FollowsIn(l2, o, c, n)  BY <1>4, <1>5, <2>4, <2>5, FollowsGrown
  <2>7. PlacedIn(l2)
    <3>1. \A k \in 1 .. Len(s) : i = PlaceOf(t, s[k].key)  BY <2>5 DEF Sent
    <3>. QED  BY <1>4, <1>5, <2>1, <3>1, PlacedGrown
  <2>8. KeyIn(l2)  BY <1>4, <1>5, <1>6, <1>8, <2>1, <2>6, <2>7, KeyGrown
  <2>9. sending'[c] = q /\ \A d \in Clients : d # c => sending'[d] = sending[d]
    BY <1>0, TurnsTyped
  <2>10. Orders(l2, q, c, n)
    <3>1. CASE q = NoSend  BY <3>1 DEF Orders
    <3>2. CASE q # NoSend
      <4>1. Orders(l2, o, c, n)  BY <2>4, <2>6 DEF Orders
      <4>. QED  BY <2>2, <3>2, <4>1, SameOrders
    <3>. QED  BY <3>1, <3>2
  <2>11. ASSUME NEW d \in Clients, d # c PROVE Orders(l2, sending[d], d, made[d])
    <3>1. PICK p : p = sending[d]  OBVIOUS
    <3>2. PICK m : m = made[d]  OBVIOUS
    <3>3. Orders(l, p, d, m)  BY <2>1, <3>1, <3>2
    <3>4. \A k \in 1 .. Len(s) : s[k].id[1] # d  BY <1>8, <2>11 DEF Recent
    <3>5. FollowsIn(l, p, d, m) => FollowsIn(l2, p, d, m)  BY <1>4, <1>5, <3>4, FollowsOther
    <3>6. Orders(l2, p, d, m)  BY <3>3, <3>5 DEF Orders
    <3>. QED  BY <3>1, <3>2, <3>6
  <2>12. ASSUME NEW d \in Clients PROVE Orders(l2, sending'[d], d, made[d])
    <3>1. CASE d = c  BY <1>1, <2>9, <2>10, <3>1
    <3>2. CASE d # c  BY <2>9, <2>11, <3>2
    <3>. QED  BY <3>1, <3>2
  <2>. QED  BY <2>7, <2>8, <2>12
<1>. QED  BY <1>3, <1>9, <1>10 DEF Ordered

\* A call that divides one message more, or none.
LEMMA DivideOrders ==
    ASSUME SendInv, Ordered, NEW c \in Clients, NEW q \in Sending, Turns(sending, sending', c, q),
           UNCHANGED <<mode, log, made>>, mode = "key_hash" => Orders(log, q, c, made[c])
    PROVE  Ordered'
<1>1. CallsTyped  BY SendTypesIs DEF SendInv
<1>2. MadeIn(log, made')  BY DEF Ordered
<1>. QED  BY <1>1, <1>2, TurnsOrders

\* Every step keeps the order.
LEMMA OrderedStep ==
    ASSUME SendInv, Delivery, Ordered, [ProducersNext]_producerVars
    PROVE  Ordered'
<1>0. CallsTyped /\ NotedTyped /\ LogTyped /\ SendTypes  BY SendTypesIs DEF SendInv
<1>1. ASSUME UNCHANGED <<mode, log, sending, made>> PROVE Ordered'
  BY <1>1 DEF Ordered
<1>2. ASSUME NEW c \in Clients, NEW t \in Topics, NEW ks \in Batches, SendBatch(c, t, ks)
      PROVE  Ordered'
  BY <1>2, SendBatchOrders
<1>3. ASSUME NEW c \in Clients, Retry(c) PROVE Ordered'
  BY <1>3, RetryOrders
<1>4. ASSUME NEW c \in Clients, GiveUp(c) PROVE Ordered'
  <2>1. Turns(sending, sending', c, NoSend)  BY <1>4 DEF GiveUp, Turns
  <2>2. UNCHANGED <<mode, log, made>>  BY <1>4 DEF GiveUp
  <2>3. Orders(log, NoSend, c, made'[c])  BY DEF Orders
  <2>4. MadeIn(log, made')  BY <2>2 DEF Ordered
  <2>. QED  BY <1>0, <2>1, <2>2, <2>3, <2>4, TurnsOrders
<1>5. ASSUME NEW c \in Clients,
             \/ Refresh(c) \/ RefreshFails(c)
             \/ StickyCount(c) \/ StickyLoad(c) \/ StickyStore(c)
      PROVE  Ordered'
  <2>1. PICK q \in Sending : Moves(sending[c], q) /\ Turns(sending, sending', c, q)
    BY <1>0, <1>5, MoveDoes
  <2>2. UNCHANGED <<mode, log, made>>
    BY <1>5 DEF Refresh, RefreshFails, StickyCount, StickyLoad, StickyStore
  <2>3. ASSUME mode = "key_hash" PROVE Orders(log, q, c, made[c])
    <3>1. PICK l : l = log  OBVIOUS
    <3>2. PICK m : m = made[c]  OBVIOUS
    <3>3. PICK o : o = sending[c]  OBVIOUS
    <3>4. Orders(l, o, c, m)  BY <2>3, <3>1, <3>2, <3>3 DEF Ordered
    <3>5. /\ o.at \in Early /\ q.topic = o.topic /\ q.batch = o.batch /\ q.batches = o.batches
      BY <2>1, <3>3 DEF Moves
    <3>6. o # NoSend /\ o.at # "failed"  BY <3>5 DEF Early, NoSend
    <3>7. Orders(l, q, c, m)  BY <3>4, <3>5, <3>6, SameOrders
    <3>. QED  BY <3>1, <3>2, <3>7
  <2>. QED  BY <2>1, <2>2, <2>3, DivideOrders
<1>6. ASSUME NEW c \in Clients,
             PartitionNone(c) \/ PartitionRound(c) \/ PartitionKey(c) \/ StickyRead(c)
      PROVE  Ordered'
  <2>1. PICK o \in Sending : o = sending[c]  BY <1>6, ChoiceDoes
  <2>2. o.at \in {"partition", "read"} /\ o.todo # <<>>  BY <1>6, <2>1, ChoiceDoes
  <2>3. PICK i \in Places :
            /\ Choose(c, i)
            /\ mode = "key_hash" /\ CountOf[sending[c].topic] > 0 =>
                  i = PlaceOf(sending[c].topic, Head(sending[c].todo).key)
    BY <1>6, ChoiceDoes
  <2>4. i \in Nat  BY PlacesAre
  <2>5. PICK q : Chosen(o, q, i) /\ Turns(sending, sending', c, q)
    BY <1>0, <2>1, <2>3, ChooseDoes
  <2>6. q \in Sending /\ q.batch = o.batch /\ q.topic = o.topic
    BY <2>2, <2>4, <2>5, ChosenType
  <2>7. UNCHANGED <<mode, log, made>>
    BY <1>6 DEF PartitionNone, PartitionRound, PartitionKey, StickyRead
  <2>8. ASSUME mode = "key_hash" PROVE Orders(log, q, c, made[c])
    <3>1. PICK l : l = log  OBVIOUS
    <3>2. PICK n \in Nat : n = made[c]  BY <1>0, ProducersAssumption DEF NotedTyped
    <3>3. Orders(l, o, c, n)  BY <2>1, <2>8, <3>1, <3>2 DEF Ordered
    <3>4. o # NoSend /\ o.at # "failed" /\ o.at \in Early  BY <2>2 DEF Early, NoSend
    <3>5. FollowsIn(l, q, c, n)  BY <2>6, <3>3, <3>4, SameFollows DEF Orders
    <3>6. ASSUME CountOf[o.topic] > 0 PROVE Follows(q)
      <4>1. Follows(o)  BY <3>3, <3>4, <3>6 DEF Orders
      <4>2. Divided(o) /\ NoneLost(o, l)  BY <2>1, <2>2, <3>1 DEF Delivery, Divisions
      <4>3. Divides(o, c, n)  BY <2>1, <2>2, <3>2, CallNumbers
      <4>4. i = PlaceOf(o.topic, Head(o.todo).key)  BY <2>1, <2>3, <2>8, <3>6
      <4>. QED  BY <2>2, <2>4, <2>5, <3>4, <4>1, <4>2, <4>3, <4>4, ChosenFollows
    <3>7. Orders(l, q, c, n)  BY <2>6, <3>5, <3>6 DEF Orders
    <3>. QED  BY <3>1, <3>2, <3>7
  <2>. QED  BY <2>5, <2>6, <2>7, <2>8, DivideOrders
<1>7. ASSUME NEW c \in Clients, NEW i \in Places, Send(c, i) PROVE Ordered'
  <2>1. PICK o \in Sending : o = sending[c]  BY <1>0, <1>7, SendsTo DEF Send
  <2>2. /\ o.at = "send" /\ o.topic \in Topics /\ o.batches[i] \in Seq(Msg) /\ i \in DOMAIN o.batches
        /\ i \in DOMAIN log[o.topic] /\ Grown(log, log', o.topic, i, o.batches[i])
    BY <1>0, <1>7, <2>1, SendsTo, SendDoes DEF Send
  <2>3. UNCHANGED <<mode, made>>  BY <1>7 DEF Send
  <2>4. PICK s : s = o.batches[i]  OBVIOUS
  <2>5. Part(s, o.batches[i]) /\ Grown(log, log', o.topic, i, s)
    <3>1. Len(o.batches[i]) \in Nat  BY <2>2
    <3>. QED  BY <2>2, <2>4, <3>1 DEF Part
  <2>6. PICK t \in Topics : t = o.topic  BY <2>2
  <2>7. i \in DOMAIN log[t] /\ Grown(log, log', t, i, s)  BY <2>2, <2>5, <2>6
  <2>8. CASE Turns(sending, sending', c, NoSend)
    BY <2>1, <2>2, <2>3, <2>5, <2>6, <2>7, <2>8, AppendOrders
  <2>9. CASE \E q \in Sending : Rests(o, q, i) /\ Turns(sending, sending', c, q)
    <3>1. PICK q \in Sending : Rests(o, q, i) /\ Turns(sending, sending', c, q)  BY <2>9
    <3>2. /\ q.batch = o.batch /\ q.topic = o.topic
          /\ \A j \in DOMAIN q.batches : j \in DOMAIN o.batches /\ q.batches[j] = o.batches[j]
      BY <3>1 DEF Rests
    <3>. QED  BY <2>1, <2>2, <2>3, <2>5, <2>6, <2>7, <3>1, <3>2, AppendOrders
  <2>. QED  BY <1>0, <1>7, <2>1, <2>8, <2>9, SendDoes
<1>8. ASSUME NEW c \in Clients, NEW i \in Places, NEW n \in 0 .. MaxMessages, SendFails(c, i, n)
      PROVE  Ordered'
  <2>1. PICK o \in Sending : o = sending[c]  BY <1>0, <1>8, SendsTo DEF SendFails
  <2>2. o.at = "send" /\ o.topic \in Topics /\ i \in DOMAIN o.batches
    BY <1>0, <1>8, <2>1, SendsTo DEF SendFails
  <2>3. UNCHANGED <<mode, made>>  BY <1>8 DEF SendFails
  <2>4. n \in Nat  BY ProducersAssumption
  <2>5. PICK q \in Sending :
              /\ q.at = "failed" /\ q.topic = o.topic /\ q.batch = o.batch
              /\ Turns(sending, sending', c, q)
    BY <1>0, <1>8, <2>1, <2>4, SendFailsDoes
  <2>6. PICK t \in Topics : t = o.topic  BY <2>2
  <2>7. CASE log' = log
    <3>1. ASSUME mode = "key_hash" PROVE Orders(log, q, c, made[c])
      <4>1. PICK l : l = log  OBVIOUS
      <4>2. PICK m : m = made[c]  OBVIOUS
      <4>3. Orders(l, o, c, m)  BY <2>1, <3>1, <4>1, <4>2 DEF Ordered
      <4>4. o # NoSend  BY <2>2 DEF NoSend
      <4>5. Orders(l, q, c, m)  BY <2>5, <4>3, <4>4, SameOrders
      <4>. QED  BY <4>1, <4>2, <4>5
    <3>. QED  BY <2>3, <2>5, <2>7, <3>1, DivideOrders
  <2>8. CASE /\ i \in DOMAIN log[o.topic]
             /\ \E s : Part(s, o.batches[i]) /\ Grown(log, log', o.topic, i, s)
    <3>1. PICK s : Part(s, o.batches[i]) /\ Grown(log, log', t, i, s)  BY <2>6, <2>8
    <3>2. i \in DOMAIN log[t]  BY <2>6, <2>8
    <3>. QED  BY <2>1, <2>2, <2>3, <2>5, <2>6, <3>1, <3>2, AppendOrders
  <2>. QED  BY <1>0, <1>8, <2>1, <2>4, <2>7, <2>8, SendFailsDoes
<1>9. ASSUME NEW c \in Clients, GetMetadata(c) \/ \E t \in Topics : CreateTopic(c, t)
      PROVE  Ordered'
  BY <1>1, <1>9 DEF GetMetadata, CreateTopic
<1>10. CASE UNCHANGED producerVars  BY <1>1, <1>10 DEF producerVars
<1>11. CASE ProducersNext
  BY <1>2, <1>3, <1>4, <1>5, <1>6, <1>7, <1>8, <1>9, <1>11 DEF ProducersNext
<1>. QED  BY <1>10, <1>11

\* At first the log is empty.
LEMMA OrderedInit == ASSUME ProducersInit PROVE Ordered
<1>1. \A t \in Topics : log[t] = [i \in 0 .. CountOf[t] - 1 |-> <<>>]  BY DEF ProducersInit
<1>2. ASSUME NEW t \in Topics, NEW i \in DOMAIN log[t] PROVE DOMAIN log[t][i] = {}
  <2>1. log[t][i] = <<>>  BY <1>1
  <2>2. DOMAIN <<>> = {}  OBVIOUS
  <2>. QED  BY <2>1, <2>2
<1>3. MadeIn(log, made)  BY <1>2 DEF MadeIn
<1>4. PlacedIn(log)  BY <1>2 DEF PlacedIn
<1>5. KeyIn(log)  BY <1>2 DEF KeyIn
<1>6. \A c \in Clients : Orders(log, sending[c], c, made[c])  BY DEF ProducersInit, Orders
<1>. QED  BY <1>3, <1>4, <1>5, <1>6 DEF Ordered

\* For any producers, topics, partition counts, keys, hashes and batches: with the
\* key-hash partitioner the messages of a producer with one key are in one
\* partition, each behind a copy of all that are there and were made before it,
\* although sends fail half-way and batches are sent again.
THEOREM KeysKeepOrder == ProducersSpec => []KeyOrdered
<1>1. ProducersInit => Delivery /\ Ordered  BY DeliveryInit, OrderedInit
<1>2. SendInv /\ Delivery /\ Ordered /\ [ProducersNext]_producerVars => Delivery' /\ Ordered'
  BY DeliveryStep, OrderedStep
<1>3. Ordered => KeyOrdered  BY DEF Ordered, KeyIn, KeyOrdered
<1>. QED  BY <1>1, <1>2, <1>3, SendInvariance, PTL DEF ProducersSpec

=============================================================================
