--------------------------- MODULE ClusterProofs ---------------------------
(***************************************************************************)
(* Proofs about Cluster: for any brokers, partitions, factors and bounds,  *)
(* the leader of a partition stays an in-sync replica, a new leader comes  *)
(* with a new epoch, and the high watermark stays within the log.          *)
(***************************************************************************)
EXTENDS Cluster, FiniteSetTheorems, WellFoundedInduction, TLAPS

-----------------------------------------------------------------------------
(* Arithmetic.                                                             *)

\* A set of naturals that is not empty has a smallest member.
LEMMA SmallestNat ==
    ASSUME NEW S \in SUBSET Nat, S # {}
    PROVE  \E o \in S : \A x \in S : o <= x
  <1> DEFINE R == OpToRel(<, Nat)
  <1>1. IsWellFoundedOn(R, Nat)
    BY NatLessThanWellFounded
  <1>2. \A x, y \in Nat : x < y => <<x, y>> \in R
    BY DEF OpToRel
  <1>3. PICK o \in S : \A x \in S : <<x, o>> \notin R
    <2>1. S \subseteq Nat /\ S # {}
      OBVIOUS
    <2> HIDE DEF R
    <2> QED BY <1>1, <2>1, WFMin, Zenon
  <1>4. \A x \in S : ~(x < o)
    <2> HIDE DEF R
    <2> QED BY <1>2, <1>3
  <1> QED BY <1>4

\* Positions less than n apart have different remainders.
LEMMA RemainderDiffers ==
    ASSUME NEW n \in Nat, n > 0, NEW a \in Nat, NEW b \in Nat,
           a < b, b - a < n
    PROVE  a % n # b % n
  <1> DEFINE qa == a \div n
             qb == b \div n
  <1>1. qa \in Int /\ a = n * qa + (a % n)
    BY SMT
  <1>2. qb \in Int /\ b = n * qb + (b % n)
    BY SMT
  <1> HIDE DEF qa, qb
  <1> SUFFICES ASSUME a % n = b % n PROVE FALSE
    OBVIOUS
  <1>3. n * qb - n * qa = b - a
    BY <1>1, <1>2, SMT
  <1>4. n * qb - n * qa = n * (qb - qa)
    BY <1>1, <1>2, SMT
  <1>5. qb - qa \in Int
    BY <1>1, <1>2
  <1>6. qb - qa >= 1 \/ qb - qa <= 0
    BY <1>5
  <1>7. qb - qa >= 1 => n * (qb - qa) >= n
    BY <1>5, SMT
  <1>8. qb - qa <= 0 => n * (qb - qa) <= 0
    BY <1>5, SMT
  <1> QED BY <1>3, <1>4, <1>6, <1>7, <1>8, <1>5

\* Counting on, modulo the limit, gives another number.
LEMMA NextEpochDiffers ==
    ASSUME NEW e \in Nat
    PROVE  /\ (e + 1) % EpochLimit \in Nat
           /\ (e + 1) % EpochLimit # e
  <1>1. EpochLimit \in Nat /\ EpochLimit > 1
    BY ClusterAssumption
  <1>2. (e + 1) % EpochLimit \in 0 .. EpochLimit - 1
    BY <1>1
  <1>3. CASE e < EpochLimit
    BY <1>1, <1>2, <1>3, RemainderDiffers, e % EpochLimit = e, SMT
  <1>4. CASE ~(e < EpochLimit)
    BY <1>1, <1>2, <1>4
  <1> QED BY <1>3, <1>4

-----------------------------------------------------------------------------
(* One partition.                                                          *)

\* A list of replicas: some, and none twice.
GoodReplicas(replicas) ==
    /\ replicas \in Seq(Brokers)
    /\ Len(replicas) > 0
    /\ \A i, j \in DOMAIN replicas : replicas[i] = replicas[j] => i = j

Shape(s) == s \in State /\ GoodReplicas(s.replicas)

\* Nothing in s is past the end e of the log.  The offsets count as well as the
\* watermark, which is a minimum of them at the next report.
Within(s, e) ==
    /\ \A b \in Brokers : s.offsets[b] <= e
    /\ s.watermark <= e

\* What the states of a partition must be, given the end of its log.
Sound(s, e) == Shape(s) /\ s.leader \in s.isr /\ Within(s, e)

\* PartitionReplicaState::new: all replicas are in sync, and the leader is one.
LEMMA NewStateSound ==
    ASSUME NEW replicas, GoodReplicas(replicas), NEW e \in Nat
    PROVE  Sound(NewState(replicas), e)
  <1>1. replicas[1] \in Brokers /\ 1 \in DOMAIN replicas
    BY DEF GoodReplicas
  <1>2. Members(replicas) \subseteq Brokers /\ replicas[1] \in Members(replicas)
    BY <1>1 DEF GoodReplicas, Members
  <1>3. NewState(replicas) \in State
    BY <1>1, <1>2 DEF NewState, State, GoodReplicas
  <1>4. /\ NewState(replicas).replicas = replicas
        /\ NewState(replicas).leader = replicas[1]
        /\ NewState(replicas).isr = Members(replicas)
        /\ NewState(replicas).watermark = 0
        /\ \A b \in Brokers : NewState(replicas).offsets[b] = 0
    BY DEF NewState
  <1> QED BY <1>2, <1>3, <1>4 DEF Sound, Shape, Within

\* The watermark is one of the offsets.
LEMMA MinOffsetIsOffset ==
    ASSUME NEW offsets \in [Brokers -> Nat], NEW bs \in SUBSET Brokers, bs # {}
    PROVE  \E b \in bs : MinOffset(offsets, bs) = offsets[b]
  <1> DEFINE S == {offsets[b] : b \in bs}
  <1>1. S \in SUBSET Nat /\ S # {}
    OBVIOUS
  <1>2. \E o \in S : \A x \in S : o <= x
    <2> HIDE DEF S
    <2> QED BY <1>1, SmallestNat
  <1>3. \E o \in S : \A b \in bs : o <= offsets[b]
    BY <1>2
  <1>4. MinOffset(offsets, bs) \in S
    BY <1>3 DEF MinOffset
  <1> QED BY <1>4

\* PartitionReplicaState::update_replica_offset, for a report within the log.  It
\* keeps the leader in: whoever reports, the leader does not lag behind itself.
LEMMA UpdateSound ==
    ASSUME NEW e \in Nat, NEW s, Sound(s, e),
           NEW b \in Brokers, NEW offset \in Nat, offset <= e
    PROVE  LET t == UpdateReplicaOffset(s, b, offset)
           IN  Sound(t, e) /\ t.leader = s.leader /\ t.epoch = s.epoch
  <1> DEFINE offsets == [s.offsets EXCEPT ![b] = offset]
             isr == IF offset + MaxLag >= offsets[s.leader]
                    THEN s.isr \cup {b} ELSE s.isr \ {b}
             w == IF isr = {} THEN s.watermark ELSE MinOffset(offsets, isr)
             t == UpdateReplicaOffset(s, b, offset)
  <1>1. /\ s \in State /\ GoodReplicas(s.replicas) /\ s.leader \in s.isr
        /\ \A c \in Brokers : s.offsets[c] <= e
        /\ s.watermark <= e
    BY DEF Sound, Shape, Within
  <1>2. /\ s.leader \in Brokers /\ s.isr \subseteq Brokers
        /\ s.offsets \in [Brokers -> Nat] /\ s.watermark \in Nat /\ s.epoch \in Nat
        /\ s.replicas \in Seq(Brokers)
    BY <1>1 DEF State
  <1>3. t = [s EXCEPT !.offsets = offsets, !.isr = isr, !.watermark = w]
    BY DEF UpdateReplicaOffset
  <1>4. offsets \in [Brokers -> Nat] /\ \A c \in Brokers : offsets[c] <= e
    BY <1>1, <1>2
  <1>5. isr \subseteq Brokers
    BY <1>2
  <1>6. s.leader \in isr
    <2>1. CASE b = s.leader
      <3>1. offsets[s.leader] = offset
        BY <1>2, <2>1
      <3> QED BY <3>1, <2>1, ClusterAssumption
    <2>2. CASE b # s.leader
      BY <2>2, <1>1
    <2> QED BY <2>1, <2>2
  <1>7. w \in Nat /\ w <= e
    <2> HIDE DEF offsets, isr
    <2>1. CASE isr = {}
      BY <2>1, <1>1, <1>2
    <2>2. CASE isr # {}
      <3>1. PICK c \in isr : MinOffset(offsets, isr) = offsets[c]
        BY <2>2, <1>4, <1>5, MinOffsetIsOffset
      <3> QED BY <3>1, <2>2, <1>4, <1>5
    <2> QED BY <2>1, <2>2
  <1> HIDE DEF offsets, isr, w
  <1>8. /\ t \in State
        /\ t.leader = s.leader /\ t.epoch = s.epoch /\ t.replicas = s.replicas
        /\ t.isr = isr /\ t.offsets = offsets /\ t.watermark = w
    BY <1>1, <1>3, <1>4, <1>5, <1>7 DEF State
  <1> QED BY <1>1, <1>4, <1>6, <1>7, <1>8 DEF Sound, Shape, Within

\* PartitionReplicaState::elect_new_leader, which is called when the old leader
\* is no longer in sync.
LEMMA ElectSound ==
    ASSUME NEW e \in Nat, NEW s, Shape(s), Within(s, e), NEW t \in ElectNewLeader(s)
    PROVE  Sound(t, e) /\ t.epoch # s.epoch
  <1> DEFINE epoch == (s.epoch + 1) % EpochLimit
  <1>1. /\ s \in State /\ GoodReplicas(s.replicas)
        /\ \A c \in Brokers : s.offsets[c] <= e
        /\ s.watermark <= e
    BY DEF Shape, Within
  <1>2. s.epoch \in Nat /\ s.isr \subseteq Brokers
    BY <1>1 DEF State
  <1>3. epoch \in Nat /\ epoch # s.epoch
    BY <1>2, NextEpochDiffers
  <1>4. s.replicas[1] \in Brokers
    BY <1>1 DEF GoodReplicas
  <1>5. CASE s.isr # {}
    <2>1. PICK b \in s.isr : t = [s EXCEPT !.leader = b, !.epoch = epoch]
      BY <1>5 DEF ElectNewLeader
    <2> HIDE DEF epoch
    <2>2. /\ t \in State /\ t.leader = b /\ t.isr = s.isr /\ t.epoch = epoch
          /\ t.replicas = s.replicas /\ t.offsets = s.offsets
          /\ t.watermark = s.watermark
      BY <1>1, <1>2, <1>3, <2>1 DEF State
    <2> QED BY <1>1, <1>3, <2>2 DEF Sound, Shape, Within
  <1>6. CASE s.isr = {}
    <2> DEFINE b == s.replicas[1]
    <2>1. t = [s EXCEPT !.leader = b, !.isr = {b}, !.epoch = epoch]
      BY <1>6 DEF ElectNewLeader
    <2> HIDE DEF epoch
    <2>2. b \in Brokers
      BY <1>4
    <2> HIDE DEF b
    <2>3. /\ t \in State /\ t.leader = b /\ t.isr = {b} /\ t.epoch = epoch
          /\ t.replicas = s.replicas /\ t.offsets = s.offsets
          /\ t.watermark = s.watermark
      BY <1>1, <1>3, <2>1, <2>2 DEF State
    <2> QED BY <1>1, <1>3, <2>3 DEF Sound, Shape, Within
  <1> QED BY <1>5, <1>6

\* handle_broker_failure, for one partition: a failed leader is replaced, and the
\* leader does not go out of the in-sync replicas otherwise.
LEMMA FailureSound ==
    ASSUME NEW e \in Nat, NEW s, Sound(s, e), NEW b, NEW t \in BrokerFailure(s, b)
    PROVE  Sound(t, e) /\ (t.leader # s.leader => t.epoch # s.epoch)
  <1> DEFINE rest == [s EXCEPT !.isr = @ \ {b}]
  <1>1. /\ s \in State /\ GoodReplicas(s.replicas) /\ s.leader \in s.isr
        /\ \A c \in Brokers : s.offsets[c] <= e
        /\ s.watermark <= e
    BY DEF Sound, Shape, Within
  <1>2. /\ rest \in State /\ rest.leader = s.leader /\ rest.isr = s.isr \ {b}
        /\ rest.epoch = s.epoch /\ rest.replicas = s.replicas
        /\ rest.offsets = s.offsets /\ rest.watermark = s.watermark
    BY <1>1 DEF State
  <1>3. t \in IF s.leader = b THEN ElectNewLeader(rest) ELSE {rest}
    BY DEF BrokerFailure
  <1> HIDE DEF rest
  <1>4. Shape(rest) /\ Within(rest, e)
    BY <1>1, <1>2 DEF Shape, Within
  <1>5. CASE s.leader = b
    BY <1>2, <1>3, <1>4, <1>5, ElectSound
  <1>6. CASE s.leader # b
    BY <1>1, <1>2, <1>3, <1>4, <1>6 DEF Sound
  <1> QED BY <1>5, <1>6

\* assign_partition_replicas: a window of the alive brokers around the circle, at
\* most as long as the circle, has some brokers and none twice.
LEMMA AssignSound ==
    ASSUME registered \subseteq Brokers, NEW p \in Nat, NEW replicas \in AssignReplicas(p)
    PROVE  GoodReplicas(replicas)
  <1> DEFINE bs == AliveBrokers
             n == Cardinality(bs)
             k == IF ReplicationFactor < n THEN ReplicationFactor ELSE n
  <1>1. bs \subseteq Brokers
    BY DEF AliveBrokers
  <1>2. IsFiniteSet(bs) /\ n \in Nat
    BY <1>1, ClusterAssumption, FS_Subset, FS_CardinalityType
  <1>3. replicas \in IF n = 0 THEN {<<Self>>}
                     ELSE {[i \in 1 .. k |-> order[((p + i - 1) % n) + 1]] :
                              order \in Listings(bs)}
    BY DEF AssignReplicas
  <1> HIDE DEF bs
  <1>4. CASE n = 0
    <2>1. replicas = <<Self>> /\ Self \in Brokers
      BY <1>3, <1>4, ClusterAssumption
    <2>2. Len(replicas) = 1 /\ DOMAIN replicas = {1} /\ replicas \in Seq(Brokers)
      BY <2>1
    <2> QED BY <2>2 DEF GoodReplicas
  <1>5. CASE n # 0
    <2> HIDE DEF n
    <2>1. n > 0 /\ k \in Nat /\ k > 0 /\ k <= n
      BY <1>2, <1>5, ClusterAssumption
    <2> HIDE DEF k
    <2>2. PICK order \in Listings(bs) :
             replicas = [i \in 1 .. k |-> order[((p + i - 1) % n) + 1]]
      BY <1>3, <1>5
    <2>3. order \in [1 .. n -> bs] /\ Members(order) = bs
      BY DEF Listings, n
    <2>4. \A i, j \in 1 .. n : order[i] = order[j] => i = j
      <3>1. IsFiniteSet(1 .. n) /\ Cardinality(1 .. n) = n
        BY <1>2, FS_Interval
      <3>2. order \in Surjection(1 .. n, bs)
        BY <2>3 DEF Members, Surjection
      <3>3. order \in Injection(1 .. n, bs)
        BY <3>1, <3>2, FS_SurjSameCardinalityImpliesInj DEF n
      <3> QED BY <3>3 DEF Injection, IsInjective
    <2>5. \A i \in 1 .. k : ((p + i - 1) % n) + 1 \in 1 .. n
      <3> TAKE i \in 1 .. k
      <3>1. p + i - 1 \in Nat
        BY <2>1
      <3> QED BY <3>1, <1>2, <2>1
    <2>6. replicas \in [1 .. k -> Brokers]
      BY <1>1, <2>2, <2>3, <2>5
    <2>7. replicas \in Seq(Brokers) /\ Len(replicas) = k /\ DOMAIN replicas = 1 .. k
      BY <2>1, <2>6
    <2>8. \A i, j \in 1 .. k : i < j => replicas[i] # replicas[j]
      <3> SUFFICES ASSUME NEW i \in 1 .. k, NEW j \in 1 .. k, i < j
                   PROVE  replicas[i] # replicas[j]
        OBVIOUS
      <3>1. (p + i - 1) \in Nat /\ (p + j - 1) \in Nat
        BY <2>1
      <3>2. (p + i - 1) < (p + j - 1) /\ (p + j - 1) - (p + i - 1) < n
        BY <1>2, <2>1
      <3>3. (p + i - 1) % n # (p + j - 1) % n
        BY <1>2, <2>1, <3>1, <3>2, RemainderDiffers
      <3>4. /\ ((p + i - 1) % n) + 1 \in 1 .. n
            /\ ((p + j - 1) % n) + 1 \in 1 .. n
        BY <2>5
      <3>5. ((p + i - 1) % n) + 1 # ((p + j - 1) % n) + 1
        BY <3>1, <3>3, <1>2, <2>1
      <3> QED BY <2>2, <2>4, <3>4, <3>5
    <2> QED
      <3>1. \A i, j \in 1 .. k : i < j \/ j < i \/ i = j
        BY <2>1
      <3> QED BY <2>1, <2>7, <2>8, <3>1 DEF GoodReplicas
  <1> QED BY <1>4, <1>5

-----------------------------------------------------------------------------
(* The inductive invariant.                                                *)

\* What is on its way to a state is as good as what is in one: the replicas that
\* were picked for a partition that is still to come, and the offsets reported.
Pending ==
    /\ \A replicas \in picked : GoodReplicas(replicas)
    /\ picked # {} => next < NumPartitions
    /\ \A r \in reports : r[2] <= end[r[1]]

Inv ==
    /\ TypeOK
    /\ Pending
    /\ \A p \in DOMAIN states : Sound(states[p], end[p])

\* The states have this shape in Inv.
LEMMA InvFacts ==
    ASSUME Inv
    PROVE  /\ LeaderInSync /\ WatermarkWithinLog
           /\ DOMAIN states = 0 .. next - 1
           /\ DOMAIN states \subseteq Partitions
           /\ next \in Nat /\ NumPartitions \in Nat
           /\ \A p \in Partitions : end[p] \in Nat
  <1>1. LeaderInSync /\ WatermarkWithinLog
    BY DEF Inv, Sound, Within, LeaderInSync, WatermarkWithinLog
  <1>2. /\ DOMAIN states = 0 .. next - 1 /\ next \in 0 .. NumPartitions
        /\ end \in [Partitions -> Nat] /\ NumPartitions \in Nat
    BY ClusterAssumption DEF Inv, TypeOK
  <1>3. DOMAIN states \subseteq Partitions
    BY <1>2 DEF Partitions
  <1> QED BY <1>1, <1>2, <1>3

\* TypeOK says of a state what Shape says.
LEMMA StatesTyped ==
    ASSUME NEW ss, NEW D, DOMAIN ss = D, ss = [p \in D |-> ss[p]],
           \A p \in D : Shape(ss[p])
    PROVE  /\ ss \in [DOMAIN ss -> State]
           /\ \A p \in DOMAIN ss :
                 /\ Len(ss[p].replicas) > 0
                 /\ \A i, j \in DOMAIN ss[p].replicas :
                       ss[p].replicas[i] = ss[p].replicas[j] => i = j
  <1>1. \A p \in D : ss[p] \in State
    BY DEF Shape
  <1>2. ss \in [D -> State]
    BY <1>1
  <1> QED BY <1>2 DEF Shape, GoodReplicas

\* The part of TypeOK that is not about the states.
Typed ==
    /\ running \subseteq Brokers /\ registered \subseteq Brokers
    /\ age \in [Brokers -> 0 .. Timeout]
    /\ created \in BOOLEAN
    /\ next \in 0 .. NumPartitions
    /\ picked \subseteq Seq(Brokers)
    /\ seen \subseteq SUBSET Brokers
    /\ end \in [Partitions -> Nat]
    /\ reports \subseteq Partitions \X Nat
    /\ failed \subseteq Partitions \X Brokers

\* Nothing is there when the broker starts.
LEMMA InitInv == Init => Inv
  <1> SUFFICES ASSUME Init PROVE Inv
    OBVIOUS
  <1>1. DOMAIN states = {}
    BY DEF Init
  <1>2. 0 .. next - 1 = {}
    BY DEF Init
  <1>3. states \in [DOMAIN states -> State]
    BY DEF Init
  <1>4. Typed
    <2>1. age \in [Brokers -> 0 .. Timeout]
      <3>1. 0 \in 0 .. Timeout
        BY ClusterAssumption
      <3> QED BY <3>1 DEF Init
    <2>2. end \in [Partitions -> Nat]
      BY DEF Init
    <2>3. next \in 0 .. NumPartitions
      BY ClusterAssumption DEF Init
    <2>4. running \subseteq Brokers /\ registered \subseteq Brokers
      BY ClusterAssumption DEF Init
    <2>5. /\ created \in BOOLEAN /\ picked \subseteq Seq(Brokers)
          /\ seen \subseteq SUBSET Brokers /\ reports \subseteq Partitions \X Nat
          /\ failed \subseteq Partitions \X Brokers
      BY DEF Init
    <2> QED BY <2>1, <2>2, <2>3, <2>4, <2>5 DEF Typed
  <1>5. TypeOK
    BY <1>1, <1>2, <1>3, <1>4 DEF Typed, TypeOK
  <1>6. Pending
    BY DEF Init, Pending
  <1> QED BY <1>1, <1>5, <1>6 DEF Inv

\* Inv after a step, from its parts.
LEMMA InvAfter ==
    ASSUME Typed', Pending', NEW D, states' = [p \in D |-> states'[p]],
           D = 0 .. next' - 1, \A p \in D : Sound(states'[p], end'[p])
    PROVE  Inv'
  <1>1. DOMAIN states' = D
    OBVIOUS
  <1>2. \A p \in D : Shape(states'[p])
    BY DEF Sound
  <1>3. /\ states' \in [DOMAIN states' -> State]
        /\ \A p \in DOMAIN states' :
              /\ Len(states'[p].replicas) > 0
              /\ \A i, j \in DOMAIN states'[p].replicas :
                    states'[p].replicas[i] = states'[p].replicas[j] => i = j
    BY <1>1, <1>2, StatesTyped
  <1>4. TypeOK'
    BY <1>1, <1>3 DEF Typed, TypeOK
  <1> QED BY <1>1, <1>4 DEF Inv

\* A step that leaves the states and the ends of the logs alone.
LEMMA InvSame ==
    ASSUME Inv, Typed', Pending', states' = states, end' = end, next' = next
    PROVE  Inv'
  <1>1. TypeOK'
    BY DEF Inv, Typed, TypeOK
  <1> QED BY <1>1 DEF Inv

-----------------------------------------------------------------------------
(* The actions.                                                            *)

\* A broker registers, or stops, the topic appears, or the clock moves.
LEMMA SimpleInv ==
    ASSUME Inv, \/ \E b \in Brokers : RegisterBroker(b) \/ Stop(b)
                \/ CreateTopic \/ Tick
    PROVE  Inv' /\ states' = states
  <1>1. Typed
    BY DEF Inv, TypeOK, Typed
  <1>2. /\ states' = states /\ end' = end /\ next' = next
        /\ picked' = picked /\ reports' = reports
    BY DEF RegisterBroker, Stop, CreateTopic, Tick
  <1>3. Pending'
    BY <1>2 DEF Inv, Pending
  <1>4. Typed'
    <2>1. CASE \E b \in Brokers : RegisterBroker(b)
      BY <1>1, <2>1, ClusterAssumption DEF Typed, RegisterBroker
    <2>2. CASE \E b \in Brokers : Stop(b)
      BY <1>1, <2>2 DEF Typed, Stop
    <2>3. CASE CreateTopic
      BY <1>1, <2>3 DEF Typed, CreateTopic
    <2>4. CASE Tick
      <3>1. age' \in [Brokers -> 0 .. Timeout]
        BY <1>1, <2>4, ClusterAssumption DEF Typed, Tick
      <3> QED BY <1>1, <2>4, <3>1 DEF Typed, Tick
    <2> QED BY <2>1, <2>2, <2>3, <2>4
  <1> QED BY <1>2, <1>3, <1>4, InvSame

\* The CreateTopic handler picks replicas.
LEMMA AssignPartitionReplicasInv ==
    ASSUME Inv, AssignPartitionReplicas
    PROVE  Inv' /\ states' = states
  <1>1. Typed
    BY DEF Inv, TypeOK, Typed
  <1>2. PICK replicas \in AssignReplicas(next) : picked' = {replicas}
    BY DEF AssignPartitionReplicas
  <1>3. next \in Nat /\ registered \subseteq Brokers
    BY <1>1, ClusterAssumption DEF Typed
  <1>4. GoodReplicas(replicas)
    BY <1>3, AssignSound
  <1>5. Pending'
    BY <1>2, <1>4 DEF Inv, Pending, AssignPartitionReplicas
  <1>6. Typed'
    BY <1>1, <1>2, <1>4 DEF Typed, AssignPartitionReplicas, GoodReplicas
  <1>7. states' = states /\ end' = end /\ next' = next
    BY DEF AssignPartitionReplicas
  <1> QED BY <1>5, <1>6, <1>7, InvSame

\* It sets them.
LEMMA SetPartitionReplicasInv ==
    ASSUME Inv, SetPartitionReplicas
    PROVE  Inv' /\ \A p \in DOMAIN states : states'[p] = states[p]
  <1>1. Typed
    BY DEF Inv, TypeOK, Typed
  <1> DEFINE D == DOMAIN states \cup {next}
  <1>2. PICK replicas \in picked :
           states' = [p \in D |-> IF p = next THEN NewState(replicas) ELSE states[p]]
    BY DEF SetPartitionReplicas
  <1>3. /\ next' = next + 1 /\ picked' = {} /\ end' = end /\ reports' = reports
    BY DEF SetPartitionReplicas
  <1>4. /\ GoodReplicas(replicas) /\ next < NumPartitions
        /\ next \in Nat /\ NumPartitions \in Nat /\ DOMAIN states = 0 .. next - 1
    BY InvFacts DEF Inv, Pending
  <1>5. D = 0 .. next' - 1 /\ next \notin DOMAIN states
    BY <1>3, <1>4
  <1>6. next \in Partitions /\ end[next] \in Nat
    BY <1>4, InvFacts DEF Partitions
  <1> HIDE DEF D
  <1>7. states' = [p \in D |-> states'[p]]
    BY <1>2
  <1>8. \A p \in D : Sound(states'[p], end'[p])
    <2> SUFFICES ASSUME NEW p \in D PROVE Sound(states'[p], end[p])
      BY <1>3
    <2>1. CASE p = next
      BY <1>2, <1>4, <1>6, <2>1, NewStateSound
    <2>2. CASE p # next
      BY <1>2, <2>2 DEF D, Inv
    <2> QED BY <2>1, <2>2
  <1>9. Pending'
    BY <1>3 DEF Inv, Pending
  <1>10. Typed'
    BY <1>1, <1>3, <1>4 DEF Typed, SetPartitionReplicas
  <1>11. Inv'
    BY <1>5, <1>7, <1>8, <1>9, <1>10, InvAfter
  <1> QED BY <1>2, <1>5, <1>11 DEF D

\* A Produce handler appends: the log grows, and what is reported later is
\* within it.
LEMMA AppendMessageInv ==
    ASSUME Inv, NEW q \in Partitions, AppendMessage(q)
    PROVE  Inv' /\ states' = states
  <1>1. Typed
    BY DEF Inv, TypeOK, Typed
  <1>2. /\ states' = states /\ next' = next /\ picked' = picked
        /\ end' = [end EXCEPT ![q] = @ + 1]
        /\ reports' = reports \cup {<<q, end[q] + 1>>}
    BY DEF AppendMessage, FinalOffset
  <1>3. end' \in [Partitions -> Nat] /\ \A p \in Partitions : end[p] <= end'[p]
    BY <1>1, <1>2 DEF Typed
  <1>4. end[q] \in Nat /\ end'[q] = end[q] + 1
    BY <1>1, <1>2 DEF Typed
  <1>5. Typed'
    BY <1>1, <1>2, <1>3, <1>4 DEF Typed, AppendMessage
  <1>6. \A r \in reports' : r[2] <= end'[r[1]]
    <2> SUFFICES ASSUME NEW r \in reports' PROVE r[2] <= end'[r[1]]
      OBVIOUS
    <2>1. CASE r \in reports
      <3>1. r[1] \in Partitions /\ r[2] \in Nat /\ r[2] <= end[r[1]]
        BY <1>1, <2>1 DEF Typed, Inv, Pending
      <3>2. end[r[1]] \in Nat /\ end'[r[1]] \in Nat /\ end[r[1]] <= end'[r[1]]
        BY <1>1, <1>3, <3>1 DEF Typed
      <3> QED BY <3>1, <3>2
    <2>2. CASE r = <<q, end[q] + 1>>
      BY <1>4, <2>2
    <2> QED BY <1>2, <2>1, <2>2
  <1>7. Pending'
    BY <1>2, <1>6 DEF Inv, Pending
  <1>8. \A p \in DOMAIN states : Sound(states'[p], end'[p])
    <2> SUFFICES ASSUME NEW p \in DOMAIN states PROVE Sound(states[p], end'[p])
      BY <1>2
    <2>1. p \in Partitions
      BY InvFacts
    <2>2. end[p] \in Nat /\ end'[p] \in Nat /\ end[p] <= end'[p]
      BY <1>1, <1>3, <2>1 DEF Typed
    <2>3. Shape(states[p]) /\ states[p].leader \in states[p].isr
      BY DEF Inv, Sound
    <2>4. /\ \A b \in Brokers : states[p].offsets[b] \in Nat
          /\ states[p].watermark \in Nat
      BY <2>3 DEF Shape, State
    <2>5. Within(states[p], end[p])
      BY DEF Inv, Sound
    <2>6. Within(states[p], end'[p])
      BY <2>2, <2>4, <2>5 DEF Within
    <2> QED BY <2>3, <2>6 DEF Sound
  <1>9. /\ DOMAIN states = 0 .. next' - 1
        /\ states' = [p \in DOMAIN states |-> states'[p]]
    BY <1>2, InvFacts DEF Inv, TypeOK
  <1> QED BY <1>2, <1>5, <1>7, <1>8, <1>9, InvAfter

\* It reports, early or late.
LEMMA UpdateLeaderOffsetInv ==
    ASSUME Inv, NEW r \in reports, UpdateLeaderOffset(r)
    PROVE  /\ Inv'
           /\ \A p \in DOMAIN states : states'[p].leader = states[p].leader
  <1>1. Typed
    BY DEF Inv, TypeOK, Typed
  <1> DEFINE D == DOMAIN states
  <1>2. states' = [p \in D |->
           IF p = r[1] THEN UpdateReplicaOffset(states[p], Self, r[2]) ELSE states[p]]
    BY DEF UpdateLeaderOffset
  <1>3. /\ next' = next /\ picked' = picked /\ end' = end /\ reports' \subseteq reports
    BY DEF UpdateLeaderOffset
  <1>4. r[1] \in Partitions /\ r[2] \in Nat /\ r[2] <= end[r[1]] /\ Self \in Brokers
    BY <1>1, ClusterAssumption DEF Typed, Inv, Pending
  <1>5. \A p \in D : Sound(states[p], end[p]) /\ end[p] \in Nat
    BY InvFacts DEF Inv
  <1>6. D = 0 .. next' - 1
    BY <1>3, InvFacts
  <1> HIDE DEF D
  <1>7. states' = [p \in D |-> states'[p]]
    BY <1>2
  <1>8. \A p \in D : Sound(states'[p], end[p]) /\ states'[p].leader = states[p].leader
    <2> TAKE p \in D
    <2>1. CASE p = r[1]
      BY <1>2, <1>4, <1>5, <2>1, UpdateSound
    <2>2. CASE p # r[1]
      BY <1>2, <1>5, <2>2
    <2> QED BY <2>1, <2>2
  <1>9. Pending'
    BY <1>3 DEF Inv, Pending
  <1>10. Typed'
    BY <1>1, <1>3 DEF Typed, UpdateLeaderOffset
  <1>11. Inv'
    BY <1>3, <1>6, <1>7, <1>8, <1>9, <1>10, InvAfter
  <1> QED BY <1>8, <1>11 DEF D

\* The health check looks at the brokers, and at the states.
LEMMA HealthCheckInv ==
    ASSUME Inv, CheckBrokerHealth \/ FindDeadLeaders
    PROVE  Inv' /\ states' = states
  <1>1. Typed
    BY DEF Inv, TypeOK, Typed
  <1>2. /\ states' = states /\ end' = end /\ next' = next
        /\ picked' = picked /\ reports' = reports
    BY DEF CheckBrokerHealth, FindDeadLeaders
  <1>3. Pending'
    BY <1>2 DEF Inv, Pending
  <1>4. \A p \in DOMAIN states : p \in Partitions /\ states[p].leader \in Brokers
    BY InvFacts DEF Inv, Sound, Shape, State
  <1>5. CASE CheckBrokerHealth
    <2>1. seen' \subseteq SUBSET Brokers
      BY <1>1, <1>5 DEF Typed, CheckBrokerHealth, AliveBrokers
    <2>2. Typed'
      BY <1>1, <1>5, <2>1 DEF Typed, CheckBrokerHealth
    <2> QED BY <1>2, <1>3, <2>2, InvSame
  <1>6. CASE FindDeadLeaders
    <2>1. PICK alive \in seen :
             failed' = {<<p, states[p].leader>> :
                           p \in {q \in DOMAIN states : states[q].leader \notin alive}}
      BY <1>6 DEF FindDeadLeaders
    <2>2. failed' \subseteq Partitions \X Brokers
      BY <1>4, <2>1
    <2>3. Typed'
      BY <1>1, <1>6, <2>2 DEF Typed, FindDeadLeaders
    <2> QED BY <1>2, <1>3, <2>3, InvSame
  <1> QED BY <1>5, <1>6

\* It handles a failure, on states that may have changed since.
LEMMA HandleBrokerFailureInv ==
    ASSUME Inv, NEW f \in failed, HandleBrokerFailure(f)
    PROVE  /\ Inv'
           /\ \A p \in DOMAIN states :
                 states'[p].leader # states[p].leader => states'[p].epoch # states[p].epoch
  <1>1. Typed
    BY DEF Inv, TypeOK, Typed
  <1> DEFINE D == DOMAIN states
             B == UNION {BrokerFailure(states[p], f[2]) : p \in DOMAIN states}
  <1>2. /\ states' \in [D -> B]
        /\ \A p \in D : states'[p] \in BrokerFailure(states[p], f[2])
    BY DEF HandleBrokerFailure
  <1>3. /\ next' = next /\ picked' = picked /\ end' = end /\ reports' = reports
        /\ failed' \subseteq failed
    BY DEF HandleBrokerFailure
  <1>4. \A p \in D : Sound(states[p], end[p]) /\ end[p] \in Nat
    BY InvFacts DEF Inv
  <1>5. D = 0 .. next' - 1
    BY <1>3, InvFacts
  <1> HIDE DEF D, B
  <1>6. states' = [p \in D |-> states'[p]]
    BY <1>2
  <1>7. \A p \in D :
           /\ Sound(states'[p], end[p])
           /\ states'[p].leader # states[p].leader => states'[p].epoch # states[p].epoch
    BY <1>2, <1>4, FailureSound
  <1>8. Pending'
    BY <1>3 DEF Inv, Pending
  <1>9. Typed'
    BY <1>1, <1>3 DEF Typed, HandleBrokerFailure
  <1>10. Inv'
    BY <1>3, <1>5, <1>6, <1>7, <1>8, <1>9, InvAfter
  <1> QED BY <1>7, <1>10 DEF D

-----------------------------------------------------------------------------
(* The theorems.                                                           *)

\* What a step may do to the leader of a partition.
Fenced ==
    \A p \in DOMAIN states :
        states'[p].leader # states[p].leader => states'[p].epoch # states[p].epoch

\* Every step preserves Inv and changes a leader only with the epoch.
LEMMA NextInv == Inv /\ [Next]_vars => Inv' /\ Fenced
  <1> SUFFICES ASSUME Inv, [Next]_vars PROVE Inv' /\ Fenced
    OBVIOUS
  <1>1. CASE \/ \E b \in Brokers : RegisterBroker(b) \/ Stop(b)
             \/ CreateTopic \/ Tick
    BY <1>1, SimpleInv DEF Fenced
  <1>2. CASE AssignPartitionReplicas
    BY <1>2, AssignPartitionReplicasInv DEF Fenced
  <1>3. CASE SetPartitionReplicas
    BY <1>3, SetPartitionReplicasInv DEF Fenced
  <1>4. CASE \E p \in Partitions : AppendMessage(p)
    BY <1>4, AppendMessageInv DEF Fenced
  <1>5. CASE \E r \in reports : UpdateLeaderOffset(r)
    BY <1>5, UpdateLeaderOffsetInv DEF Fenced
  <1>6. CASE CheckBrokerHealth \/ FindDeadLeaders
    BY <1>6, HealthCheckInv DEF Fenced
  <1>7. CASE \E f \in failed : HandleBrokerFailure(f)
    BY <1>7, HandleBrokerFailureInv DEF Fenced
  <1>8. CASE UNCHANGED vars
    <2>1. Inv'
      BY <1>8 DEF Inv, TypeOK, Pending, vars
    <2> QED BY <1>8, <2>1 DEF Fenced, vars
  <1> QED
    BY <1>1, <1>2, <1>3, <1>4, <1>5, <1>6, <1>7, <1>8 DEF Next

\* Inv holds always.
LEMMA Invariance == Spec => []Inv
  BY InitInv, NextInv, PTL DEF Spec

\* Every state of a partition has the shape of PartitionReplicaState, with at
\* least one replica and none twice, whatever brokers were alive when
\* assign_partition_replicas chose them.
THEOREM ClusterTypeCorrect == Spec => []TypeOK
  <1>1. Inv => TypeOK
    BY DEF Inv
  <1> QED BY <1>1, Invariance, PTL

\* is_leader_in_sync holds of every partition at all times.
THEOREM LeaderStaysInSync == Spec => []LeaderInSync
  <1>1. Inv => LeaderInSync
    BY InvFacts
  <1> QED BY <1>1, Invariance, PTL

\* The high watermark never passes the end of the log, in whatever order
\* the Produce handlers report.
THEOREM WatermarkStaysWithinLog == Spec => []WatermarkWithinLog
  <1>1. Inv => WatermarkWithinLog
    BY InvFacts
  <1> QED BY <1>1, Invariance, PTL

\* elect_new_leader counts leader_epoch at every change of the leader, however
\* often one health check handles the same failure.
THEOREM LeaderChangesAreFenced == Spec => EpochFences
  <1>1. Inv /\ [Next]_vars => [Fenced]_vars
    BY NextInv
  <1> QED BY <1>1, Invariance, PTL DEF Spec, EpochFences, Fenced

=============================================================================
