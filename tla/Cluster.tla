------------------------------ MODULE Cluster ------------------------------
(***************************************************************************)
(* One broker's view of the cluster: broker/src/cluster.rs (registered     *)
(* brokers, and per partition the leader, the in-sync replicas, the offsets *)
(* and the high watermark) and broker/src/replication.rs (assignment of    *)
(* replicas, health check and election), driven by the CreateTopic,        *)
(* Produce and RegisterBroker handlers of broker/src/server.rs and by its  *)
(* health-check task.                                                      *)
(*                                                                         *)
(* A handler runs on its own thread and locks one entry of a map at a time, *)
(* so its calls interleave with those of the others.  The broker itself    *)
(* registers when it starts and its heartbeat is never refreshed; followers *)
(* report no offsets, since nothing starts the follower loop.              *)
(***************************************************************************)
EXTENDS Naturals, Sequences, FiniteSets

CONSTANTS
    Brokers,       \* broker ids
    Self,          \* the id of this broker
    NumPartitions, \* partitions of the topic that is created
    ReplicationFactor,
    MaxLag,        \* isr_lag_threshold
    Timeout,       \* broker_timeout, in ticks of the clock
    EpochLimit,    \* leader_epoch is counted modulo this: 2^32 in the code
    MaxOffset      \* bound: messages appended to a partition

ASSUME ClusterAssumption ==
    /\ Self \in Brokers
    /\ IsFiniteSet(Brokers)
    /\ NumPartitions \in Nat
    /\ ReplicationFactor \in Nat \ {0}
    /\ MaxLag \in Nat
    /\ Timeout \in Nat \ {0}
    /\ EpochLimit \in Nat /\ EpochLimit > 1
    /\ MaxOffset \in Nat

Partitions == 0 .. NumPartitions - 1

VARIABLES
    running,     \* the brokers whose process runs
    registered,  \* the keys of `brokers'
    age,         \* broker -> ticks since its last_heartbeat
    created,     \* whether the topic exists
    next,        \* the partition the CreateTopic handler assigns next
    picked,      \* the replicas it has picked for it: none, or a set of one list
    states,      \* partition -> PartitionReplicaState
    end,         \* partition -> next_offset of its log
    reports,     \* Produce handlers between append and update_leader_offset
    seen,        \* the alive brokers that the health check saw: none, or one set
    failed       \* the leaders that the health check still has to replace

vars == <<running, registered, age, created, next, picked, states, end, reports, seen, failed>>

-----------------------------------------------------------------------------
(* PartitionReplicaState.                                                  *)

State == [leader : Brokers, replicas : Seq(Brokers), isr : SUBSET Brokers,
          offsets : [Brokers -> Nat], watermark : Nat, epoch : Nat]

Members(replicas) == {replicas[i] : i \in DOMAIN replicas}

\* PartitionReplicaState::new.
NewState(replicas) ==
    [leader |-> replicas[1], replicas |-> replicas, isr |-> Members(replicas),
     offsets |-> [b \in Brokers |-> 0], watermark |-> 0, epoch |-> 0]

\* The smallest offset of the brokers bs.
MinOffset(offsets, bs) ==
    CHOOSE o \in {offsets[b] : b \in bs} : \A b \in bs : o <= offsets[b]

\* PartitionReplicaState::update_replica_offset: only the broker that reports
\* is taken in or out, then update_high_watermark.
UpdateReplicaOffset(s, b, offset) ==
    LET offsets == [s.offsets EXCEPT ![b] = offset]
        isr     == IF offset + MaxLag >= offsets[s.leader]
                   THEN s.isr \cup {b} ELSE s.isr \ {b}
    IN  [s EXCEPT !.offsets = offsets, !.isr = isr,
                  !.watermark = IF isr = {} THEN @ ELSE MinOffset(offsets, isr)]

\* Wrong variants: an election from outside the in-sync replicas leaves them
\* empty, or does not count as an epoch.
ElectOutside(s) ==
    LET epoch == (s.epoch + 1) % EpochLimit
    IN  IF s.isr # {} THEN {[s EXCEPT !.leader = b, !.epoch = epoch] : b \in s.isr}
        ELSE {[s EXCEPT !.leader = s.replicas[1], !.epoch = epoch]}

ElectUncounted(s) ==
    IF s.isr # {} THEN {[s EXCEPT !.leader = b] : b \in s.isr}
    ELSE {[s EXCEPT !.leader = s.replicas[1], !.isr = {s.replicas[1]}]}

\* PartitionReplicaState::elect_new_leader: what it may lead to, since a HashSet
\* has no first member.
ElectNewLeader(s) ==
    LET epoch == (s.epoch + 1) % EpochLimit
    IN  IF s.isr # {} THEN {[s EXCEPT !.leader = b, !.epoch = epoch] : b \in s.isr}
        ELSE {[s EXCEPT !.leader = s.replicas[1], !.isr = {s.replicas[1]},
                        !.epoch = epoch]}

\* ClusterMetadata::handle_broker_failure, for one partition.
BrokerFailure(s, b) ==
    LET rest == [s EXCEPT !.isr = @ \ {b}]
    IN  IF s.leader = b THEN ElectNewLeader(rest) ELSE {rest}

-----------------------------------------------------------------------------
(* Brokers and assignment.                                                 *)

\* BrokerInfo::is_alive and get_alive_brokers.
AliveBrokers == {b \in registered : age[b] < Timeout}

\* The orders in which get_alive_brokers may list them.
Listings(bs) == {s \in [1 .. Cardinality(bs) -> bs] : Members(s) = bs}

\* Wrong variant: as many replicas as asked for, with some brokers twice.
AssignMany(p) ==
    LET n == Cardinality(AliveBrokers)
    IN  IF n = 0 THEN {<<Self>>}
        ELSE {[i \in 1 .. ReplicationFactor |-> order[((p + i - 1) % n) + 1]] :
                 order \in Listings(AliveBrokers)}

\* ReplicationManager::assign_partition_replicas: the leader is the first.
AssignReplicas(p) ==
    LET n == Cardinality(AliveBrokers)
        k == IF ReplicationFactor < n THEN ReplicationFactor ELSE n
    IN  IF n = 0 THEN {<<Self>>}
        ELSE {[i \in 1 .. k |-> order[((p + i - 1) % n) + 1]] :
                 order \in Listings(AliveBrokers)}

-----------------------------------------------------------------------------

Init ==
    /\ running = Brokers
    /\ registered = {Self}
    /\ age = [b \in Brokers |-> 0]
    /\ created = FALSE
    /\ next = 0
    /\ picked = {}
    /\ states = <<>>
    /\ end = [p \in Partitions |-> 0]
    /\ reports = {}
    /\ seen = {}
    /\ failed = {}

\* The RegisterBroker handler, for another broker that runs.
RegisterBroker(b) ==
    /\ b \in running \ {Self}
    /\ registered' = registered \cup {b}
    /\ age' = [age EXCEPT ![b] = 0]
    /\ UNCHANGED <<running, created, next, picked, states, end, reports, seen, failed>>

\* The CreateTopic handler: the topic is there for everyone ...
CreateTopic ==
    /\ ~created
    /\ created' = TRUE
    /\ UNCHANGED <<running, registered, age, next, picked, states, end, reports, seen, failed>>

\* ... before replicas are picked for one partition after another ...
AssignPartitionReplicas ==
    /\ created
    /\ next < NumPartitions
    /\ picked = {}
    /\ \E replicas \in AssignReplicas(next) : picked' = {replicas}
    /\ UNCHANGED <<running, registered, age, created, next, states, end, reports, seen, failed>>

\* ... and set_partition_replicas is called for it.
SetPartitionReplicas ==
    /\ \E replicas \in picked :
          states' = [p \in DOMAIN states \cup {next} |->
                        IF p = next THEN NewState(replicas) ELSE states[p]]
    /\ picked' = {}
    /\ next' = next + 1
    /\ UNCHANGED <<running, registered, age, created, end, reports, seen, failed>>

\* Wrong variant: one too far.
PastFinalOffset(p) == end[p] + 2

\* base_offset + count, for the one message of a request.
FinalOffset(p) == end[p] + 1

\* The Produce handler, on whatever broker it runs: append ...
AppendMessage(p) ==
    /\ created
    /\ end[p] < MaxOffset
    /\ end' = [end EXCEPT ![p] = @ + 1]
    /\ reports' = reports \cup {<<p, FinalOffset(p)>>}
    /\ UNCHANGED <<running, registered, age, created, next, picked, states, seen, failed>>

\* ... then update_leader_offset, which does nothing without a state.
UpdateLeaderOffset(r) ==
    /\ states' = [p \in DOMAIN states |->
          IF p = r[1] THEN UpdateReplicaOffset(states[p], Self, r[2]) ELSE states[p]]
    /\ reports' = reports \ {r}
    /\ UNCHANGED <<running, registered, age, created, next, picked, end, seen, failed>>

\* check_broker_health: which brokers are alive ...
CheckBrokerHealth ==
    /\ seen = {} /\ failed = {}
    /\ seen' = {AliveBrokers}
    /\ UNCHANGED <<running, registered, age, created, next, picked, states, end, reports, failed>>

\* ... then a copy of the states, and which of their leaders are not among them.
FindDeadLeaders ==
    /\ \E alive \in seen :
          failed' = {<<p, states[p].leader>> :
                        p \in {q \in DOMAIN states : states[q].leader \notin alive}}
    /\ seen' = {}
    /\ UNCHANGED <<running, registered, age, created, next, picked, states, end, reports>>

\* For each state whose leader was dead, handle_broker_failure visits all of
\* the partitions, one entry after another.  No step here reads two of them, so
\* the visits are one step.
HandleBrokerFailure(f) ==
    /\ failed' = failed \ {f}
    /\ \E new \in [DOMAIN states -> UNION {BrokerFailure(states[p], f[2]) : p \in DOMAIN states}] :
          /\ \A p \in DOMAIN states : new[p] \in BrokerFailure(states[p], f[2])
          /\ states' = new
    /\ UNCHANGED <<running, registered, age, created, next, picked, end, reports, seen>>

\* The clock moves, up to the timeout.
Tick ==
    /\ age' = [b \in Brokers |->
          IF b \in registered /\ age[b] < Timeout THEN age[b] + 1 ELSE age[b]]
    /\ UNCHANGED <<running, registered, created, next, picked, states, end, reports, seen, failed>>

\* Another broker stops for good.
Stop(b) ==
    /\ b \in running \ {Self}
    /\ running' = running \ {b}
    /\ UNCHANGED <<registered, age, created, next, picked, states, end, reports, seen, failed>>

Next ==
    \/ \E b \in Brokers : RegisterBroker(b) \/ Stop(b)
    \/ CreateTopic
    \/ AssignPartitionReplicas
    \/ SetPartitionReplicas
    \/ \E p \in Partitions : AppendMessage(p)
    \/ \E r \in reports : UpdateLeaderOffset(r)
    \/ CheckBrokerHealth
    \/ FindDeadLeaders
    \/ \E f \in failed : HandleBrokerFailure(f)
    \/ Tick

Spec == Init /\ [][Next]_vars

-----------------------------------------------------------------------------
(* Properties.                                                             *)

\* Type invariant: the states have the shape of PartitionReplicaState, with at
\* least one replica and none twice, for the partitions assigned so far.
TypeOK ==
    /\ running \subseteq Brokers /\ registered \subseteq Brokers
    /\ age \in [Brokers -> 0 .. Timeout]
    /\ created \in BOOLEAN
    /\ next \in 0 .. NumPartitions
    /\ DOMAIN states = 0 .. next - 1
    /\ states \in [DOMAIN states -> State]
    /\ \A p \in DOMAIN states :
          /\ Len(states[p].replicas) > 0
          /\ \A i, j \in DOMAIN states[p].replicas :
                states[p].replicas[i] = states[p].replicas[j] => i = j
    /\ picked \subseteq Seq(Brokers)
    /\ seen \subseteq SUBSET Brokers
    /\ end \in [Partitions -> Nat]
    /\ reports \subseteq Partitions \X Nat
    /\ failed \subseteq Partitions \X Brokers

\* The leader is one of the in-sync replicas, as is_leader_in_sync expects,
\* through any elections of stale snapshots and offsets reported in any order.
LeaderInSync == \A p \in DOMAIN states : states[p].leader \in states[p].isr

\* A partition never gets another leader in the same epoch, even when one check
\* handles a failure several times and elects one failed broker after another.
EpochFences ==
    [][\A p \in DOMAIN states :
          states'[p].leader # states[p].leader => states'[p].epoch # states[p].epoch]_vars

\* The high watermark never passes the end of the log, in whatever order the
\* Produce handlers report.
WatermarkWithinLog == \A p \in DOMAIN states : states[p].watermark <= end[p]

=============================================================================
