-------------------------- MODULE GroupCoordinator --------------------------
(***************************************************************************)
(* Consumer groups: broker/src/coordinator.rs (membership, heartbeats and  *)
(* round-robin assignment), driven by the JoinGroup, LeaveGroup and        *)
(* Heartbeat handlers of broker/src/server.rs, with the part of            *)
(* client/src/consumer.rs that decides what a consumer reads: the          *)
(* assignments of its last JoinGroup answer.                               *)
(*                                                                         *)
(* The groups are in memory behind one lock, so an operation of the        *)
(* coordinator is one step; the JoinGroup handler takes a second lock, that *)
(* of the cached partition counts, once per topic before that.  A group    *)
(* that exists has members.  A broker that restarts is a new initial state *)
(* with the topics it found on disk.                                       *)
(***************************************************************************)
EXTENDS Naturals, FiniteSets, Functions

CONSTANTS
    Groups,    \* group ids
    Members,   \* the consumers; one that leaves and joins again has a new id,
               \* but nothing of the old one is left
    GroupOf,   \* consumer -> the group_id it was built with
    Topics,    \* topic names
    Count,     \* topic -> its number of partitions, which never changes
    Timeout,   \* heartbeat_timeout, in ticks of the clock
    MaxJoins   \* bound: JoinGroup requests

ASSUME GroupCoordinatorAssumption ==
    /\ IsFiniteSet(Members) /\ IsFiniteSet(Topics)
    /\ GroupOf \in [Members -> Groups]
    /\ Count \in [Topics -> Nat]
    /\ Timeout \in Nat
    /\ MaxJoins \in Nat

VARIABLES
    created,     \* the topics of the TopicManager
    counted,     \* the topics in the topic_partitions cache
    members,     \* group -> ids in its members map
    topics,      \* group -> member -> GroupMember::topics
    age,         \* group -> member -> ticks since last_heartbeat
    assigned,    \* group -> member -> GroupMember::assignments
    generation,  \* group -> ConsumerGroup::generation, 0 when there is no group
    requests,    \* JoinGroup handlers under way
    joins,       \* how many JoinGroup requests there have been
    alive,       \* consumers whose process runs
    held,        \* consumer -> Consumer::assignments
    promised     \* history: the topics of the member's request that existed
                 \* when the broker received it

vars == <<created, counted, members, topics, age, assigned, generation,
          requests, joins, alive, held, promised>>

-----------------------------------------------------------------------------
(* Assignment.                                                             *)

Partitions(ts) == UNION {{t} \X (0 .. Count[t] - 1) : t \in ts}

AllPartitions == Partitions(Topics)

Request == [member : Members, group : Groups, topics : SUBSET Topics,
            todo : SUBSET Topics, existed : SUBSET Topics]

Unassigned == [m \in Members |-> {}]

\* The orders in which rebalance may list the partitions: topic after topic,
\* in the order of a HashSet, the partitions of a topic in theirs.
Listings(ps) ==
    {pos \in Bijection(ps, 0 .. Cardinality(ps) - 1) :
        \A q \in ps : <<q[1], q[2] + 1>> \in ps =>
            pos[<<q[1], q[2] + 1>>] = pos[q] + 1}

\* The orders of the keys of the HashMap of members.
Ranks(ms) == Bijection(ms, 0 .. Cardinality(ms) - 1)

\* Wrong variant: after the first round everything goes to the first member.
RoundOnce(ms, ps, rank, pos) ==
    [m \in Members |-> IF m \in ms
                       THEN {q \in ps : rank[m] = IF pos[q] < Cardinality(ms) THEN pos[q] ELSE 0}
                       ELSE {}]

\* The n-th partition goes to member n mod the number of members.
RoundRobin(ms, ps, rank, pos) ==
    [m \in Members |-> IF m \in ms
                       THEN {q \in ps : pos[q] % Cardinality(ms) = rank[m]}
                       ELSE {}]

\* The topics that members ask for: all_topics in rebalance.
AllTopics(ms, tf) == UNION {tf[m] : m \in ms}

\* ConsumerGroup::rebalance: the assignments it may produce for the members ms
\* with topics tf, when the partition counts of `counted' are known.
Rebalance(ms, tf) ==
    LET ps == Partitions(AllTopics(ms, tf) \cap counted)
    IN  IF ms = {} THEN {Unassigned}
        ELSE {RoundRobin(ms, ps, o[1], o[2]) : o \in Ranks(ms) \X Listings(ps)}

\* Wrong variant: rebalance does not clear the assignments there were.
AssignMore(g, plan) ==
    [assigned EXCEPT ![g] = [m \in Members |-> assigned[g][m] \cup plan[m]]]

\* The assignments of a group after its rebalance.
Assign(g, plan) == [assigned EXCEPT ![g] = plan]

\* Wrong variant: an empty group stays.
GenerationKept(g, rest) == generation[g] + 1

\* The generation when `rest' are left after a removal: an empty group is removed
\* from the map, and starts anew when somebody joins.
Generation(g, rest) == IF rest = {} THEN 0 ELSE generation[g] + 1

-----------------------------------------------------------------------------

Init ==
    /\ created \in SUBSET Topics
    /\ counted = {}
    /\ members = [g \in Groups |-> {}]
    /\ topics = [g \in Groups |-> Unassigned]
    /\ age = [g \in Groups |-> [m \in Members |-> 0]]
    /\ assigned = [g \in Groups |-> Unassigned]
    /\ generation = [g \in Groups |-> 0]
    /\ requests = {}
    /\ joins = 0
    /\ alive = Members
    /\ held = Unassigned
    /\ promised = [g \in Groups |-> Unassigned]

\* TopicManager::create_topic.
CreateTopic(t) ==
    /\ t \notin created
    /\ created' = created \cup {t}
    /\ UNCHANGED <<counted, members, topics, age, assigned, generation,
                   requests, joins, alive, held, promised>>

\* A consumer sends one request at a time and waits for the answer.
Free(m) == m \in alive /\ \A r \in requests : r.member # m

\* The broker receives JoinGroup, from a new member or from one that is known.
ReceiveJoin(m, ts) ==
    /\ Free(m)
    /\ joins < MaxJoins
    /\ joins' = joins + 1
    /\ requests' = requests \cup {[member |-> m, group |-> GroupOf[m], topics |-> ts,
                                   todo |-> ts, existed |-> ts \cap created]}
    /\ UNCHANGED <<created, counted, members, topics, age, assigned, generation,
                   alive, held, promised>>

\* Wrong variant: the cache holds the last topic only.
CountLast(r, t) ==
    /\ t \in r.todo
    /\ counted' = IF t \in created THEN {t} ELSE counted
    /\ requests' = (requests \ {r}) \cup {[r EXCEPT !.todo = @ \ {t}]}
    /\ UNCHANGED <<created, members, topics, age, assigned, generation, joins,
                   alive, held, promised>>

\* One turn of the handler's loop over the topics: get_topic, then
\* update_topic_partitions when it is found.
CountTopic(r, t) ==
    /\ t \in r.todo
    /\ counted' = counted \cup ({t} \cap created)
    /\ requests' = (requests \ {r}) \cup {[r EXCEPT !.todo = @ \ {t}]}
    /\ UNCHANGED <<created, members, topics, age, assigned, generation, joins,
                   alive, held, promised>>

\* GroupCoordinator::join_group: the group is created when missing, the member
\* added or replaced, the group rebalanced, and the consumer, if it is still
\* there, keeps the assignments it is sent.
JoinGroup(r) ==
    LET m == r.member
        g == r.group
    IN  /\ r.todo = {}
        /\ requests' = requests \ {r}
        /\ members' = [members EXCEPT ![g] = @ \cup {m}]
        /\ topics' = [topics EXCEPT ![g][m] = r.topics]
        /\ promised' = [promised EXCEPT ![g][m] = r.existed]
        /\ age' = [age EXCEPT ![g][m] = 0]
        /\ generation' = [generation EXCEPT ![g] = @ + 1]
        /\ \E plan \in Rebalance(members'[g], topics'[g]) :
              /\ assigned' = Assign(g, plan)
              /\ held' = IF m \in alive THEN [held EXCEPT ![m] = plan[m]] ELSE held
        /\ UNCHANGED <<created, counted, joins, alive>>

\* What is left of the entry of a member that is removed.
Without(f, g, ms, empty) ==
    [f EXCEPT ![g] = [m \in Members |-> IF m \in ms THEN empty ELSE f[g][m]]]

\* GroupCoordinator::leave_group: rebalance those who stay, or drop the group.
\* For an unknown group or member it only answers with an error.
LeaveGroup(m) ==
    LET g    == GroupOf[m]
        rest == members[g] \ {m}
    IN  /\ Free(m)
        /\ m \in members[g]
        /\ members' = [members EXCEPT ![g] = rest]
        /\ topics' = Without(topics, g, {m}, {})
        /\ promised' = Without(promised, g, {m}, {})
        /\ age' = Without(age, g, {m}, 0)
        /\ generation' = [generation EXCEPT ![g] = Generation(g, rest)]
        /\ \E plan \in Rebalance(rest, topics'[g]) :
              assigned' = Assign(g, plan)
        /\ held' = [held EXCEPT ![m] = {}]
        /\ UNCHANGED <<created, counted, requests, joins, alive>>

\* GroupCoordinator::heartbeat: the answer is that no rejoin is needed, or an
\* error that the consumer logs.
Heartbeat(m) ==
    /\ Free(m)
    /\ m \in members[GroupOf[m]]
    /\ age' = [age EXCEPT ![GroupOf[m]][m] = 0]
    /\ UNCHANGED <<created, counted, members, topics, assigned, generation,
                   requests, joins, alive, held, promised>>

\* Wrong variant: a group is never emptied.
SpareLast(g) ==
    LET dead == {m \in members[g] : age[g][m] > Timeout}
    IN  IF dead = members[g] THEN {} ELSE dead

\* ConsumerGroup::get_dead_members.
DeadMembers(g) == {m \in members[g] : age[g][m] > Timeout}

\* GroupCoordinator::check_heartbeats, every ten seconds: one pass over all the
\* groups under one lock.
CheckHeartbeats ==
    LET rest(g) == members[g] \ DeadMembers(g)
        cleared(f, empty) == [g \in Groups |-> [m \in Members |->
                                 IF m \in DeadMembers(g) THEN empty ELSE f[g][m]]]
        plans(g) == IF DeadMembers(g) = {} THEN {assigned[g]}
                    ELSE Rebalance(rest(g), topics'[g])
    IN  /\ \E g \in Groups : DeadMembers(g) # {}
        /\ members' = [g \in Groups |-> rest(g)]
        /\ topics' = cleared(topics, {})
        /\ promised' = cleared(promised, {})
        /\ age' = cleared(age, 0)
        /\ generation' = [g \in Groups |->
              IF DeadMembers(g) = {} THEN generation[g] ELSE Generation(g, rest(g))]
        /\ \E plan \in [Groups -> UNION {plans(g) : g \in Groups}] :
              /\ \A g \in Groups : plan[g] \in plans(g)
              /\ assigned' = plan
        /\ UNCHANGED <<created, counted, requests, joins, alive, held>>

\* The clock moves; nobody looks further than just past the timeout.
Tick ==
    /\ age' = [g \in Groups |-> [m \in Members |->
          IF m \in members[g] /\ age[g][m] <= Timeout THEN age[g][m] + 1 ELSE age[g][m]]]
    /\ UNCHANGED <<created, counted, members, topics, assigned, generation,
                   requests, joins, alive, held, promised>>

\* A consumer is dropped, or its process ends, without leaving its group; a
\* handler that works on its request goes on.
Die(m) ==
    /\ m \in alive
    /\ alive' = alive \ {m}
    /\ held' = [held EXCEPT ![m] = {}]
    /\ UNCHANGED <<created, counted, members, topics, age, assigned, generation,
                   requests, joins, promised>>

\* The handler of m's JoinGroup request runs on.
Handle(m) ==
    \E r \in requests :
        /\ r.member = m
        /\ (\E t \in r.todo : CountTopic(r, t)) \/ JoinGroup(r)

Next ==
    \/ \E t \in Topics : CreateTopic(t)
    \/ \E m \in Members :
          \/ \E ts \in SUBSET Topics : ReceiveJoin(m, ts)
          \/ Handle(m) \/ LeaveGroup(m) \/ Heartbeat(m) \/ Die(m)
    \/ CheckHeartbeats
    \/ Tick

Spec == Init /\ [][Next]_vars

\* The runtime polls a handler until it is done, time passes, and the task that
\* checks heartbeats, like that of a consumer that sends them, runs for ever.
Fairness ==
    /\ \A m \in Members : WF_vars(Handle(m)) /\ WF_vars(Heartbeat(m))
    /\ WF_vars(Tick)
    /\ WF_vars(CheckHeartbeats)

FairSpec == Spec /\ Fairness

-----------------------------------------------------------------------------
(* Properties.                                                             *)

\* Type invariant: the maps of the coordinator, the handlers under way and what
\* the consumers keep are over the known ids, topics and partitions, and a group
\* exists, with a generation, exactly when it has members.
TypeOK ==
    /\ created \subseteq Topics /\ counted \subseteq Topics
    /\ members \in [Groups -> SUBSET Members]
    /\ topics \in [Groups -> [Members -> SUBSET Topics]]
    /\ age \in [Groups -> [Members -> 0 .. Timeout + 1]]
    /\ assigned \in [Groups -> [Members -> SUBSET AllPartitions]]
    /\ generation \in [Groups -> Nat]
    /\ \A g \in Groups : generation[g] = 0 <=> members[g] = {}
    /\ requests \subseteq Request
    /\ joins \in Nat
    /\ alive \subseteq Members
    /\ held \in [Members -> SUBSET AllPartitions]
    /\ promised \in [Groups -> [Members -> SUBSET Topics]]

\* The coordinator gives no partition to two members of a group, and none to a
\* consumer that left or expired, in whatever order joins, leaves, expiries and
\* rejoins with other topics follow each other.
Exclusive ==
    \A g \in Groups : \A m \in Members :
        /\ m \notin members[g] => assigned[g][m] = {}
        /\ \A n \in Members : m # n => assigned[g][m] \cap assigned[g][n] = {}

\* Every partition of a topic that a member asked for and that existed when its
\* request came is assigned to somebody in the group, as long as the member is
\* in it: handlers that count topics while others rebalance lose none.
Covered ==
    \A g \in Groups : \A m \in members[g] :
        \A q \in Partitions(promised[g][m]) :
            \E n \in members[g] : q \in assigned[g][n]

\* Round robin is even: two members of a group differ by at most one partition.
Balanced ==
    \A g \in Groups : \A m, n \in members[g] :
        Cardinality(assigned[g][m]) <= Cardinality(assigned[g][n]) + 1

\* A consumer that dies without leaving is out of every group after some time
\* and for good, its partitions with it, even when it dies while its request to
\* join is under way: the timeout and check_heartbeats see to it.
DeadMembersRemoved ==
    \A m \in Members :
        m \notin alive ~>
            [](\A g \in Groups : m \notin members[g] /\ assigned[g][m] = {})

=============================================================================
