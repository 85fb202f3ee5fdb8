----------------------- MODULE GroupCoordinatorProofs -----------------------
(***************************************************************************)
(* Proofs about GroupCoordinator: for any groups, consumers, topics and    *)
(* partition counts, the coordinator gives a partition to one member of a  *)
(* group at most, every partition that was asked for to somebody, and each *)
(* member its fair share.                                                  *)
(***************************************************************************)
EXTENDS GroupCoordinator, FiniteSetTheorems, TLAPS

-----------------------------------------------------------------------------
(* The inductive invariant.                                                *)

\* A handler has counted the topics it is done with, if they were there when it
\* began; a member's are all counted.  Covered rests on it: whoever rebalances
\* next, for whatever reason, finds the counts of every promised topic.
Counting ==
    /\ \A r \in requests :
          /\ r.existed \subseteq created
          /\ r.existed \subseteq r.topics
          /\ r.existed \ r.todo \subseteq counted
    /\ \A g \in Groups : \A m \in members[g] :
          /\ promised[g][m] \subseteq counted
          /\ promised[g][m] \subseteq topics[g][m]

Inv == TypeOK /\ Exclusive /\ Counting /\ Covered /\ Balanced

-----------------------------------------------------------------------------
(* What an assignment must be, as an operator on values.                   *)

SoundPlan(plan, ms, wanted) ==
    /\ plan \in [Members -> SUBSET AllPartitions]
    /\ \A m \in Members : m \notin ms => plan[m] = {}
    /\ \A m, n \in Members : m # n => plan[m] \cap plan[n] = {}
    /\ \A q \in Partitions(wanted) : \E n \in ms : q \in plan[n]
    /\ \A m, n \in ms : Cardinality(plan[m]) <= Cardinality(plan[n]) + 1

\* The partitions of fewer topics are fewer.
LEMMA PartitionsMonotone ==
    ASSUME NEW S, NEW T, S \subseteq T
    PROVE  Partitions(S) \subseteq Partitions(T)
  BY DEF Partitions

\* The round robin of rebalance gives each partition to exactly one member: the
\* remainder of its position is the rank of one member, and of no other.
LEMMA RoundRobinSound ==
    ASSUME NEW ms \in SUBSET Members, ms # {},
           NEW ps \in SUBSET AllPartitions,
           NEW rank \in Ranks(ms), NEW pos \in Listings(ps)
    PROVE  LET plan == RoundRobin(ms, ps, rank, pos)
           IN  /\ plan \in [Members -> SUBSET AllPartitions]
               /\ \A m \in Members : m \notin ms => plan[m] = {}
               /\ \A m, n \in Members : m # n => plan[m] \cap plan[n] = {}
               /\ \A q \in ps : \E n \in ms : q \in plan[n]
  <1> DEFINE n == Cardinality(ms)
             plan == RoundRobin(ms, ps, rank, pos)
  <1>1. IsFiniteSet(ms)
    BY GroupCoordinatorAssumption, FS_Subset
  <1>2. n \in Nat /\ n # 0
    BY <1>1, FS_CardinalityType, FS_EmptySet
  <1>3. /\ rank \in [ms -> 0 .. n - 1]
        /\ \A a, b \in ms : rank[a] = rank[b] => a = b
        /\ \A i \in 0 .. n - 1 : \E a \in ms : rank[a] = i
    BY DEF Ranks, Bijection, Injection, Surjection, IsInjective
  <1>4. \A q \in ps : pos[q] \in Nat
    BY DEF Listings, Bijection, Injection
  <1> HIDE DEF n
  <1>5. \A q \in ps : pos[q] % n \in 0 .. n - 1
    BY <1>2, <1>4
  <1>6. plan = [m \in Members |-> IF m \in ms THEN {q \in ps : pos[q] % n = rank[m]}
                                  ELSE {}]
    BY DEF RoundRobin, n
  <1> HIDE DEF plan
  <1>7. plan \in [Members -> SUBSET AllPartitions]
    BY <1>6
  <1>8. \A m \in Members : m \notin ms => plan[m] = {}
    BY <1>6
  <1>9. \A a, b \in Members : a # b => plan[a] \cap plan[b] = {}
    BY <1>3, <1>6
  <1>10. \A q \in ps : \E a \in ms : q \in plan[a]
    BY <1>3, <1>5, <1>6
  <1> QED BY <1>7, <1>8, <1>9, <1>10 DEF plan

\* Division with remainder.
LEMMA Remainder ==
    ASSUME NEW n \in Nat \ {0}, NEW p \in Nat
    PROVE  p \div n \in Nat /\ p = n * (p \div n) + (p % n) /\ p % n \in 0 .. n - 1
  OBVIOUS

\* ... and the remainder is the only number below n that does it.
LEMMA RemainderUnique ==
    ASSUME NEW n \in Nat \ {0}, NEW d \in Nat, NEW r \in 0 .. n - 1
    PROVE  (n * d + r) % n = r
  OBVIOUS

\* A position with remainder a, not in the first round, has a position with
\* remainder b in the round before it, at a fixed distance.
LEMMA RoundBefore ==
    ASSUME NEW n \in Nat \ {0}, NEW p \in Nat, NEW a \in 0 .. n - 1, NEW b \in 0 .. n - 1,
           p % n = a, p >= n
    PROVE  /\ p - (n + a - b) \in Nat /\ p - (n + a - b) < p
           /\ (p - (n + a - b)) % n = b
  <1>1. PICK d \in Nat : p = n * d + a
    BY Remainder
  <1>2. d # 0
    BY <1>1
  <1>3. PICK e \in Nat : d = e + 1
    <2>1. d - 1 \in Nat
      BY <1>2
    <2> QED BY <2>1
  <1>4. n * d = n * e + n
    BY <1>3
  <1>5. n * e \in Nat
    OBVIOUS
  <1>6. p - (n + a - b) = n * e + b
    BY <1>1, <1>4, <1>5
  <1>7. (n * e + b) % n = b
    BY RemainderUnique
  <1> QED BY <1>5, <1>6, <1>7

\* The topics have finitely many partitions.
LEMMA PartitionsFinite ==
    ASSUME NEW ps \in SUBSET AllPartitions
    PROVE  IsFiniteSet(ps)
  <1> DEFINE of == [t \in Topics |-> {t} \X (0 .. Count[t] - 1)]
             sets == {{t} \X (0 .. Count[t] - 1) : t \in Topics}
  <1>1. of \in Surjection(Topics, sets)
    BY DEF Surjection
  <1>2. IsFiniteSet(sets)
    BY <1>1, FS_Surjection, GroupCoordinatorAssumption
  <1>3. ASSUME NEW t \in Topics
        PROVE  IsFiniteSet({t} \X (0 .. Count[t] - 1))
    <2>1. 0 \in Int /\ Count[t] - 1 \in Int
      BY GroupCoordinatorAssumption
    <2>2. IsFiniteSet(0 .. Count[t] - 1) /\ IsFiniteSet({t})
      BY <2>1, FS_Interval, FS_Singleton
    <2> QED BY <2>2, FS_Product
  <1>4. \A T \in sets : IsFiniteSet(T)
    BY <1>3
  <1>5. AllPartitions = UNION sets
    BY DEF AllPartitions, Partitions
  <1> HIDE DEF sets
  <1>6. IsFiniteSet(AllPartitions)
    BY <1>2, <1>4, <1>5, FS_UNION
  <1> QED BY <1>6, FS_Subset

\* Round robin is even: all partitions of a member but its first follow, in the
\* list, one of any other member's, each another.
LEMMA RoundRobinEven ==
    ASSUME NEW ms \in SUBSET Members, ms # {},
           NEW ps \in SUBSET AllPartitions,
           NEW rank \in Ranks(ms), NEW pos \in Listings(ps),
           NEW a \in ms, NEW b \in ms
    PROVE  LET plan == RoundRobin(ms, ps, rank, pos)
           IN  Cardinality(plan[a]) <= Cardinality(plan[b]) + 1
  <1> DEFINE n == Cardinality(ms)
             N == Cardinality(ps)
             A == {q \in ps : pos[q] % n = rank[a]}
             B == {q \in ps : pos[q] % n = rank[b]}
             D == {q \in A : pos[q] >= n}
             step == n + rank[a] - rank[b]
             before == [q \in D |-> CHOOSE z \in ps : pos[z] = pos[q] - step]
  <1>1. IsFiniteSet(ms) /\ IsFiniteSet(ps)
    BY GroupCoordinatorAssumption, FS_Subset, PartitionsFinite
  <1>2. n \in Nat \ {0} /\ N \in Nat
    BY <1>1, FS_CardinalityType, FS_EmptySet
  <1>3. rank[a] \in 0 .. n - 1 /\ rank[b] \in 0 .. n - 1
    BY DEF Ranks, Bijection, Injection
  <1>4. /\ pos \in [ps -> 0 .. N - 1]
        /\ \A y, z \in ps : pos[y] = pos[z] => y = z
        /\ \A i \in 0 .. N - 1 : \E z \in ps : pos[z] = i
    BY DEF Listings, Bijection, Injection, Surjection, IsInjective
  <1>5. /\ RoundRobin(ms, ps, rank, pos)[a] = A
        /\ RoundRobin(ms, ps, rank, pos)[b] = B
    BY DEF RoundRobin
  <1> HIDE DEF n, N
  <1>6. ASSUME NEW q \in D
        PROVE  before[q] \in B /\ pos[before[q]] = pos[q] - step
    <2>1. pos[q] \in Nat /\ pos[q] < N /\ pos[q] % n = rank[a] /\ pos[q] >= n
      BY <1>2, <1>4
    <2>2. /\ pos[q] - step \in Nat /\ pos[q] - step < pos[q]
          /\ (pos[q] - step) % n = rank[b]
      BY ONLY <1>2, <1>3, <2>1, RoundBefore
    <2>3. pos[q] - step \in 0 .. N - 1
      BY <1>2, <2>1, <2>2
    <2> HIDE DEF step
    <2>4. \E z \in ps : pos[z] = pos[q] - step
      BY <1>4, <2>3
    <2>5. before[q] \in ps /\ pos[before[q]] = pos[q] - step
      BY <2>4
    <2> QED BY <2>2, <2>5
  <1>7. IsFiniteSet(A) /\ IsFiniteSet(B) /\ IsFiniteSet(D)
    BY <1>1, FS_Subset
  <1>8. Cardinality(A) \in Nat /\ Cardinality(B) \in Nat /\ Cardinality(D) \in Nat
    BY <1>7, FS_CardinalityType
  <1>9. step \in Int /\ \A q \in ps : pos[q] \in Int
    BY <1>2, <1>3, <1>4
  <1>10. before \in Injection(D, B)
    <2>1. before \in [D -> B]
      BY <1>6
    <2>2. ASSUME NEW y \in D, NEW z \in D, before[y] = before[z] PROVE y = z
      <3>1. pos[y] - step = pos[z] - step
        BY <1>6, <2>2
      <3>2. pos[y] = pos[z]
        BY <1>9, <3>1
      <3> QED BY <1>4, <3>2
    <2> QED BY <2>1, <2>2 DEF Injection, IsInjective
  <1>11. Cardinality(D) <= Cardinality(B)
    BY <1>7, <1>10, FS_Injection
  <1>12. \A q \in A : q \notin D => pos[q] = rank[a]
    BY <1>2, <1>4
  <1>13. CASE A = D
    <2>1. Cardinality(A) = Cardinality(D)
      BY <1>13
    <2> HIDE DEF A, B, D
    <2> QED BY <1>5, <1>8, <1>11, <2>1
  <1>14. CASE A # D
    <2>1. PICK x \in A : x \notin D
      BY <1>14
    <2>2. D = A \ {x}
      BY <1>4, <1>12, <2>1
    <2>3. Cardinality(D) = Cardinality(A) - 1
      BY <1>7, <2>1, <2>2, FS_RemoveElement
    <2> QED BY <1>5, <1>8, <1>11, <2>3
  <1> QED BY <1>13, <1>14

\* ConsumerGroup::rebalance, with members or without.
LEMMA RebalanceSound ==
    ASSUME NEW ms \in SUBSET Members, NEW tf \in [Members -> SUBSET Topics],
           NEW plan \in Rebalance(ms, tf)
    PROVE  SoundPlan(plan, ms, AllTopics(ms, tf) \cap counted)
  <1> DEFINE wanted == AllTopics(ms, tf) \cap counted
             ps == Partitions(wanted)
  <1>1. wanted \subseteq Topics
    BY DEF AllTopics
  <1>2. ps \subseteq AllPartitions
    BY <1>1, PartitionsMonotone DEF AllPartitions
  <1>3. CASE ms = {}
    <2>1. plan = Unassigned
      BY <1>3 DEF Rebalance
    <2>2. ps = {}
      BY <1>3 DEF Partitions, AllTopics
    <2> QED BY <1>3, <2>1, <2>2 DEF SoundPlan, Unassigned
  <1>4. CASE ms # {}
    <2>1. PICK o \in Ranks(ms) \X Listings(ps) :
              plan = RoundRobin(ms, ps, o[1], o[2])
      BY <1>4 DEF Rebalance
    <2> HIDE DEF ps
    <2>2. /\ plan \in [Members -> SUBSET AllPartitions]
          /\ \A m \in Members : m \notin ms => plan[m] = {}
          /\ \A m, n \in Members : m # n => plan[m] \cap plan[n] = {}
          /\ \A q \in ps : \E n \in ms : q \in plan[n]
      BY <1>2, <1>4, <2>1, RoundRobinSound
    <2>3. \A m, n \in ms : Cardinality(plan[m]) <= Cardinality(plan[n]) + 1
      BY <1>2, <1>4, <2>1, RoundRobinEven
    <2> QED BY <2>2, <2>3 DEF SoundPlan, ps
  <1> QED BY <1>3, <1>4

\* A sound assignment covers the topics of each member that were counted.
LEMMA SoundCovers ==
    ASSUME NEW ms \in SUBSET Members, NEW tf \in [Members -> SUBSET Topics],
           NEW plan, NEW known, SoundPlan(plan, ms, AllTopics(ms, tf) \cap known),
           NEW m \in ms, NEW ts, ts \subseteq known, ts \subseteq tf[m],
           NEW q \in Partitions(ts)
    PROVE  \E n \in ms : q \in plan[n]
  <1>1. ts \subseteq AllTopics(ms, tf) \cap known
    BY DEF AllTopics
  <1>2. q \in Partitions(AllTopics(ms, tf) \cap known)
    BY <1>1, PartitionsMonotone
  <1> QED BY <1>2 DEF SoundPlan

-----------------------------------------------------------------------------
(* One lemma per action.                                                   *)

\* The coordinator starts empty.
LEMMA InvInit == Init => Inv
  <1> SUFFICES ASSUME Init PROVE Inv
    OBVIOUS
  <1> USE GroupCoordinatorAssumption DEF Init, Unassigned
  <1>1. TypeOK
    BY DEF TypeOK
  <1>2. Exclusive /\ Counting /\ Covered /\ Balanced
    BY DEF Exclusive, Counting, Covered, Balanced
  <1> QED BY <1>1, <1>2 DEF Inv

\* A topic more leaves every count and every assignment as it was.
LEMMA InvCreateTopic ==
    ASSUME Inv, NEW t \in Topics, CreateTopic(t)
    PROVE  Inv'
  <1> USE DEF Inv, CreateTopic
  <1>1. TypeOK'
    BY DEF TypeOK
  <1>2. Exclusive' /\ Covered' /\ Balanced'
    BY DEF Exclusive, Covered, Balanced
  <1>3. Counting'
    BY DEF Counting
  <1> QED BY <1>1, <1>2, <1>3

\* A request that arrives has counted nothing yet.
LEMMA InvReceiveJoin ==
    ASSUME Inv, NEW m \in Members, NEW ts \in SUBSET Topics, ReceiveJoin(m, ts)
    PROVE  Inv'
  <1> DEFINE r == [member |-> m, group |-> GroupOf[m], topics |-> ts,
                   todo |-> ts, existed |-> ts \cap created]
  <1> USE GroupCoordinatorAssumption DEF Inv
  <1>1. r \in Request
    BY DEF Request
  <1>2. requests' = requests \cup {r}
    BY DEF ReceiveJoin
  <1>3. /\ r.existed \subseteq created
        /\ r.existed \subseteq r.topics
        /\ r.existed \ r.todo \subseteq counted
    OBVIOUS
  <1> HIDE DEF r
  <1>4. TypeOK'
    <2>1. requests' \subseteq Request
      BY <1>1, <1>2 DEF TypeOK
    <2>2. joins' \in Nat
      BY DEF TypeOK, ReceiveJoin
    <2> QED BY <2>1, <2>2 DEF TypeOK, ReceiveJoin
  <1>5. Exclusive' /\ Covered' /\ Balanced'
    BY DEF Exclusive, Covered, Balanced, ReceiveJoin
  <1>6. Counting'
    BY <1>2, <1>3 DEF Counting, ReceiveJoin
  <1> QED BY <1>4, <1>5, <1>6

\* One topic is counted, if it is there.
LEMMA InvCountTopic ==
    ASSUME Inv, NEW r \in requests, NEW t \in r.todo, CountTopic(r, t)
    PROVE  Inv'
  <1> DEFINE s == [r EXCEPT !.todo = @ \ {t}]
  <1> USE GroupCoordinatorAssumption DEF Inv
  <1>1. r \in Request
    BY DEF TypeOK
  <1>2. s \in Request /\ s.existed = r.existed /\ s.topics = r.topics /\ s.todo = r.todo \ {t}
    BY <1>1 DEF Request
  <1>3. requests' = (requests \ {r}) \cup {s} /\ counted' = counted \cup ({t} \cap created)
    BY DEF CountTopic
  <1>4. t \in Topics
    BY <1>1 DEF Request
  <1> HIDE DEF s
  <1>5. TypeOK'
    BY <1>2, <1>3, <1>4 DEF TypeOK, CountTopic
  <1>6. Exclusive' /\ Covered' /\ Balanced'
    BY DEF Exclusive, Covered, Balanced, CountTopic
  <1>7. /\ s.existed \subseteq created
        /\ s.existed \subseteq s.topics
        /\ s.existed \ s.todo \subseteq counted'
    BY <1>2, <1>3 DEF Counting
  <1>8. Counting'
    BY <1>3, <1>7 DEF Counting, CountTopic
  <1> QED BY <1>5, <1>6, <1>8

\* A step that changes a group rebalances it: what is assigned afterwards is
\* sound for the members and the counts there are.
LEMMA GroupByGroup ==
    ASSUME Inv, TypeOK', Counting',
           \A g \in Groups :
              \/ /\ members'[g] = members[g]
                 /\ assigned'[g] = assigned[g]
                 /\ promised'[g] = promised[g]
              \/ SoundPlan(assigned'[g], members'[g],
                           AllTopics(members'[g], topics'[g]) \cap counted')
    PROVE  Exclusive' /\ Covered' /\ Balanced'
  <1> SUFFICES ASSUME NEW g \in Groups
               PROVE  /\ \A m \in Members :
                            /\ m \notin members'[g] => assigned'[g][m] = {}
                            /\ \A n \in Members : m # n =>
                                  assigned'[g][m] \cap assigned'[g][n] = {}
                      /\ \A m \in members'[g] : \A q \in Partitions(promised'[g][m]) :
                            \E n \in members'[g] : q \in assigned'[g][n]
                      /\ \A m, n \in members'[g] :
                            Cardinality(assigned'[g][m]) <= Cardinality(assigned'[g][n]) + 1
    BY DEF Exclusive, Covered, Balanced
  <1>1. CASE /\ members'[g] = members[g]
             /\ assigned'[g] = assigned[g]
             /\ promised'[g] = promised[g]
    BY <1>1 DEF Inv, Exclusive, Covered, Balanced
  <1>2. CASE SoundPlan(assigned'[g], members'[g],
                       AllTopics(members'[g], topics'[g]) \cap counted')
    <2>1. members'[g] \in SUBSET Members /\ topics'[g] \in [Members -> SUBSET Topics]
      BY DEF TypeOK
    <2>2. ASSUME NEW m \in members'[g], NEW q \in Partitions(promised'[g][m])
          PROVE  \E n \in members'[g] : q \in assigned'[g][n]
      <3>1. promised'[g][m] \subseteq counted' /\ promised'[g][m] \subseteq topics'[g][m]
        BY DEF Counting
      <3> QED BY <1>2, <2>1, <3>1, SoundCovers
    <2>3. \A m \in Members :
             /\ m \notin members'[g] => assigned'[g][m] = {}
             /\ \A n \in Members : m # n => assigned'[g][m] \cap assigned'[g][n] = {}
      BY <1>2 DEF SoundPlan
    <2>4. \A m, n \in members'[g] :
             Cardinality(assigned'[g][m]) <= Cardinality(assigned'[g][n]) + 1
      BY <1>2 DEF SoundPlan
    <2> QED BY <2>2, <2>3, <2>4
  <1> QED BY <1>1, <1>2

\* A member joins, or joins again.
LEMMA InvJoinGroup ==
    ASSUME Inv, NEW r \in requests, JoinGroup(r)
    PROVE  Inv'
  <1> DEFINE m == r.member
             g == r.group
  <1> USE GroupCoordinatorAssumption
  <1>1. /\ m \in Members /\ g \in Groups
        /\ r.topics \subseteq Topics /\ r.existed \subseteq Topics
    BY DEF Inv, TypeOK, Request
  <1>2. /\ r.existed \subseteq r.topics /\ r.existed \subseteq counted
    BY DEF Inv, Counting, JoinGroup
  <1>3. PICK plan \in Rebalance(members'[g], topics'[g]) :
            /\ assigned' = [assigned EXCEPT ![g] = plan]
            /\ held' = IF m \in alive THEN [held EXCEPT ![m] = plan[m]] ELSE held
    BY DEF JoinGroup, Assign
  <1>4. /\ members' = [members EXCEPT ![g] = @ \cup {m}]
        /\ topics' = [topics EXCEPT ![g][m] = r.topics]
        /\ promised' = [promised EXCEPT ![g][m] = r.existed]
        /\ age' = [age EXCEPT ![g][m] = 0]
        /\ generation' = [generation EXCEPT ![g] = @ + 1]
        /\ requests' = requests \ {r}
        /\ UNCHANGED <<created, counted, joins, alive>>
    BY DEF JoinGroup
  <1> HIDE DEF m, g
  <1>5. /\ members' \in [Groups -> SUBSET Members]
        /\ topics' \in [Groups -> [Members -> SUBSET Topics]]
        /\ promised' \in [Groups -> [Members -> SUBSET Topics]]
        /\ age' \in [Groups -> [Members -> 0 .. Timeout + 1]]
        /\ generation' \in [Groups -> Nat]
        /\ \A h \in Groups : generation'[h] = 0 <=> members'[h] = {}
    <2>1. /\ members' \in [Groups -> SUBSET Members]
          /\ topics' \in [Groups -> [Members -> SUBSET Topics]]
          /\ promised' \in [Groups -> [Members -> SUBSET Topics]]
          /\ age' \in [Groups -> [Members -> 0 .. Timeout + 1]]
          /\ generation' \in [Groups -> Nat]
      BY <1>1, <1>4 DEF Inv, TypeOK
    <2>2. \A h \in Groups : h # g =>
             generation'[h] = generation[h] /\ members'[h] = members[h]
      BY <1>1, <1>4 DEF Inv, TypeOK
    <2>3. generation'[g] = generation[g] + 1 /\ m \in members'[g]
      BY <1>1, <1>4 DEF Inv, TypeOK
    <2>4. generation'[g] # 0
      BY <1>1, <2>3 DEF Inv, TypeOK
    <2>5. \A h \in Groups : generation'[h] = 0 <=> members'[h] = {}
      BY <2>2, <2>3, <2>4 DEF Inv, TypeOK
    <2> QED BY <2>1, <2>5
  <1>6. SoundPlan(plan, members'[g], AllTopics(members'[g], topics'[g]) \cap counted)
    BY <1>1, <1>3, <1>5, RebalanceSound
  <1>7. plan \in [Members -> SUBSET AllPartitions]
    BY <1>6 DEF SoundPlan
  <1>8. /\ assigned' \in [Groups -> [Members -> SUBSET AllPartitions]]
        /\ held' \in [Members -> SUBSET AllPartitions]
    BY <1>1, <1>3, <1>7 DEF Inv, TypeOK
  <1>9. TypeOK'
    BY <1>4, <1>5, <1>8 DEF Inv, TypeOK
  <1>10. Counting'
    BY <1>1, <1>2, <1>4 DEF Inv, TypeOK, Counting
  <1>11. \A h \in Groups :
            \/ /\ members'[h] = members[h]
               /\ assigned'[h] = assigned[h]
               /\ promised'[h] = promised[h]
            \/ SoundPlan(assigned'[h], members'[h],
                         AllTopics(members'[h], topics'[h]) \cap counted')
    <2> SUFFICES ASSUME NEW h \in Groups
                 PROVE  \/ /\ members'[h] = members[h]
                           /\ assigned'[h] = assigned[h]
                           /\ promised'[h] = promised[h]
                        \/ SoundPlan(assigned'[h], members'[h],
                             AllTopics(members'[h], topics'[h]) \cap counted')
      OBVIOUS
    <2>1. CASE h = g
      <3>1. assigned'[h] = plan /\ counted' = counted
        BY <1>3, <1>4, <2>1 DEF Inv, TypeOK
      <3> QED BY <1>6, <2>1, <3>1
    <2>2. CASE h # g
      BY <1>3, <1>4, <2>2 DEF Inv, TypeOK
    <2> QED BY <2>1, <2>2
  <1>12. Exclusive' /\ Covered' /\ Balanced'
    BY <1>9, <1>10, <1>11, GroupByGroup
  <1> QED BY <1>9, <1>10, <1>12 DEF Inv

\* A member leaves.
LEMMA InvLeaveGroup ==
    ASSUME Inv, NEW m \in Members, LeaveGroup(m)
    PROVE  Inv'
  <1> DEFINE g == GroupOf[m]
             rest == members[g] \ {m}
  <1> USE GroupCoordinatorAssumption
  <1>1. g \in Groups
    OBVIOUS
  <1>2. PICK plan \in Rebalance(rest, topics'[g]) :
            assigned' = [assigned EXCEPT ![g] = plan]
    BY DEF LeaveGroup, Assign
  <1>3. /\ members' = [members EXCEPT ![g] = rest]
        /\ topics' = Without(topics, g, {m}, {})
        /\ promised' = Without(promised, g, {m}, {})
        /\ age' = Without(age, g, {m}, 0)
        /\ generation' = [generation EXCEPT ![g] = IF rest = {} THEN 0 ELSE generation[g] + 1]
        /\ held' = [held EXCEPT ![m] = {}]
        /\ UNCHANGED <<created, counted, requests, joins, alive>>
    BY DEF LeaveGroup, Generation
  <1> HIDE DEF g
  <1>4. /\ members' \in [Groups -> SUBSET Members]
        /\ topics' \in [Groups -> [Members -> SUBSET Topics]]
        /\ promised' \in [Groups -> [Members -> SUBSET Topics]]
        /\ age' \in [Groups -> [Members -> 0 .. Timeout + 1]]
        /\ generation' \in [Groups -> Nat]
        /\ \A h \in Groups : generation'[h] = 0 <=> members'[h] = {}
    BY <1>1, <1>3 DEF Inv, TypeOK, Without
  <1>5. members'[g] = rest
    BY <1>1, <1>3 DEF Inv, TypeOK
  <1>6. SoundPlan(plan, members'[g], AllTopics(members'[g], topics'[g]) \cap counted)
    BY <1>1, <1>2, <1>4, <1>5, RebalanceSound
  <1>7. plan \in [Members -> SUBSET AllPartitions]
    BY <1>6 DEF SoundPlan
  <1>8. /\ assigned' \in [Groups -> [Members -> SUBSET AllPartitions]]
        /\ held' \in [Members -> SUBSET AllPartitions]
    BY <1>1, <1>2, <1>3, <1>7 DEF Inv, TypeOK
  <1>9. TypeOK'
    BY <1>3, <1>4, <1>8 DEF Inv, TypeOK
  <1>10. Counting'
    BY <1>1, <1>3 DEF Inv, TypeOK, Counting, Without
  <1>11. \A h \in Groups :
            \/ /\ members'[h] = members[h]
               /\ assigned'[h] = assigned[h]
               /\ promised'[h] = promised[h]
            \/ SoundPlan(assigned'[h], members'[h],
                         AllTopics(members'[h], topics'[h]) \cap counted')
    <2> SUFFICES ASSUME NEW h \in Groups
                 PROVE  \/ /\ members'[h] = members[h]
                           /\ assigned'[h] = assigned[h]
                           /\ promised'[h] = promised[h]
                        \/ SoundPlan(assigned'[h], members'[h],
                             AllTopics(members'[h], topics'[h]) \cap counted')
      OBVIOUS
    <2>1. CASE h = g
      <3>1. assigned'[h] = plan /\ counted' = counted
        BY <1>2, <1>3, <2>1 DEF Inv, TypeOK
      <3> QED BY <1>6, <2>1, <3>1
    <2>2. CASE h # g
      BY <1>2, <1>3, <2>2 DEF Inv, TypeOK, Without
    <2> QED BY <2>1, <2>2
  <1>12. Exclusive' /\ Covered' /\ Balanced'
    BY <1>9, <1>10, <1>11, GroupByGroup
  <1> QED BY <1>9, <1>10, <1>12 DEF Inv

\* Expired members are removed from every group at once.
LEMMA InvCheckHeartbeats ==
    ASSUME Inv, CheckHeartbeats
    PROVE  Inv'
  <1> DEFINE rest(g) == members[g] \ DeadMembers(g)
             plans(g) == IF DeadMembers(g) = {} THEN {assigned[g]}
                         ELSE Rebalance(rest(g), topics'[g])
  <1> USE GroupCoordinatorAssumption
  <1>1. /\ members' = [g \in Groups |-> rest(g)]
        /\ topics' = [g \in Groups |-> [m \in Members |->
                         IF m \in DeadMembers(g) THEN {} ELSE topics[g][m]]]
        /\ promised' = [g \in Groups |-> [m \in Members |->
                         IF m \in DeadMembers(g) THEN {} ELSE promised[g][m]]]
        /\ age' = [g \in Groups |-> [m \in Members |->
                         IF m \in DeadMembers(g) THEN 0 ELSE age[g][m]]]
        /\ generation' = [g \in Groups |->
              IF DeadMembers(g) = {} THEN generation[g]
              ELSE IF rest(g) = {} THEN 0 ELSE generation[g] + 1]
        /\ UNCHANGED <<created, counted, requests, joins, alive, held>>
    BY DEF CheckHeartbeats, Generation
  <1>2. assigned' \in [Groups -> UNION {plans(g) : g \in Groups}]
    BY DEF CheckHeartbeats
  <1>3. \A g \in Groups : assigned'[g] \in plans(g)
    BY DEF CheckHeartbeats
  <1>4. /\ members' \in [Groups -> SUBSET Members]
        /\ topics' \in [Groups -> [Members -> SUBSET Topics]]
        /\ promised' \in [Groups -> [Members -> SUBSET Topics]]
        /\ age' \in [Groups -> [Members -> 0 .. Timeout + 1]]
        /\ generation' \in [Groups -> Nat]
        /\ \A h \in Groups : generation'[h] = 0 <=> members'[h] = {}
    BY <1>1 DEF Inv, TypeOK
  <1>5. ASSUME NEW g \in Groups
        PROVE  /\ \/ /\ members'[g] = members[g]
                     /\ assigned'[g] = assigned[g]
                     /\ promised'[g] = promised[g]
                  \/ SoundPlan(assigned'[g], members'[g],
                         AllTopics(members'[g], topics'[g]) \cap counted')
               /\ assigned'[g] \in [Members -> SUBSET AllPartitions]
    <2>1. CASE DeadMembers(g) = {}
      BY <1>1, <1>3, <2>1 DEF Inv, TypeOK
    <2>2. CASE DeadMembers(g) # {}
      <3>1. assigned'[g] \in Rebalance(members'[g], topics'[g])
        BY <1>1, <1>3, <2>2
      <3>2. SoundPlan(assigned'[g], members'[g],
                      AllTopics(members'[g], topics'[g]) \cap counted)
        BY <1>4, <3>1, RebalanceSound
      <3>3. counted' = counted
        BY <1>1
      <3> QED BY <3>2, <3>3 DEF SoundPlan
    <2> QED BY <2>1, <2>2
  <1>6. assigned' \in [Groups -> [Members -> SUBSET AllPartitions]]
    BY <1>2, <1>5
  <1>7. TypeOK'
    BY <1>1, <1>4, <1>6 DEF Inv, TypeOK
  <1>8. Counting'
    BY <1>1 DEF Inv, TypeOK, Counting
  <1>9. Exclusive' /\ Covered' /\ Balanced'
    BY <1>5, <1>7, <1>8, GroupByGroup
  <1> QED BY <1>7, <1>8, <1>9 DEF Inv

\* Heartbeats, time and the end of a consumer touch no assignment.
LEMMA InvOthers ==
    ASSUME Inv, Tick \/ (\E m \in Members : Heartbeat(m) \/ Die(m))
    PROVE  Inv'
  <1> USE GroupCoordinatorAssumption DEF Inv
  <1>1. UNCHANGED <<created, counted, members, topics, assigned, generation,
                    requests, joins, promised>>
    BY DEF Tick, Heartbeat, Die
  <1>2. /\ age' \in [Groups -> [Members -> 0 .. Timeout + 1]]
        /\ alive' \subseteq Members
        /\ held' \in [Members -> SUBSET AllPartitions]
    <2>1. CASE Tick
      BY <2>1 DEF TypeOK, Tick
    <2>2. ASSUME NEW m \in Members, Heartbeat(m)
          PROVE  /\ age' \in [Groups -> [Members -> 0 .. Timeout + 1]]
                 /\ alive' = alive /\ held' = held
      BY <2>2 DEF TypeOK, Heartbeat
    <2>3. ASSUME NEW m \in Members, Die(m)
          PROVE  /\ age' = age
                 /\ alive' \subseteq Members
                 /\ held' \in [Members -> SUBSET AllPartitions]
      BY <2>3 DEF TypeOK, Die
    <2> QED BY <2>1, <2>2, <2>3 DEF TypeOK
  <1>3. TypeOK'
    BY <1>1, <1>2 DEF TypeOK
  <1>4. Exclusive' /\ Counting' /\ Covered' /\ Balanced'
    BY <1>1 DEF Exclusive, Counting, Covered, Balanced
  <1> QED BY <1>3, <1>4

\* Every step keeps the invariant.
LEMMA InvNext == Inv /\ [Next]_vars => Inv'
  <1> SUFFICES ASSUME Inv, [Next]_vars PROVE Inv'
    OBVIOUS
  <1>1. CASE UNCHANGED vars
    BY <1>1 DEF vars, Inv, TypeOK, Exclusive, Counting, Covered, Balanced
  <1>2. ASSUME NEW m \in Members, Handle(m)
        PROVE  Inv'
    <2>1. PICK r \in requests : (\E t \in r.todo : CountTopic(r, t)) \/ JoinGroup(r)
      BY <1>2 DEF Handle
    <2> QED BY <2>1, InvCountTopic, InvJoinGroup
  <1> QED BY <1>1, <1>2, InvCreateTopic, InvReceiveJoin, InvLeaveGroup,
             InvCheckHeartbeats, InvOthers DEF Next

-----------------------------------------------------------------------------

\* The inductive invariant holds in every state.
LEMMA Invariance == Spec => []Inv
  BY InvInit, InvNext, PTL DEF Spec

\* The coordinator's state, the handlers and the consumers keep their shapes.
THEOREM CoordinatorTypeCorrect == Spec => []TypeOK
  <1>1. Inv => TypeOK
    BY DEF Inv
  <1> QED BY <1>1, Invariance, PTL

\* For every number of groups, consumers, topics and partitions, no partition
\* is assigned to two members of a group, nor to one that is no member.
THEOREM ExclusiveAssignment == Spec => []Exclusive
  <1>1. Inv => Exclusive
    BY DEF Inv
  <1> QED BY <1>1, Invariance, PTL

\* ... and every partition of a topic that existed when a member asked for it
\* is assigned to a member, through any concurrent joins, leaves and expiries.
THEOREM CoveringAssignment == Spec => []Covered
  <1>1. Inv => Covered
    BY DEF Inv
  <1> QED BY <1>1, Invariance, PTL

\* ... and two members of a group differ by at most one partition, however many
\* partitions there are and however the HashMaps order them and the members.
THEOREM BalancedAssignment == Spec => []Balanced
  <1>1. Inv => Balanced
    BY DEF Inv
  <1> QED BY <1>1, Invariance, PTL

=============================================================================
