------------------------------- MODULE Topics -------------------------------
(***************************************************************************)
(* The directory of topics: Topic and TopicManager of storage/src/topic.rs *)
(* with the CreateTopic, Produce and GetPartitions handlers of             *)
(* broker/src/server.rs and a broker that stops and starts again.          *)
(*                                                                         *)
(* A Topic object owns one Partition per directory, each with a            *)
(* next_offset of its own; the directories survive the process.  Creating  *)
(* a topic checks the map, makes directories and files one by one and      *)
(* inserts the object at the end, without a lock around it, so two         *)
(* creations of one topic, or a creation over what an earlier one left     *)
(* behind, end up with several objects over the same files.                *)
(***************************************************************************)
EXTENDS Naturals, Sequences, FiniteSets

CONSTANTS
    Names,       \* topic names
    Counts,      \* the numbers of partitions that clients ask for
    Handlers,    \* tasks that handle requests
    MaxObjects,  \* bound: creations begun
    MaxRecords,  \* bound: records produced
    MaxCrashes   \* bound: times the broker stops

ASSUME TopicsAssumption ==
    /\ IsFiniteSet(Names)
    /\ Counts \subseteq Nat
    /\ MaxObjects \in Nat /\ MaxRecords \in Nat /\ MaxCrashes \in Nat

VARIABLES
    disk,     \* topic -> the directories partition-0, partition-1, ...
    up,       \* whether the broker runs
    objects,  \* the Topic objects of this process
    topics,   \* topic -> which of them the map has; 0 for none
    states,   \* the <<topic, partition>> that cluster metadata has replicas for
    op,       \* handler -> the request it works on
    acked,    \* history: the records whose append was acknowledged
    told,     \* history: topic -> the partition counts clients were told
    asked,    \* history: topic -> the counts of the creations begun
    clash,    \* history: topics created over the files of another object
    crashes

vars == <<disk, up, objects, topics, states, op, acked, told, asked, clash, crashes>>

-----------------------------------------------------------------------------
(* Directories and objects.                                                *)

\* What a partition's directory holds: only itself, a log file without its index,
\* or every log file with its index; and the records in the order of the files.
Made == {"dir", "log", "whole"}

\* A rotation that was interrupted leaves a log file without an index for good.
Dir == [made : Made, broken : BOOLEAN, log : Seq(Nat)]

NewDir == [made |-> "dir", broken |-> FALSE, log |-> <<>>]

\* Wrong variant: a partition without records does not open.
OpensWithRecords(dir) == dir.made = "whole" /\ ~dir.broken /\ dir.log # <<>>

\* Partition::open: every log file must have its index, and there must be one.
Opens(dir) == dir.made = "whole" /\ ~dir.broken

\* Wrong variant: the last offset is given again.
NextRepeats(log) == IF log = <<>> THEN 0 ELSE log[Len(log)]

\* The next_offset that the scan of the last segment gives.
NextOffset(log) == IF log = <<>> THEN 0 ELSE log[Len(log)] + 1

\* Wrong variant: the directories in the order read_dir happens to give.
OpenUnsorted(t) ==
    LET n == Len(disk[t])
    IN  [name |-> t, ids |-> [i \in 1 .. n |-> n - i],
         next |-> [i \in 1 .. n |-> NextOffset(disk[t][n - i + 1].log)]]

\* Topic::open: one partition per directory, sorted by their numbers.
OpenTopic(t) ==
    [name |-> t, ids |-> [i \in DOMAIN disk[t] |-> i - 1],
     next |-> [i \in DOMAIN disk[t] |-> NextOffset(disk[t][i].log)]]

\* Topic::open succeeds: there are directories and all of them open.
Openable(t) == disk[t] # <<>> /\ \A i \in DOMAIN disk[t] : Opens(disk[t][i])

\* Topic::num_partitions, as GetPartitions and GetMetadata answer.
NumPartitions(t) == Len(objects[topics[t]].ids)

Served(t) == up /\ topics[t] # 0

-----------------------------------------------------------------------------
(* Handlers.                                                               *)

Idle == [at |-> "idle"]

Init ==
    /\ disk = [t \in Names |-> <<>>]
    /\ up = TRUE
    /\ objects = <<>>
    /\ topics = [t \in Names |-> 0]
    /\ states = {}
    /\ op = [h \in Handlers |-> Idle]
    /\ acked = <<>>
    /\ told = [t \in Names |-> {}]
    /\ asked = [t \in Names |-> <<>>]
    /\ clash = {}
    /\ crashes = 0

\* Other handlers that create t, and whether files of t have records.
Creating(t) == {h \in Handlers : op[h].at \in {"new", "log", "index"} /\ op[h].name = t}

Clashes(t, n) ==
    \/ Creating(t) # {}
    \/ \E i \in DOMAIN asked[t] : asked[t][i] # n
    \/ \E i \in DOMAIN disk[t] : disk[t][i].log # <<>>

\* TopicManager::create_topic: the name is looked up, and an error is returned
\* when it is there; else Topic::new starts with its first partition.
CreateTopic(h, t, n) ==
    /\ up
    /\ op[h] = Idle
    /\ topics[t] = 0
    /\ Len(asked[t]) < MaxObjects
    /\ op' = [op EXCEPT ![h] = [at |-> "new", name |-> t, count |-> n, next |-> 0]]
    /\ asked' = [asked EXCEPT ![t] = Append(@, n)]
    /\ clash' = IF Clashes(t, n) THEN clash \cup {t} ELSE clash
    /\ UNCHANGED <<disk, up, objects, topics, states, acked, told, crashes>>

\* Partition::new, first step: create_dir_all.
MakeDir(h) ==
    LET o == op[h]
    IN  /\ o.at = "new" /\ o.next < o.count
        /\ disk' = IF o.next < Len(disk[o.name]) THEN disk
                   ELSE [disk EXCEPT ![o.name] = Append(@, NewDir)]
        /\ op' = [op EXCEPT ![h].at = "log"]
        /\ UNCHANGED <<up, objects, topics, states, acked, told, asked, clash, crashes>>

\* LogSegment::create makes the log file of offset 0, or opens what is there.
MakeLog(h) ==
    LET o == op[h]
    IN  /\ o.at = "log"
        /\ disk' = [disk EXCEPT ![o.name][o.next + 1].made = IF @ = "dir" THEN "log" ELSE @]
        /\ op' = [op EXCEPT ![h].at = "index"]
        /\ UNCHANGED <<up, objects, topics, states, acked, told, asked, clash, crashes>>

\* ... then its index file.
MakeIndex(h) ==
    LET o == op[h]
    IN  /\ o.at = "index"
        /\ disk' = [disk EXCEPT ![o.name][o.next + 1].made = "whole"]
        /\ op' = [op EXCEPT ![h].at = "new", ![h].next = @ + 1]
        /\ UNCHANGED <<up, objects, topics, states, acked, told, asked, clash, crashes>>

\* A call of Topic::new fails: CreateTopicError, and the files stay.
CreateFails(h) ==
    /\ op[h].at \in {"new", "log", "index"}
    /\ op[h].next < op[h].count
    /\ op' = [op EXCEPT ![h] = Idle]
    /\ UNCHANGED <<disk, up, objects, topics, states, acked, told, asked, clash, crashes>>

\* Wrong variant: the object is inserted before its last partition is made.
InsertEarly(h) ==
    LET o == op[h]
    IN  /\ o.at = "new" /\ o.next + 1 >= o.count
        /\ objects' = Append(objects,
              [name |-> o.name, ids |-> [i \in 1 .. o.count |-> i - 1],
               next |-> [i \in 1 .. o.count |-> 0]])
        /\ topics' = [topics EXCEPT ![o.name] = Len(objects')]
        /\ op' = [op EXCEPT ![h].at = "assign", ![h].next = 0]
        /\ UNCHANGED <<disk, up, states, acked, told, asked, clash, crashes>>

\* The object, with every next_offset at 0, replaces whatever the map has.
Insert(h) ==
    LET o == op[h]
    IN  /\ o.at = "new" /\ o.next = o.count
        /\ objects' = Append(objects,
              [name |-> o.name, ids |-> [i \in 1 .. o.count |-> i - 1],
               next |-> [i \in 1 .. o.count |-> 0]])
        /\ topics' = [topics EXCEPT ![o.name] = Len(objects')]
        /\ op' = [op EXCEPT ![h].at = "assign", ![h].next = 0]
        /\ UNCHANGED <<disk, up, states, acked, told, asked, clash, crashes>>

\* Wrong variant: replicas are assigned to one partition too many.
AssignPast(h) ==
    LET o == op[h]
    IN  /\ o.at = "assign" /\ o.next <= o.count
        /\ states' = states \cup {<<o.name, o.next>>}
        /\ op' = [op EXCEPT ![h].next = @ + 1]
        /\ UNCHANGED <<disk, up, objects, topics, acked, told, asked, clash, crashes>>

\* The CreateTopic handler assigns replicas partition by partition.
AssignReplicas(h) ==
    LET o == op[h]
    IN  /\ o.at = "assign" /\ o.next < o.count
        /\ states' = states \cup {<<o.name, o.next>>}
        /\ op' = [op EXCEPT ![h].next = @ + 1]
        /\ UNCHANGED <<disk, up, objects, topics, acked, told, asked, clash, crashes>>

\* CreateTopicSuccess.
AnswerCreate(h) ==
    LET o == op[h]
    IN  /\ o.at = "assign" /\ o.next >= o.count
        /\ told' = [told EXCEPT ![o.name] = @ \cup {o.count}]
        /\ op' = [op EXCEPT ![h] = Idle]
        /\ UNCHANGED <<disk, up, objects, topics, states, acked, asked, clash, crashes>>

\* The GetPartitions and GetMetadata handlers: a topic that is not in the map is
\* an error for the one and left out by the other.
GetPartitions(t) ==
    /\ up
    /\ told' = IF Served(t) THEN [told EXCEPT ![t] = @ \cup {NumPartitions(t)}] ELSE told
    /\ UNCHANGED <<disk, up, objects, topics, states, op, acked, asked, clash, crashes>>

\* The Produce handler gets the Topic object; a partition number past the end of
\* its list is an error.
Produce(h, t, p) ==
    /\ Served(t)
    /\ p < NumPartitions(t)
    /\ op[h] = Idle
    /\ op' = [op EXCEPT ![h] = [at |-> "append", object |-> topics[t], partition |-> p]]
    /\ UNCHANGED <<disk, up, objects, topics, states, acked, told, asked, clash, crashes>>

\* Topic::get_partition takes the partition by its place in the list, and its
\* append writes to that partition's directory at its next_offset.
AppendRecord(h) ==
    LET o == op[h]
        obj == objects[o.object]
        i == o.partition + 1
    IN  /\ o.at = "append"
        /\ Len(acked) < MaxRecords
        /\ disk' = [disk EXCEPT ![obj.name][obj.ids[i] + 1].log = Append(@, obj.next[i])]
        /\ objects' = [objects EXCEPT ![o.object].next[i] = @ + 1]
        /\ acked' = Append(acked, [name |-> obj.name, partition |-> o.partition,
                                   offset |-> obj.next[i]])
        /\ op' = [op EXCEPT ![h] = Idle]
        /\ UNCHANGED <<up, topics, states, told, asked, clash, crashes>>

-----------------------------------------------------------------------------
(* The process.                                                            *)

\* The broker stops, perhaps between the two files of a rotation.
Crash ==
    /\ up
    /\ crashes < MaxCrashes
    /\ crashes' = crashes + 1
    /\ up' = FALSE
    /\ objects' = <<>>
    /\ topics' = [t \in Names |-> 0]
    /\ states' = {}
    /\ op' = [h \in Handlers |-> Idle]
    /\ \/ UNCHANGED disk
       \/ \E h \in Handlers :
             LET obj == objects[op[h].object]
                 id  == obj.ids[op[h].partition + 1] + 1
             IN  /\ op[h].at = "append"
                 /\ disk[obj.name][id].log # <<>>
                 /\ disk' = [disk EXCEPT ![obj.name][id].broken = TRUE]
    /\ UNCHANGED <<acked, told, asked, clash>>

\* BrokerServer::new with TopicManager::open: topics that do not open are skipped,
\* and cluster metadata starts empty.
Restart ==
    LET found == {t \in Names : Openable(t)}
    IN  /\ ~up
        /\ up' = TRUE
        /\ \E opened \in [1 .. Cardinality(found) -> found] :
              /\ \A t \in found : \E i \in DOMAIN opened : opened[i] = t
              /\ objects' = [i \in DOMAIN opened |-> OpenTopic(opened[i])]
              /\ topics' = [t \in Names |->
                    IF t \in found THEN CHOOSE i \in DOMAIN opened : opened[i] = t ELSE 0]
        /\ UNCHANGED <<disk, states, op, acked, told, asked, clash, crashes>>

Next ==
    \/ \E h \in Handlers :
          \/ \E t \in Names : \E n \in Counts : CreateTopic(h, t, n)
          \/ MakeDir(h) \/ MakeLog(h) \/ MakeIndex(h) \/ CreateFails(h)
          \/ Insert(h) \/ AssignReplicas(h) \/ AnswerCreate(h)
          \/ \E t \in {u \in Names : Served(u)} :
                \E p \in 0 .. NumPartitions(t) - 1 : Produce(h, t, p)
          \/ AppendRecord(h)
    \/ \E t \in Names : GetPartitions(t)
    \/ Crash \/ Restart

Spec == Init /\ [][Next]_vars

-----------------------------------------------------------------------------
(* Properties.                                                             *)

\* Type invariant: the map leads to an object of the topic, and every partition
\* of an object has a counter and a directory.
TypeOK ==
    /\ disk \in [Names -> Seq(Dir)]
    /\ up \in BOOLEAN
    /\ \A t \in Names :
          /\ topics[t] \in 0 .. Len(objects)
          /\ topics[t] # 0 => objects[topics[t]].name = t
    /\ \A i \in DOMAIN objects :
          /\ DOMAIN objects[i].next = DOMAIN objects[i].ids
          /\ \A k \in DOMAIN objects[i].ids :
                objects[i].ids[k] + 1 \in DOMAIN disk[objects[i].name]
    /\ states \subseteq Names \X Nat
    /\ told \in [Names -> SUBSET Nat]
    /\ clash \subseteq Names
    /\ crashes \in 0 .. MaxCrashes

\* A record that was acknowledged for partition p is in the directory of that
\* number, although objects find their partitions by their place in a list that
\* a restart rebuilds from whatever directories there are: creation in order and
\* the sort of Topic::open keep place and number the same, clash or not.
RoutedByNumber ==
    \A i \in DOMAIN acked :
        LET r == acked[i]
        IN  /\ r.partition < Len(disk[r.name])
            /\ \E k \in DOMAIN disk[r.name][r.partition + 1].log :
                  disk[r.name][r.partition + 1].log[k] = r.offset

\* Two acknowledged records of a partition have different offsets, across
\* creations that failed or were interrupted and repeated, and restarts, unless
\* the topic was created over another creation or over records.
OffsetsUnique ==
    \A i, j \in DOMAIN acked :
        (i # j /\ acked[i] = acked[j]) => acked[i].name \in clash

\* The number of partitions a client was told, by CreateTopicSuccess or by
\* GetPartitions, is what the broker serves whenever it runs, so that cached
\* metadata stays true: a topic comes back whole after a restart, or not at all
\* when a rotation was interrupted; one of no partitions has no directory and
\* does not come back.
CountStable ==
    \A t \in Names \ clash : \A n \in told[t] :
        /\ Served(t) => NumPartitions(t) = n
        /\ up /\ n > 0 /\ ~Served(t) => \E i \in DOMAIN disk[t] : disk[t][i].broken

\* Cluster metadata has replicas only for partitions that the broker serves.
AdvertisedServed ==
    \A s \in states :
        s[1] \notin clash => Served(s[1]) /\ s[2] < NumPartitions(s[1])

=============================================================================
