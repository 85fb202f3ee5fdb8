---------------------------- MODULE TopicsProofs ----------------------------
(***************************************************************************)
(* Proofs about Topics: for any topics, partition counts and number of     *)
(* handlers, records reach the directory of their partition, and a topic   *)
(* that was not created over another creation or over records keeps its    *)
(* offsets unique and its number of partitions.                            *)
(***************************************************************************)
EXTENDS Topics, FiniteSetTheorems, TLAPS

-----------------------------------------------------------------------------
(* The inductive invariant.                                                *)

Object == [name : Names, ids : Seq(Nat), next : Seq(Nat)]

\* What a handler does: it creates a topic, or it appends.
Creation == [at : {"new", "log", "index", "assign"}, name : Names, count : Nat, next : Nat]

Appending == [at : {"append"}, object : Nat, partition : Nat]

Ack == [name : Names, partition : Nat, offset : Nat]

Types ==
    /\ disk \in [Names -> Seq(Dir)]
    /\ up \in BOOLEAN
    /\ objects \in Seq(Object)
    /\ topics \in [Names -> Nat]
    /\ states \subseteq Names \X Nat
    /\ op \in [Handlers -> {Idle} \cup Creation \cup Appending]
    /\ acked \in Seq(Ack)
    /\ told \in [Names -> SUBSET Nat]
    /\ asked \in [Names -> Seq(Nat)]
    /\ clash \subseteq Names
    /\ crashes \in 0 .. MaxCrashes

\* The n-th partition of an object has the number n - 1 and a directory.
WellFormed(o) ==
    /\ Len(o.next) = Len(o.ids) /\ Len(o.ids) <= Len(disk[o.name])
    /\ \A k \in 1 .. Len(o.ids) : o.ids[k] = k - 1

Objects == \A i \in 1 .. Len(objects) : WellFormed(objects[i])

\* The map leads to an object of the topic; a broker that is down has nothing.
Mapped ==
    /\ \A t \in Names : topics[t] # 0 =>
          topics[t] \in 1 .. Len(objects) /\ objects[topics[t]].name = t
    /\ ~up => /\ objects = <<>> /\ states = {}
              /\ \A t \in Names : topics[t] = 0
              /\ \A h \in Handlers : op[h] = Idle

\* A creation has made the directories and files of the partitions before next.
Creator(o) ==
    /\ o.next <= o.count
    /\ o.at \in {"new", "log", "index"} =>
          /\ o.next <= Len(disk[o.name])
          /\ \A k \in 1 .. o.next : disk[o.name][k].made = "whole"
    /\ o.at \in {"log", "index"} => o.next < o.count /\ o.next < Len(disk[o.name])
    /\ o.at = "assign" => topics[o.name] # 0

Creations == \A h \in Handlers : op[h] \in Creation => Creator(op[h])

\* An append has an object and one of its partitions.
Appends ==
    \A h \in Handlers : op[h] \in Appending =>
        /\ op[h].object \in 1 .. Len(objects)
        /\ op[h].partition < Len(objects[op[h].object].ids)

\* Only a partition with records has a rotation that was interrupted.
Broken ==
    \A t \in Names : \A k \in 1 .. Len(disk[t]) :
        disk[t][k].broken => disk[t][k].log # <<>>

Empty(t) == \A k \in 1 .. Len(disk[t]) : disk[t][k].log = <<>>

Whole(t) == \A k \in 1 .. Len(disk[t]) : disk[t][k].made = "whole"

\* A topic without clash is created by one handler at a time, while there is no
\* object of it and no record.
OneCreation(t) ==
    \A h \in Creating(t) :
        /\ \A d \in Creating(t) : d = h
        /\ topics[t] = 0 /\ Empty(t) /\ Len(asked[t]) > 0
        /\ \A i \in 1 .. Len(asked[t]) : asked[t][i] = op[h].count

\* It has one object, whose counters are at the ends of the logs.
OneObject(t) ==
    \A i \in 1 .. Len(objects) : objects[i].name = t =>
        /\ i = topics[t] /\ Len(asked[t]) > 0
        /\ Len(objects[i].ids) = Len(disk[t]) /\ Whole(t)
        /\ \A k \in 1 .. Len(objects[i].ids) : objects[i].next[k] = Len(disk[t][k].log)
        /\ Len(objects[i].ids) = 0 => \A j \in 1 .. Len(asked[t]) : asked[t][j] = 0

\* Its offsets count from 0, and every creation asked for as many partitions, or
\* more, as there are directories.
Counted(t) ==
    /\ \A k \in 1 .. Len(disk[t]) : \A j \in 1 .. Len(disk[t][k].log) :
          disk[t][k].log[j] = j - 1
    /\ \A i \in 1 .. Len(asked[t]) : Len(disk[t]) <= asked[t][i]
    /\ Len(asked[t]) = 0 => Len(disk[t]) = 0

\* A handler that assigns its replicas has the object in the map.
Assigned(t) ==
    \A h \in Handlers : (op[h] \in Creation /\ op[h].at = "assign" /\ op[h].name = t) =>
        op[h].count = Len(objects[topics[t]].ids)

\* Clients were told the number of its directories, all of them whole.
Told(t) ==
    \A n \in told[t] :
        /\ n = Len(disk[t]) /\ Whole(t) /\ Len(asked[t]) > 0
        /\ n = 0 => \A i \in 1 .. Len(asked[t]) : asked[t][i] = 0
        /\ n > 0 => Creating(t) = {}
        /\ (up /\ n > 0 /\ topics[t] = 0) => \E k \in 1 .. Len(disk[t]) : disk[t][k].broken

Advertised(t) ==
    \A s \in states : s[1] = t => Served(t) /\ s[2] < NumPartitions(t)

Clean(t) ==
    OneCreation(t) /\ OneObject(t) /\ Counted(t) /\ Assigned(t) /\ Told(t) /\ Advertised(t)

Inv ==
    /\ Types /\ Objects /\ Mapped /\ Creations /\ Appends /\ Broken
    /\ RoutedByNumber /\ OffsetsUnique
    /\ \A t \in Names \ clash : Clean(t)

-----------------------------------------------------------------------------
(* Handlers and directories.                                               *)

Phases == {"new", "log", "index"}

\* What a handler does is known from its step.
LEMMA Phase ==
    ASSUME Types, NEW h \in Handlers
    PROVE  /\ op[h] = Idle \/ op[h] \in Creation \/ op[h] \in Appending
           /\ op[h].at \in Phases \cup {"assign"} <=> op[h] \in Creation
           /\ op[h].at = "append" <=> op[h] \in Appending
           /\ op[h] = Idle => op[h].at = "idle"
           /\ Idle \notin Creation \cup Appending
           /\ op[h] \in Creation => op[h] \notin Appending
  <1>1. Idle.at = "idle"
    BY DEF Idle
  <1>2. \A r \in Creation : r.at \in Phases \cup {"assign"}
    BY DEF Creation, Phases
  <1>3. \A r \in Appending : r.at = "append"
    BY DEF Appending
  <1>4. op[h] = Idle \/ op[h] \in Creation \/ op[h] \in Appending
    BY DEF Types
  <1> QED BY <1>1, <1>2, <1>3, <1>4 DEF Phases

\* Directories are never removed, what is whole stays so, and logs only grow.
Grows ==
    \A t \in Names :
        /\ Len(disk[t]) <= Len(disk'[t])
        /\ \A k \in 1 .. Len(disk[t]) :
              /\ disk[t][k].made = "whole" => disk'[t][k].made = "whole"
              /\ Len(disk[t][k].log) <= Len(disk'[t][k].log)
              /\ \A j \in 1 .. Len(disk[t][k].log) : disk'[t][k].log[j] = disk[t][k].log[j]

LEMMA GrowsWhenSame == disk \in [Names -> Seq(Dir)] /\ disk' = disk => Grows
  <1> SUFFICES ASSUME disk \in [Names -> Seq(Dir)], disk' = disk, NEW t \in Names
               PROVE  /\ Len(disk[t]) <= Len(disk'[t])
                      /\ \A k \in 1 .. Len(disk[t]) : Len(disk[t][k].log) <= Len(disk'[t][k].log)
    BY DEF Grows
  <1>1. Len(disk[t]) \in Nat /\ \A k \in 1 .. Len(disk[t]) : disk[t][k] \in Dir
    OBVIOUS
  <1>2. \A k \in 1 .. Len(disk[t]) : Len(disk[t][k].log) \in Nat
    BY <1>1 DEF Dir
  <1> QED BY <1>1, <1>2

\* One directory changes.
Replaces(t, k, d) ==
    /\ disk \in [Names -> Seq(Dir)] /\ t \in Names /\ k \in 1 .. Len(disk[t]) /\ d \in Dir
    /\ disk' = [disk EXCEPT ![t] = [disk[t] EXCEPT ![k] = d]]

LEMMA DirStep ==
    ASSUME NEW t, NEW k, NEW d, Replaces(t, k, d)
    PROVE  /\ disk' \in [Names -> Seq(Dir)]
           /\ \A x \in Names : x # t => disk'[x] = disk[x]
           /\ Len(disk'[t]) = Len(disk[t]) /\ disk'[t][k] = d
           /\ \A j \in 1 .. Len(disk[t]) : j # k => disk'[t][j] = disk[t][j]
  <1> USE DEF Replaces
  <1>1. disk[t] \in Seq(Dir)
    OBVIOUS
  <1>2. [disk[t] EXCEPT ![k] = d] \in Seq(Dir) /\ Len([disk[t] EXCEPT ![k] = d]) = Len(disk[t])
    BY <1>1
  <1>3. disk'[t] = [disk[t] EXCEPT ![k] = d]
    OBVIOUS
  <1> QED BY <1>1, <1>2, <1>3

\* A change that keeps what is whole and extends the log lets the directories grow.
LEMMA DirGrows ==
    ASSUME NEW t, NEW k, NEW d, Replaces(t, k, d),
           disk[t][k].made = "whole" => d.made = "whole",
           Len(disk[t][k].log) <= Len(d.log),
           \A j \in 1 .. Len(disk[t][k].log) : d.log[j] = disk[t][k].log[j]
    PROVE  Grows
  <1>1. /\ \A x \in Names : x # t => disk'[x] = disk[x]
        /\ Len(disk'[t]) = Len(disk[t]) /\ disk'[t][k] = d
        /\ \A j \in 1 .. Len(disk[t]) : j # k => disk'[t][j] = disk[t][j]
    BY DirStep
  <1>2. ASSUME NEW x \in Names
        PROVE  Len(disk[x]) \in Nat /\ \A j \in 1 .. Len(disk[x]) : Len(disk[x][j].log) \in Nat
    <2>1. Len(disk[x]) \in Nat /\ \A j \in 1 .. Len(disk[x]) : disk[x][j] \in Dir
      BY DEF Replaces
    <2> QED BY <2>1 DEF Dir
  <1> QED BY <1>1, <1>2 DEF Replaces, Grows

-----------------------------------------------------------------------------
(* What steps keep.                                                        *)

LEMMA ObjectKept ==
    ASSUME disk \in [Names -> Seq(Dir)], disk' \in [Names -> Seq(Dir)], Grows,
           NEW o \in Object, WellFormed(o)
    PROVE  WellFormed(o)'
  <1>1. o.name \in Names /\ Len(o.ids) \in Nat
    BY DEF Object
  <1>2. Len(disk[o.name]) \in Nat /\ Len(disk'[o.name]) \in Nat
    BY <1>1
  <1>3. Len(disk[o.name]) <= Len(disk'[o.name])
    BY <1>1 DEF Grows
  <1>4. Len(o.ids) <= Len(disk'[o.name])
    BY <1>1, <1>2, <1>3 DEF WellFormed
  <1> QED BY <1>4 DEF WellFormed

LEMMA CreatorKept ==
    ASSUME disk \in [Names -> Seq(Dir)], disk' \in [Names -> Seq(Dir)], Grows,
           NEW o \in Creation, Creator(o), topics[o.name] # 0 => topics'[o.name] # 0
    PROVE  Creator(o)'
  <1>1. o.name \in Names /\ o.next \in Nat /\ o.count \in Nat
    BY DEF Creation
  <1>2. Len(disk[o.name]) \in Nat /\ Len(disk'[o.name]) \in Nat
    BY <1>1
  <1>3. /\ Len(disk[o.name]) <= Len(disk'[o.name])
        /\ \A k \in 1 .. Len(disk[o.name]) :
              disk[o.name][k].made = "whole" => disk'[o.name][k].made = "whole"
    BY <1>1 DEF Grows
  <1>4. o.at \in {"new", "log", "index"} =>
           /\ o.next <= Len(disk'[o.name])
           /\ \A k \in 1 .. o.next : disk'[o.name][k].made = "whole"
    BY <1>1, <1>2, <1>3 DEF Creator
  <1>5. o.at \in {"log", "index"} => o.next < o.count /\ o.next < Len(disk'[o.name])
    BY <1>1, <1>2, <1>3 DEF Creator
  <1> QED BY <1>4, <1>5 DEF Creator

\* Records stay where they are.
LEMMA RoutedKept ==
    ASSUME Types, disk' \in [Names -> Seq(Dir)], Grows, RoutedByNumber, NEW i \in DOMAIN acked
    PROVE  LET r == acked[i]
           IN  /\ r.partition < Len(disk'[r.name])
               /\ \E k \in DOMAIN disk'[r.name][r.partition + 1].log :
                     disk'[r.name][r.partition + 1].log[k] = r.offset
  <1>1. PICK r \in Ack : r = acked[i]
    BY DEF Types
  <1>2. PICK t \in Names, p \in Nat : t = r.name /\ p = r.partition
    BY DEF Ack
  <1>3. /\ disk[t] \in Seq(Dir) /\ disk'[t] \in Seq(Dir)
        /\ Len(disk[t]) \in Nat /\ Len(disk'[t]) \in Nat /\ Len(disk[t]) <= Len(disk'[t])
    BY DEF Types, Grows
  <1>4. /\ p < Len(disk[t])
        /\ \E k \in DOMAIN disk[t][p + 1].log : disk[t][p + 1].log[k] = r.offset
    BY <1>1, <1>2 DEF RoutedByNumber
  <1>5. PICK q \in 1 .. Len(disk[t]) : q = p + 1
    BY <1>3, <1>4
  <1>6. q \in 1 .. Len(disk'[t])
    BY <1>3, <1>5
  <1>7. disk[t][q] \in Dir /\ disk'[t][q] \in Dir
    BY <1>3, <1>6
  <1>8. disk[t][q].log \in Seq(Nat) /\ disk'[t][q].log \in Seq(Nat)
    BY <1>7 DEF Dir
  <1>9. PICK k \in DOMAIN disk[t][q].log : disk[t][q].log[k] = r.offset
    BY <1>4, <1>5
  <1>10. /\ Len(disk[t][q].log) <= Len(disk'[t][q].log)
         /\ \A j \in 1 .. Len(disk[t][q].log) : disk'[t][q].log[j] = disk[t][q].log[j]
    BY DEF Grows
  <1>11. k \in DOMAIN disk'[t][q].log /\ disk'[t][q].log[k] = r.offset
    <2>1. PICK a \in Seq(Nat), b \in Seq(Nat) : a = disk[t][q].log /\ b = disk'[t][q].log
      BY <1>8
    <2>2. k \in 1 .. Len(a) /\ a[k] = r.offset
      BY <1>9, <2>1
    <2>3. Len(a) <= Len(b) /\ \A j \in 1 .. Len(a) : b[j] = a[j]
      BY <1>10, <2>1
    <2>4. k \in DOMAIN b /\ b[k] = r.offset
      BY <2>2, <2>3
    <2> QED BY <2>1, <2>4
  <1>12. p < Len(disk'[t])
    BY <1>3, <1>4
  <1> QED BY <1>1, <1>2, <1>5, <1>11, <1>12

\* A step that changes no object and not the map, and leaves each handler as it
\* was or at a step that is in order.
Plain ==
    /\ objects' = objects /\ topics' = topics /\ up /\ up' /\ acked' = acked
    /\ clash \subseteq clash'
    /\ Grows
    /\ \A h \in Handlers :
          \/ op'[h] = op[h] \/ op'[h] = Idle
          \/ op'[h] \in Creation /\ Creator(op[h])'
          \/ /\ op'[h] \in Appending /\ op'[h].object \in 1 .. Len(objects)
             /\ op'[h].partition < Len(objects[op'[h].object].ids)

LEMMA PlainStep ==
    ASSUME Inv, Types', Plain
    PROVE  (Objects /\ Mapped /\ Creations /\ Appends /\ RoutedByNumber /\ OffsetsUnique)'
  <1>1. disk \in [Names -> Seq(Dir)] /\ disk' \in [Names -> Seq(Dir)]
    BY DEF Inv, Types
  <1>2. Objects'
    <2>1. \A i \in 1 .. Len(objects) : objects[i] \in Object
      BY DEF Inv, Types
    <2>2. \A i \in 1 .. Len(objects) : WellFormed(objects[i])
      BY DEF Inv, Objects
    <2>3. ASSUME NEW i \in 1 .. Len(objects) PROVE WellFormed(objects[i])'
      <3>1. PICK o \in Object : o = objects[i] /\ o = objects'[i]
        BY <2>1 DEF Plain
      <3>2. WellFormed(o)
        BY <2>2, <3>1
      <3>3. WellFormed(o)'
        BY <1>1, <3>2, ObjectKept DEF Plain
      <3> QED BY <3>1, <3>3
    <2> QED BY <2>3 DEF Plain, Objects
  <1>3. Mapped'
    BY DEF Inv, Mapped, Plain
  <1>4. Creations'
    <2> SUFFICES ASSUME NEW h \in Handlers, op'[h] \in Creation PROVE Creator(op[h])'
      BY DEF Creations
    <2>1. CASE op'[h] = op[h]
      <3>1. PICK o \in Creation : o = op[h] /\ o = op'[h]
        BY <2>1
      <3>2. Creator(o)
        BY <3>1 DEF Inv, Creations
      <3>3. Creator(o)'
        BY <1>1, <3>2, CreatorKept DEF Plain
      <3> QED BY <3>1, <3>3
    <2>2. CASE op'[h] # op[h]
      <3>1. op'[h] # Idle /\ op'[h] \notin Appending
        <4>1. Idle.at = "idle" /\ op'[h].at # "idle" /\ op'[h].at # "append"
          BY DEF Creation, Idle
        <4> QED BY <4>1 DEF Appending
      <3> QED BY <2>2, <3>1 DEF Plain
    <2> QED BY <2>1, <2>2
  <1>5. Appends'
    <2> SUFFICES ASSUME NEW h \in Handlers, op'[h] \in Appending
                 PROVE  /\ op'[h].object \in 1 .. Len(objects)
                        /\ op'[h].partition < Len(objects[op'[h].object].ids)
      BY DEF Appends, Plain
    <2>1. op'[h] # Idle /\ op'[h] \notin Creation
      <3>1. Idle.at = "idle" /\ op'[h].at = "append"
        BY DEF Appending, Idle
      <3> QED BY <3>1 DEF Creation
    <2> QED BY <2>1 DEF Plain, Inv, Appends
  <1>6. RoutedByNumber'
    BY <1>1, RoutedKept DEF Inv, Plain, RoutedByNumber
  <1>7. OffsetsUnique'
    BY DEF Inv, Plain, OffsetsUnique
  <1> QED BY <1>2, <1>3, <1>4, <1>5, <1>6, <1>7

\* A step leaves the objects, directories and creations of topic t, or ends some.
Frame(t) ==
    /\ disk'[t] = disk[t] /\ asked'[t] = asked[t] /\ topics'[t] = topics[t] /\ up' = up
    /\ \A i \in 1 .. Len(objects') : objects'[i].name = t =>
          i \in 1 .. Len(objects) /\ objects'[i] = objects[i]
    /\ topics[t] # 0 => objects'[topics[t]] = objects[topics[t]]
    /\ \A h \in Handlers : (op'[h] \in Creation /\ op'[h].name = t) =>
          /\ op[h] \in Creation /\ op[h].name = t
          /\ op'[h].at = op[h].at /\ op'[h].count = op[h].count

\* It does not concern t at all.
Apart(t) ==
    /\ Frame(t) /\ told'[t] = told[t]
    /\ \A s \in states' : s[1] = t => s \in states

LEMMA FrameStep ==
    ASSUME Inv, Types', NEW t \in Names, Clean(t), Frame(t)
    PROVE  /\ (OneCreation(t) /\ OneObject(t) /\ Counted(t) /\ Assigned(t))'
           /\ Creating(t)' \subseteq Creating(t) /\ (Whole(t)' <=> Whole(t))
  <1>1. \A h \in Creating(t)' : h \in Creating(t) /\ op'[h].count = op[h].count
    <2> SUFFICES ASSUME NEW h \in Handlers, op'[h].at \in Phases, op'[h].name = t
                 PROVE  h \in Creating(t) /\ op'[h].count = op[h].count
      BY DEF Creating, Phases
    <2>1. op'[h] \in Creation
      <3>1. op'[h] = Idle \/ op'[h] \in Creation \/ op'[h] \in Appending
        BY DEF Types
      <3>2. Idle.at = "idle"
        BY DEF Idle
      <3> QED BY <3>1, <3>2 DEF Appending, Phases
    <2> QED BY <2>1 DEF Frame, Creating, Phases
  <1>2. (Empty(t)' <=> Empty(t)) /\ (Whole(t)' <=> Whole(t))
    BY DEF Frame, Empty, Whole
  <1>3. OneCreation(t)'
    BY <1>1, <1>2 DEF Clean, OneCreation, Frame
  <1>4. OneObject(t)'
    <2> SUFFICES ASSUME NEW i \in 1 .. Len(objects'), objects'[i].name = t
                 PROVE  /\ i = topics[t] /\ Len(asked[t]) > 0
                        /\ Len(objects'[i].ids) = Len(disk[t]) /\ Whole(t)
                        /\ \A k \in 1 .. Len(objects'[i].ids) :
                              objects'[i].next[k] = Len(disk[t][k].log)
                        /\ Len(objects'[i].ids) = 0 =>
                              \A j \in 1 .. Len(asked[t]) : asked[t][j] = 0
      BY <1>2 DEF OneObject, Frame
    <2>1. i \in 1 .. Len(objects) /\ objects'[i] = objects[i]
      BY DEF Frame
    <2> QED BY <2>1 DEF Clean, OneObject
  <1>5. Counted(t)'
    BY DEF Clean, Counted, Frame
  <1>6. Assigned(t)'
    <2> SUFFICES ASSUME NEW h \in Handlers, op'[h] \in Creation, op'[h].at = "assign",
                        op'[h].name = t
                 PROVE  op'[h].count = Len(objects'[topics'[t]].ids)
      BY DEF Assigned
    <2>1. op[h] \in Creation /\ op[h].at = "assign" /\ op[h].name = t /\ op[h].count = op'[h].count
      BY DEF Frame
    <2>2. topics[t] # 0
      BY <2>1 DEF Inv, Creations, Creator
    <2> QED BY <2>1, <2>2 DEF Frame, Clean, Assigned
  <1> QED BY <1>1, <1>2, <1>3, <1>4, <1>5, <1>6

LEMMA ToldKept ==
    ASSUME Inv, Types', NEW t \in Names, Clean(t), Frame(t), told'[t] = told[t]
    PROVE  Told(t)'
  BY FrameStep DEF Clean, Told, Frame

LEMMA AdvertisedKept ==
    ASSUME NEW t \in Names, Clean(t), Frame(t), \A s \in states' : s[1] = t => s \in states
    PROVE  Advertised(t)'
  BY DEF Clean, Advertised, Frame, Served, NumPartitions

LEMMA ApartStep ==
    ASSUME Inv, Types', NEW t \in Names, Clean(t), Apart(t)
    PROVE  Clean(t)'
  <1>1. Frame(t) /\ told'[t] = told[t] /\ \A s \in states' : s[1] = t => s \in states
    BY DEF Apart
  <1>2. (OneCreation(t) /\ OneObject(t) /\ Counted(t) /\ Assigned(t))'
    BY <1>1, FrameStep
  <1>3. Told(t)' /\ Advertised(t)'
    BY <1>1, ToldKept, AdvertisedKept
  <1> QED BY <1>2, <1>3 DEF Clean

-----------------------------------------------------------------------------
(* The creation of a topic.                                                *)

Work == {Idle} \cup Creation \cup Appending

LEMMA Busy == Inv => \A h \in Handlers : op[h] # Idle => up
  BY DEF Inv, Mapped

\* One handler moves on.
LEMMA Moves ==
    ASSUME Types, NEW h \in Handlers, NEW w \in Work, op' = [op EXCEPT ![h] = w]
    PROVE  /\ op' \in [Handlers -> Work] /\ op'[h] = w
           /\ \A d \in Handlers : d # h => op'[d] = op[d]
  BY DEF Types, Work

\* The handler h, the only one that creates t, goes on with it.
Continues(h, t) ==
    /\ h \in Creating(t) /\ op[h].next < op[h].count
    /\ \A d \in Handlers : d # h => op'[d] = op[d]
    /\ op'[h] \in Creation /\ op'[h].at \in Phases /\ op'[h].name = t
    /\ op'[h].count = op[h].count
    /\ UNCHANGED <<up, objects, topics, states, acked, told, asked, clash>>
    /\ Empty(t) => Empty(t)'
    /\ Len(disk'[t]) = Len(disk[t]) \/ Len(disk'[t]) <= op[h].count
    /\ \A x \in Names : x # t => disk'[x] = disk[x]

LEMMA ContinuesStep ==
    ASSUME Inv, Types', NEW h \in Handlers, NEW t \in Names, Clean(t), Continues(h, t)
    PROVE  Clean(t)'
  <1>1. \A d \in Handlers : d \in Creating(t)' <=> d \in Creating(t)
    BY DEF Continues, Creating, Phases
  <1>2. /\ \A d \in Creating(t) : d = h
        /\ topics[t] = 0 /\ Empty(t) /\ Len(asked[t]) > 0
        /\ \A i \in 1 .. Len(asked[t]) : asked[t][i] = op[h].count
    BY DEF Continues, Clean, OneCreation
  <1>3. OneCreation(t)'
    <2> SUFFICES ASSUME NEW d \in Creating(t)'
                 PROVE  /\ \A e \in Creating(t)' : e = d
                        /\ topics'[t] = 0 /\ Empty(t)' /\ Len(asked'[t]) > 0
                        /\ \A i \in 1 .. Len(asked'[t]) : asked'[t][i] = op'[d].count
      BY DEF OneCreation
    <2>1. d = h /\ \A e \in Creating(t)' : e = h
      BY <1>1, <1>2 DEF Creating
    <2> QED BY <1>2, <2>1 DEF Continues
  <1>4. \A i \in 1 .. Len(objects) : objects[i].name # t
    BY <1>2 DEF Clean, OneObject
  <1>5. OneObject(t)'
    BY <1>4 DEF Continues, OneObject
  <1>6. /\ Len(asked[t]) \in Nat /\ Len(disk[t]) \in Nat /\ op[h].count \in Nat
        /\ disk'[t] \in Seq(Dir)
    <2>1. op[h] \in Creation
      BY Phase DEF Inv, Continues, Creating, Phases
    <2>2. disk[t] \in Seq(Dir) /\ disk'[t] \in Seq(Dir) /\ asked[t] \in Seq(Nat)
      BY DEF Inv, Types
    <2> QED BY <2>1, <2>2 DEF Creation
  <1>7. Counted(t)'
    <2>1. Len(disk'[t]) <= op[h].count
      <3>1. Len(disk[t]) <= asked[t][1] /\ asked[t][1] = op[h].count
        BY <1>2, <1>6 DEF Clean, Counted
      <3> QED BY <1>6, <3>1 DEF Continues
    <2>2. \A k \in 1 .. Len(disk'[t]) : disk'[t][k].log = <<>>
      BY <1>2 DEF Continues, Empty
    <2>3. \A k \in 1 .. Len(disk'[t]) : \A j \in 1 .. Len(disk'[t][k].log) :
             disk'[t][k].log[j] = j - 1
      BY <2>2
    <2>4. asked' = asked
      BY DEF Continues
    <2> QED BY <1>2, <1>6, <2>1, <2>3, <2>4 DEF Counted
  <1>8. Assigned(t)'
    <2> SUFFICES ASSUME NEW d \in Handlers, op'[d] \in Creation, op'[d].at = "assign",
                        op'[d].name = t
                 PROVE  FALSE
      BY DEF Assigned
    <2>1. d # h /\ op'[d] = op[d]
      BY DEF Continues, Phases
    <2>2. topics[t] # 0
      BY <2>1 DEF Inv, Creations, Creator
    <2> QED BY <1>2, <2>2
  <1>9. told'[t] = {}
    <2>1. SUFFICES ASSUME NEW n \in told[t] PROVE FALSE
      BY DEF Continues, Types
    <2>2. n \in Nat /\ ~(n > 0)
      BY DEF Continues, Clean, Told, Inv, Types
    <2>3. asked[t][1] = 0
      BY <1>2, <1>6, <2>2 DEF Clean, Told
    <2>4. op[h].count = 0 /\ op[h].next \in Nat
      <3>1. op[h] \in Creation
        BY Phase DEF Inv, Continues, Creating, Phases
      <3> QED BY <1>2, <1>6, <2>3, <3>1 DEF Creation
    <2> QED BY <2>4 DEF Continues
  <1>10. Told(t)'
    BY <1>9 DEF Told
  <1>11. Advertised(t)'
    BY <1>2 DEF Clean, Advertised, Served, Continues
  <1> QED BY <1>3, <1>5, <1>7, <1>8, <1>10, <1>11 DEF Clean

\* It concerns no other topic.
LEMMA ContinuesApart ==
    ASSUME Inv, NEW h \in Handlers, NEW t \in Names, Continues(h, t), NEW x \in Names, x # t
    PROVE  Apart(x)
  BY DEF Continues, Apart, Frame

LEMMA InitInv == Init => Inv
  <1> SUFFICES ASSUME Init PROVE Inv
    OBVIOUS
  <1> USE TopicsAssumption DEF Init
  <1>1. Types
    BY DEF Types
  <1>2. \A h \in Handlers : op[h].at = "idle"
    BY DEF Idle
  <1>3. Objects /\ Mapped /\ Broken
    BY DEF Objects, Mapped, Broken
  <1>4. Creations /\ Appends
    BY <1>2 DEF Creations, Appends, Creation, Appending
  <1>5. RoutedByNumber /\ OffsetsUnique
    BY DEF RoutedByNumber, OffsetsUnique
  <1>6. ASSUME NEW t \in Names PROVE Clean(t)
    <2>1. OneCreation(t) /\ Assigned(t)
      BY <1>2 DEF OneCreation, Creating, Assigned
    <2> QED BY <2>1 DEF Clean, OneObject, Counted, Told, Advertised
  <1> QED BY <1>1, <1>3, <1>4, <1>5, <1>6 DEF Inv

LEMMA CreateTopicStep ==
    ASSUME Inv, NEW h \in Handlers, NEW t \in Names, NEW n \in Counts, CreateTopic(h, t, n)
    PROVE  Inv'
  <1> DEFINE w == [at |-> "new", name |-> t, count |-> n, next |-> 0]
  <1>1. /\ up /\ op[h] = Idle /\ topics[t] = 0 /\ op' = [op EXCEPT ![h] = w]
        /\ asked' = [asked EXCEPT ![t] = Append(@, n)]
        /\ clash' = IF Clashes(t, n) THEN clash \cup {t} ELSE clash
        /\ UNCHANGED <<disk, up, objects, topics, states, acked, told, crashes>>
    BY DEF CreateTopic
  <1>2. n \in Nat /\ Types
    BY TopicsAssumption DEF Inv
  <1>3. w \in Creation /\ w.at = "new" /\ w.name = t /\ w.count = n /\ w.next = 0
    BY <1>2 DEF Creation
  <1> HIDE DEF w
  <1>4. /\ op' \in [Handlers -> Work] /\ op'[h] = w
        /\ \A d \in Handlers : d # h => op'[d] = op[d]
    BY <1>1, <1>2, <1>3, Moves DEF Work
  <1>5. asked[t] \in Seq(Nat) /\ asked'[t] = Append(asked[t], n)
        /\ \A x \in Names : x # t => asked'[x] = asked[x]
    BY <1>1, <1>2 DEF Types
  <1>6. Types'
    <2>1. asked' \in [Names -> Seq(Nat)]
      BY <1>1, <1>2, <1>5 DEF Types
    <2>2. clash' \subseteq Names
      BY <1>1, <1>2 DEF Types
    <2> QED BY <1>1, <1>2, <1>4, <2>1, <2>2 DEF Types, Work
  <1>7. Broken'
    BY <1>1 DEF Inv, Broken
  <1>8. Plain
    <2>1. Grows
      BY <1>1, <1>2, GrowsWhenSame DEF Types
    <2>2. Creator(w)'
      BY <1>1, <1>2, <1>3 DEF Creator, Types
    <2> QED BY <1>1, <1>3, <1>4, <2>1, <2>2 DEF Plain
  <1>9. ASSUME NEW x \in Names, x # t, x \notin clash' PROVE Clean(x)'
    <2>1. Apart(x)
      BY <1>1, <1>3, <1>4, <1>5, <1>9 DEF Apart, Frame
    <2>2. Clean(x)
      BY <1>1, <1>9 DEF Inv
    <2> QED BY <1>6, <2>1, <2>2, ApartStep
  <1>10. ASSUME t \notin clash' PROVE Clean(t)'
    <2>1. Clean(t) /\ ~Clashes(t, n)
      BY <1>1, <1>10 DEF Inv
    <2>2. /\ Creating(t) = {} /\ (\A i \in DOMAIN asked[t] : asked[t][i] = n)
          /\ \A i \in DOMAIN disk[t] : disk[t][i].log = <<>>
      BY <2>1 DEF Clashes
    <2>3. disk[t] \in Seq(Dir) /\ Len(disk[t]) \in Nat /\ DOMAIN disk[t] = 1 .. Len(disk[t])
      BY <1>2 DEF Types
    <2>4. /\ Len(asked[t]) \in Nat /\ Len(asked'[t]) = Len(asked[t]) + 1
          /\ \A i \in 1 .. Len(asked'[t]) : asked'[t][i] = n
          /\ \A i \in 1 .. Len(asked[t]) : asked[t][i] = n
      BY <1>2, <1>5, <2>2
    <2>5. Empty(t) /\ Empty(t)'
      BY <1>1, <2>2, <2>3 DEF Empty
    <2>6. \A d \in Creating(t)' : d = h
      BY <1>4, <2>2 DEF Creating
    <2>7. OneCreation(t)'
      BY <1>1, <1>3, <1>4, <2>4, <2>5, <2>6 DEF OneCreation
    <2>8. OneObject(t)'
      BY <1>1, <2>1 DEF Clean, OneObject
    <2>9. Counted(t)'
      <3>1. Len(disk[t]) <= n
        <4>1. CASE Len(asked[t]) = 0
          BY <1>2, <2>1, <2>3, <4>1 DEF Clean, Counted
        <4>2. CASE Len(asked[t]) # 0
          BY <2>1, <2>4, <4>2 DEF Clean, Counted
        <4> QED BY <4>1, <4>2
      <3> QED BY <1>1, <2>1, <2>4, <3>1 DEF Clean, Counted
    <2>10. Assigned(t)'
      BY <1>1, <1>3, <1>4, <2>1 DEF Clean, Assigned
    <2>11. Told(t)'
      <3> SUFFICES ASSUME NEW m \in told[t]
                   PROVE  m = 0 /\ Len(disk[t]) = 0 /\ Whole(t) /\ n = 0
        BY <1>1, <2>4 DEF Told, Whole
      <3>1. m \in Nat /\ m = Len(disk[t]) /\ Whole(t) /\ Len(asked[t]) > 0
        BY <1>2, <2>1 DEF Clean, Told, Types
      <3>2. ~(m > 0)
        BY <1>1, <2>1, <2>5 DEF Clean, Told, Empty, Inv, Broken
      <3>3. asked[t][1] = 0
        BY <2>1, <2>4, <3>1, <3>2 DEF Clean, Told
      <3> QED BY <2>4, <3>1, <3>2, <3>3
    <2>12. Advertised(t)'
      BY <1>1, <2>1 DEF Clean, Advertised, Served, NumPartitions
    <2> QED BY <2>7, <2>8, <2>9, <2>10, <2>11, <2>12 DEF Clean
  <1> QED BY <1>6, <1>7, <1>8, <1>9, <1>10, PlainStep DEF Inv

\* The steps that make files change directories of one topic.
LEMMA FilesStep ==
    ASSUME Inv, Types', NEW h \in Handlers, NEW t \in Names, Continues(h, t), Grows, Broken',
           Creator(op[h])'
    PROVE  Inv'
  <1>1. up
    BY Phase, Busy DEF Inv, Continues, Creating, Phases
  <1>2. Plain
    BY <1>1 DEF Plain, Continues
  <1>3. ASSUME NEW x \in Names \ clash' PROVE Clean(x)'
    <2>1. Clean(x)
      BY DEF Inv, Continues
    <2>2. CASE x = t
      BY <2>1, <2>2, ContinuesStep
    <2>3. CASE x # t
      BY <2>1, <2>3, ContinuesApart, ApartStep
    <2> QED BY <2>2, <2>3
  <1> QED BY <1>2, <1>3, PlainStep DEF Inv

LEMMA MakeDirStep ==
    ASSUME Inv, NEW h \in Handlers, MakeDir(h)
    PROVE  Inv'
  <1>0. Types
    BY DEF Inv
  <1>1. PICK o \in Creation : o = op[h]
    BY <1>0, Phase DEF MakeDir, Phases
  <1>2. PICK t \in Names : t = o.name
    BY DEF Creation
  <1>3. /\ o.at = "new" /\ o.next < o.count
        /\ disk' = IF o.next < Len(disk[t]) THEN disk ELSE [disk EXCEPT ![t] = Append(@, NewDir)]
        /\ op' = [op EXCEPT ![h].at = "log"]
        /\ UNCHANGED <<up, objects, topics, states, acked, told, asked, clash, crashes>>
    BY <1>1, <1>2 DEF MakeDir
  <1>4. PICK w : w = [o EXCEPT !.at = "log"]
    OBVIOUS
  <1>5. /\ w \in Creation /\ w.at = "log" /\ w.name = t /\ w.count = o.count /\ w.next = o.next
        /\ o.next \in Nat /\ o.count \in Nat
    BY <1>2, <1>4 DEF Creation
  <1>6. op' = [op EXCEPT ![h] = w]
    BY <1>0, <1>1, <1>3, <1>4 DEF Types
  <1>7. /\ op' \in [Handlers -> Work] /\ op'[h] = w
        /\ \A d \in Handlers : d # h => op'[d] = op[d]
    BY <1>0, <1>5, <1>6, Moves DEF Work
  <1>8. disk[t] \in Seq(Dir) /\ Len(disk[t]) \in Nat
    BY <1>0 DEF Types
  <1>9. Creator(o)
    BY <1>1 DEF Inv, Creations
  <1>10. o.next <= Len(disk[t]) /\ \A k \in 1 .. o.next : disk[t][k].made = "whole"
    BY <1>2, <1>3, <1>9 DEF Creator
  <1>11. NewDir \in Dir /\ NewDir.log = <<>> /\ ~NewDir.broken
    BY DEF NewDir, Dir, Made
  <1>12. CASE o.next < Len(disk[t])
    <2>1. disk' = disk
      BY <1>3, <1>12
    <2>2. Types'
      BY <1>0, <1>3, <1>7, <2>1 DEF Types, Work
    <2>3. Grows /\ Broken'
      BY <1>0, <2>1, GrowsWhenSame DEF Types, Inv, Broken
    <2>4. Creator(w)'
      BY <1>2, <1>3, <1>5, <1>10, <1>12, <2>1 DEF Creator
    <2>5. Continues(h, t)
      <3>1. Empty(t) => Empty(t)'
        BY <2>1 DEF Empty
      <3> QED BY <1>1, <1>2, <1>3, <1>5, <1>7, <2>1, <3>1 DEF Continues, Creating, Phases
    <2> QED BY <1>7, <2>2, <2>3, <2>4, <2>5, FilesStep
  <1>13. CASE ~(o.next < Len(disk[t]))
    <2>1. /\ disk' = [disk EXCEPT ![t] = Append(disk[t], NewDir)] /\ Len(disk[t]) = o.next
      BY <1>3, <1>5, <1>8, <1>10, <1>13
    <2>2. /\ disk' \in [Names -> Seq(Dir)] /\ disk'[t] = Append(disk[t], NewDir)
          /\ \A x \in Names : x # t => disk'[x] = disk[x]
      BY <1>0, <1>8, <1>11, <2>1 DEF Types
    <2>3. /\ Len(disk'[t]) = o.next + 1 /\ disk'[t][o.next + 1] = NewDir
          /\ \A k \in 1 .. Len(disk[t]) : disk'[t][k] = disk[t][k]
      BY <1>5, <1>8, <2>1, <2>2
    <2>4. Types'
      BY <1>0, <1>3, <1>7, <2>2 DEF Types, Work
    <2>5. Grows
      <3>1. \A x \in Names : Len(disk[x]) \in Nat /\ \A k \in 1 .. Len(disk[x]) : disk[x][k] \in Dir
        BY <1>0 DEF Types
      <3>2. \A x \in Names : \A k \in 1 .. Len(disk[x]) : Len(disk[x][k].log) \in Nat
        BY <3>1 DEF Dir
      <3>3. \A x \in Names : \A k \in 1 .. Len(disk[x]) : disk'[x][k] = disk[x][k]
        BY <2>2, <2>3
      <3>4. \A x \in Names : Len(disk[x]) <= Len(disk'[x])
        BY <1>5, <2>1, <2>2, <2>3, <3>1
      <3> QED BY <3>2, <3>3, <3>4 DEF Grows
    <2>6. \A k \in 1 .. Len(disk'[t]) : disk'[t][k] = NewDir \/ (k \in 1 .. Len(disk[t]) /\ disk'[t][k] = disk[t][k])
      BY <1>5, <2>1, <2>3
    <2>7. Broken'
      BY <1>11, <2>2, <2>6 DEF Inv, Broken
    <2>8. Creator(w)'
      <3>1. \A k \in 1 .. o.next : disk'[t][k].made = "whole"
        BY <1>10, <2>1, <2>3
      <3> QED BY <1>2, <1>3, <1>5, <2>3, <3>1 DEF Creator
    <2>9. Continues(h, t)
      <3>1. Empty(t) => Empty(t)'
        BY <1>11, <2>6 DEF Empty
      <3>2. Len(disk'[t]) <= o.count
        BY <1>3, <1>5, <2>3
      <3> QED BY <1>1, <1>2, <1>3, <1>5, <1>7, <2>2, <3>1, <3>2 DEF Continues, Creating, Phases
    <2> QED BY <1>7, <2>4, <2>5, <2>7, <2>8, <2>9, FilesStep
  <1> QED BY <1>12, <1>13

\* A file of the directory that is being made appears.
Makes(h, t, o, v, w) ==
    /\ t \in Names /\ o \in Creation /\ o = op[h] /\ o.name = t /\ o.at \in {"log", "index"}
    /\ v \in Made
    /\ disk[t][o.next + 1].made = "whole" => v = "whole"
    /\ disk' = [disk EXCEPT ![t] = [disk[t] EXCEPT ![o.next + 1] =
                                      [disk[t][o.next + 1] EXCEPT !.made = v]]]
    /\ w \in Creation /\ w.name = t /\ w.count = o.count /\ op' = [op EXCEPT ![h] = w]
    /\ \/ w.at = "index" /\ w.next = o.next
       \/ w.at = "new" /\ w.next = o.next + 1 /\ v = "whole"
    /\ UNCHANGED <<up, objects, topics, states, acked, told, asked, clash, crashes>>

LEMMA MadeStep ==
    ASSUME Inv, NEW h \in Handlers, NEW t, NEW o, NEW v, NEW w, Makes(h, t, o, v, w)
    PROVE  Inv'
  <1>1. Types /\ disk \in [Names -> Seq(Dir)]
    BY DEF Inv, Types
  <1>m. /\ t \in Names /\ o \in Creation /\ o = op[h] /\ o.name = t /\ o.at \in {"log", "index"}
        /\ w \in Creation /\ w.at \in Phases /\ w.name = t /\ w.count = o.count
        /\ op' = [op EXCEPT ![h] = w]
        /\ UNCHANGED <<up, objects, topics, states, acked, told, asked, clash, crashes>>
    BY DEF Makes, Phases
  <1>2. /\ op' \in [Handlers -> Work] /\ op'[h] = w
        /\ \A d \in Handlers : d # h => op'[d] = op[d]
    BY <1>1, <1>m, Moves DEF Work
  <1>3. /\ o.next \in Nat /\ o.count \in Nat /\ Len(disk[t]) \in Nat
        /\ o.next < o.count /\ o.next < Len(disk[t])
        /\ \A k \in 1 .. o.next : disk[t][k].made = "whole"
    <2>1. Creator(o)
      BY <1>m DEF Inv, Creations
    <2> QED BY <1>1, <1>m, <2>1 DEF Creator, Creation
  <1>4. PICK k \in 1 .. Len(disk[t]) : k = o.next + 1
    BY <1>3
  <1>5. PICK d : d = [disk[t][k] EXCEPT !.made = v]
    OBVIOUS
  <1>6. /\ d \in Dir /\ d.made = v /\ d.log = disk[t][k].log /\ d.broken = disk[t][k].broken
        /\ Len(disk[t][k].log) \in Nat
    <2>1. disk[t][k] \in Dir /\ v \in Made
      BY <1>1, <1>m DEF Makes
    <2> QED BY <1>5, <2>1 DEF Dir
  <1>7. Replaces(t, k, d)
    BY <1>1, <1>4, <1>5, <1>6, <1>m DEF Replaces, Makes
  <1>8. /\ disk' \in [Names -> Seq(Dir)]
        /\ \A x \in Names : x # t => disk'[x] = disk[x]
        /\ Len(disk'[t]) = Len(disk[t]) /\ disk'[t][k] = d
        /\ \A j \in 1 .. Len(disk[t]) : j # k => disk'[t][j] = disk[t][j]
    BY ONLY <1>7, DirStep
  <1>9. Grows
    <2>1. /\ disk[t][k].made = "whole" => d.made = "whole"
          /\ Len(disk[t][k].log) <= Len(d.log)
          /\ \A j \in 1 .. Len(disk[t][k].log) : d.log[j] = disk[t][k].log[j]
      BY <1>4, <1>6 DEF Makes
    <2> QED BY ONLY <1>7, <2>1, DirGrows
  <1>10. Types'
    BY <1>1, <1>2, <1>8, <1>m DEF Types, Work
  <1>11. \A j \in 1 .. Len(disk[t]) : /\ disk'[t][j].log = disk[t][j].log
                                      /\ disk'[t][j].broken = disk[t][j].broken
    BY <1>6, <1>8
  <1>12. Broken'
    <2>1. \A x \in Names : Len(disk'[x]) = Len(disk[x]) /\ \A j \in 1 .. Len(disk[x]) :
             disk'[x][j].log = disk[x][j].log /\ disk'[x][j].broken = disk[x][j].broken
      BY <1>8, <1>11
    <2> QED BY <2>1 DEF Inv, Broken
  <1>13. \A j \in 1 .. o.next : disk'[t][j].made = "whole"
    BY <1>3, <1>4, <1>8
  <1>14. Creator(w)'
    <2>1. CASE w.at = "index" /\ w.next = o.next
      BY <1>3, <1>8, <1>13, <1>m, <2>1 DEF Creator
    <2>2. CASE w.at = "new" /\ w.next = o.next + 1 /\ v = "whole"
      <3>1. \A j \in 1 .. w.next : disk'[t][j].made = "whole"
        BY <1>3, <1>4, <1>6, <1>8, <1>13, <2>2
      <3> QED BY <1>3, <1>8, <1>m, <2>2, <3>1 DEF Creator
    <2> QED BY <2>1, <2>2 DEF Makes
  <1>15. Continues(h, t)
    <2>1. Empty(t) => Empty(t)'
      BY <1>8, <1>11 DEF Empty
    <2> QED BY <1>2, <1>3, <1>8, <1>m, <2>1 DEF Continues, Creating, Phases
  <1> QED BY <1>2, <1>9, <1>10, <1>12, <1>14, <1>15, <1>m, FilesStep

LEMMA MakeLogStep ==
    ASSUME Inv, NEW h \in Handlers, MakeLog(h)
    PROVE  Inv'
  <1>0. Types /\ disk \in [Names -> Seq(Dir)]
    BY DEF Inv, Types
  <1>1. PICK o \in Creation : o = op[h]
    BY <1>0, Phase DEF MakeLog, Phases
  <1>2. PICK t \in Names : t = o.name
    BY DEF Creation
  <1>3. /\ o.at = "log"
        /\ disk' = [disk EXCEPT ![t][o.next + 1].made = IF @ = "dir" THEN "log" ELSE @]
        /\ op' = [op EXCEPT ![h].at = "index"]
        /\ UNCHANGED <<up, objects, topics, states, acked, told, asked, clash, crashes>>
    BY <1>1, <1>2 DEF MakeLog
  <1>4. PICK w : w = [o EXCEPT !.at = "index"]
    OBVIOUS
  <1>5. w \in Creation /\ w.at = "index" /\ w.name = t /\ w.count = o.count /\ w.next = o.next
    BY <1>2, <1>4 DEF Creation
  <1>6. op' = [op EXCEPT ![h] = w]
    BY <1>0, <1>1, <1>3, <1>4 DEF Types
  <1>7. PICK v : v = IF disk[t][o.next + 1].made = "dir" THEN "log" ELSE disk[t][o.next + 1].made
    OBVIOUS
  <1>8. disk' = [disk EXCEPT ![t] = [disk[t] EXCEPT ![o.next + 1] =
                                       [disk[t][o.next + 1] EXCEPT !.made = v]]]
    BY <1>0, <1>3, <1>7
  <1>9. v \in Made /\ (disk[t][o.next + 1].made = "whole" => v = "whole")
    <2>1. o.next \in Nat /\ o.next < Len(disk[t])
      BY <1>1, <1>2, <1>3 DEF Inv, Creations, Creator, Creation
    <2>2. disk[t][o.next + 1] \in Dir
      BY <1>0, <2>1
    <2> QED BY <1>7, <2>2 DEF Dir, Made
  <1>10. Makes(h, t, o, v, w)
    BY <1>1, <1>2, <1>3, <1>5, <1>6, <1>8, <1>9 DEF Makes
  <1> QED BY <1>10, MadeStep

LEMMA MakeIndexStep ==
    ASSUME Inv, NEW h \in Handlers, MakeIndex(h)
    PROVE  Inv'
  <1>0. Types /\ disk \in [Names -> Seq(Dir)]
    BY DEF Inv, Types
  <1>1. PICK o \in Creation : o = op[h]
    BY <1>0, Phase DEF MakeIndex, Phases
  <1>2. PICK t \in Names : t = o.name
    BY DEF Creation
  <1>3. /\ o.at = "index"
        /\ disk' = [disk EXCEPT ![t][o.next + 1].made = "whole"]
        /\ op' = [op EXCEPT ![h].at = "new", ![h].next = @ + 1]
        /\ UNCHANGED <<up, objects, topics, states, acked, told, asked, clash, crashes>>
    BY <1>1, <1>2 DEF MakeIndex
  <1>4. PICK w : w = [o EXCEPT !.at = "new", !.next = o.next + 1]
    OBVIOUS
  <1>5. w \in Creation /\ w.at = "new" /\ w.name = t /\ w.count = o.count /\ w.next = o.next + 1
    <2>1. o.next \in Nat /\ o.next + 1 \in Nat
      BY DEF Creation
    <2>2. PICK n \in Nat : n = o.next + 1
      BY <2>1
    <2>3. w = [o EXCEPT !.at = "new", !.next = n]
      BY <1>4, <2>2
    <2>4. w \in Creation /\ w.at = "new" /\ w.name = t /\ w.count = o.count /\ w.next = n
      BY <1>2, <2>3 DEF Creation
    <2> QED BY <2>2, <2>4
  <1>6. op' = [op EXCEPT ![h] = w]
    BY <1>0, <1>1, <1>3, <1>4 DEF Types
  <1>7. disk' = [disk EXCEPT ![t] = [disk[t] EXCEPT ![o.next + 1] =
                                       [disk[t][o.next + 1] EXCEPT !.made = "whole"]]]
    BY <1>0, <1>3
  <1>8. "whole" \in Made
    BY DEF Made
  <1>9. Makes(h, t, o, "whole", w)
    BY <1>1, <1>2, <1>3, <1>5, <1>6, <1>7, <1>8 DEF Makes
  <1> QED BY <1>9, MadeStep

\* A step after which h is idle or appends, and that changes nothing else.
LEMMA LeavesStep ==
    ASSUME Inv, NEW h \in Handlers, NEW w \in {Idle} \cup Appending, op' = [op EXCEPT ![h] = w], up,
           w \in Appending => /\ w.object \in 1 .. Len(objects)
                              /\ w.partition < Len(objects[w.object].ids),
           UNCHANGED <<disk, up, objects, topics, states, acked, told, asked, clash, crashes>>
    PROVE  Inv'
  <1>1. Types
    BY DEF Inv
  <1>2. /\ op' \in [Handlers -> Work] /\ op'[h] = w
        /\ \A d \in Handlers : d # h => op'[d] = op[d]
    BY <1>1, Moves DEF Work
  <1>3. Types'
    BY <1>1, <1>2 DEF Types, Work
  <1>4. Broken'
    BY DEF Inv, Broken
  <1>5. Plain
    <2>1. Grows
      BY <1>1, GrowsWhenSame DEF Types
    <2> QED BY <1>2, <2>1 DEF Plain
  <1>6. w \notin Creation
    BY DEF Creation, Idle, Appending
  <1>7. ASSUME NEW x \in Names \ clash' PROVE Clean(x)'
    <2>1. Apart(x)
      BY <1>1, <1>2, <1>6 DEF Apart, Frame
    <2> QED BY <1>3, <2>1, ApartStep DEF Inv
  <1> QED BY <1>3, <1>4, <1>5, <1>7, PlainStep DEF Inv

LEMMA CreateFailsStep ==
    ASSUME Inv, NEW h \in Handlers, CreateFails(h)
    PROVE  Inv'
  <1>1. op[h] # Idle
    BY DEF CreateFails, Idle
  <1>2. up
    BY <1>1, Busy
  <1>3. Idle \notin Appending
    BY DEF Idle, Appending
  <1> QED BY <1>2, <1>3, LeavesStep DEF CreateFails

LEMMA ProduceStep ==
    ASSUME Inv, NEW h \in Handlers, NEW t \in Names, Served(t),
           NEW p \in 0 .. NumPartitions(t) - 1, Produce(h, t, p)
    PROVE  Inv'
  <1> DEFINE w == [at |-> "append", object |-> topics[t], partition |-> p]
  <1>1. /\ up /\ topics[t] # 0 /\ op' = [op EXCEPT ![h] = w] /\ p < Len(objects[topics[t]].ids)
        /\ UNCHANGED <<disk, up, objects, topics, states, acked, told, asked, clash, crashes>>
    BY DEF Produce, Served, NumPartitions
  <1>2. topics[t] \in 1 .. Len(objects) /\ topics[t] \in Nat
    BY <1>1 DEF Inv, Mapped, Types
  <1>3. w \in Appending /\ w.object = topics[t] /\ w.partition = p
    BY <1>2 DEF Appending
  <1> HIDE DEF w
  <1> QED BY <1>1, <1>2, <1>3, LeavesStep

LEMMA InsertStep ==
    ASSUME Inv, NEW h \in Handlers, Insert(h)
    PROVE  Inv'
  <1>0. Types /\ disk \in [Names -> Seq(Dir)] /\ objects \in Seq(Object)
    BY DEF Inv, Types
  <1>1. PICK o \in Creation : o = op[h]
    BY <1>0, Phase DEF Insert, Phases
  <1>2. PICK t \in Names, c \in Nat : t = o.name /\ c = o.count
    BY DEF Creation
  <1>3. PICK obj : obj = [name |-> t, ids |-> [i \in 1 .. c |-> i - 1], next |-> [i \in 1 .. c |-> 0]]
    OBVIOUS
  <1>4. /\ o.at = "new" /\ o.next = c /\ objects' = Append(objects, obj)
        /\ topics' = [topics EXCEPT ![t] = Len(objects')]
        /\ op' = [op EXCEPT ![h].at = "assign", ![h].next = 0]
        /\ UNCHANGED <<disk, up, states, acked, told, asked, clash, crashes>>
    BY <1>1, <1>2, <1>3 DEF Insert
  <1>5. /\ obj \in Object /\ obj.name = t /\ Len(obj.ids) = c /\ Len(obj.next) = c
        /\ \A k \in 1 .. c : obj.ids[k] = k - 1 /\ obj.next[k] = 0
    <2>1. PICK ids : ids = [i \in 1 .. c |-> i - 1]
      OBVIOUS
    <2>2. PICK next : next = [i \in 1 .. c |-> 0]
      OBVIOUS
    <2>3. ids \in Seq(Nat) /\ Len(ids) = c /\ \A k \in 1 .. c : ids[k] = k - 1
      BY <2>1
    <2>4. next \in Seq(Nat) /\ Len(next) = c /\ \A k \in 1 .. c : next[k] = 0
      BY <2>2
    <2>5. obj = [name |-> t, ids |-> ids, next |-> next]
      BY <1>3, <2>1, <2>2
    <2> QED BY <2>3, <2>4, <2>5 DEF Object
  <1>6. /\ objects' \in Seq(Object) /\ Len(objects) \in Nat /\ Len(objects') = Len(objects) + 1
        /\ objects'[Len(objects) + 1] = obj
        /\ \A i \in 1 .. Len(objects) : objects'[i] = objects[i]
    BY <1>0, <1>4, <1>5
  <1>7. PICK w : w = [o EXCEPT !.at = "assign", !.next = 0]
    OBVIOUS
  <1>8. w \in Creation /\ w.at = "assign" /\ w.name = t /\ w.count = c /\ w.next = 0
    BY <1>2, <1>7 DEF Creation
  <1>9. op' = [op EXCEPT ![h] = w]
    BY <1>0, <1>1, <1>4, <1>7 DEF Types
  <1>10. /\ op' \in [Handlers -> Work] /\ op'[h] = w
         /\ \A d \in Handlers : d # h => op'[d] = op[d]
    BY <1>0, <1>8, <1>9, Moves DEF Work
  <1>11. /\ topics' \in [Names -> Nat] /\ topics'[t] = Len(objects) + 1
         /\ \A x \in Names : x # t => topics'[x] = topics[x]
    BY <1>0, <1>4, <1>6 DEF Types
  <1>12. Types'
    BY <1>0, <1>4, <1>6, <1>10, <1>11 DEF Types, Work
  <1>13. Creator(o) /\ up
    <2>1. op[h] # Idle
      BY <1>1, <1>4 DEF Idle
    <2> QED BY <1>1, <2>1, Busy DEF Inv, Creations
  <1>14. c <= Len(disk[t]) /\ \A k \in 1 .. c : disk[t][k].made = "whole"
    BY <1>2, <1>4, <1>13 DEF Creator
  <1>15. Objects'
    <2>1. WellFormed(obj)'
      BY <1>4, <1>5, <1>14 DEF WellFormed
    <2>2. \A i \in 1 .. Len(objects) : WellFormed(objects[i])'
      BY <1>4, <1>6 DEF Inv, Objects, WellFormed
    <2> QED BY <1>6, <2>1, <2>2 DEF Objects
  <1>16. Mapped'
    BY <1>4, <1>5, <1>6, <1>11, <1>13 DEF Inv, Mapped
  <1>17. Creations'
    <2>1. Creator(w)'
      BY <1>2, <1>6, <1>8, <1>11 DEF Creator
    <2>2. ASSUME NEW d \in Handlers, d # h, op'[d] \in Creation PROVE Creator(op[d])'
      <3>1. PICK e \in Creation : e = op[d] /\ e = op'[d]
        BY <1>10, <2>2
      <3>2. Creator(e) /\ e.name \in Names
        BY <3>1 DEF Inv, Creations, Creation
      <3>3. topics[e.name] # 0 => topics'[e.name] # 0
        BY <1>6, <1>11, <3>2
      <3>4. Creator(e)'
        BY <1>4, <3>2, <3>3 DEF Creator
      <3> QED BY <3>1, <3>4
    <2> QED BY <1>10, <2>1, <2>2 DEF Creations
  <1>18. Appends'
    <2>1. w \notin Appending
      BY <1>8 DEF Appending
    <2>2. ASSUME NEW d \in Handlers, d # h, op'[d] \in Appending
          PROVE  /\ op'[d].object \in 1 .. Len(objects')
                 /\ op'[d].partition < Len(objects'[op'[d].object].ids)
      <3>1. /\ op'[d] = op[d] /\ op[d].object \in 1 .. Len(objects)
            /\ op[d].partition < Len(objects[op[d].object].ids)
        BY <1>10, <2>2 DEF Inv, Appends
      <3> QED BY <1>6, <3>1
    <2> QED BY <1>10, <2>1, <2>2 DEF Appends
  <1>19. Broken' /\ RoutedByNumber' /\ OffsetsUnique'
    BY <1>4 DEF Inv, Broken, RoutedByNumber, OffsetsUnique
  <1>20. ASSUME NEW x \in Names \ clash', x # t PROVE Clean(x)'
    <2>1. Apart(x)
      <3>1. \A i \in 1 .. Len(objects') : objects'[i].name = x =>
               i \in 1 .. Len(objects) /\ objects'[i] = objects[i]
        BY <1>5, <1>6, <1>20
      <3>2. topics[x] # 0 => objects'[topics[x]] = objects[topics[x]]
        BY <1>6 DEF Inv, Mapped
      <3> QED BY <1>4, <1>8, <1>10, <1>11, <1>20, <3>1, <3>2 DEF Apart, Frame
    <2> QED BY <1>4, <1>12, <2>1, ApartStep DEF Inv
  <1>21. ASSUME t \notin clash' PROVE Clean(t)'
    <2>1. Clean(t)
      BY <1>4, <1>21 DEF Inv
    <2>2. h \in Creating(t)
      BY <1>1, <1>2, <1>4 DEF Creating
    <2>3. /\ \A d \in Creating(t) : d = h
          /\ topics[t] = 0 /\ Empty(t) /\ Len(asked[t]) > 0
          /\ \A i \in 1 .. Len(asked[t]) : asked[t][i] = c
      BY <1>1, <1>2, <2>1, <2>2 DEF Clean, OneCreation
    <2>4. \A d \in Handlers : d \notin Creating(t)'
      BY <1>8, <1>10, <2>3 DEF Creating
    <2>5. OneCreation(t)'
      BY <2>4 DEF OneCreation, Creating
    <2>6. Len(disk[t]) \in Nat /\ Len(asked[t]) \in Nat
      BY <1>0 DEF Types
    <2>7. Len(disk[t]) = c
      BY <1>14, <2>1, <2>3, <2>6 DEF Clean, Counted
    <2>8. Whole(t) /\ Whole(t)'
      BY <1>4, <1>14, <2>7 DEF Whole
    <2>9. \A i \in 1 .. Len(objects) : objects[i].name # t
      BY <2>1, <2>3 DEF Clean, OneObject
    <2>10. OneObject(t)'
      <3> SUFFICES ASSUME NEW i \in 1 .. Len(objects'), objects'[i].name = t
                   PROVE  /\ i = topics'[t] /\ Len(asked[t]) > 0
                          /\ Len(objects'[i].ids) = Len(disk[t]) /\ Whole(t)
                          /\ \A k \in 1 .. Len(objects'[i].ids) :
                                objects'[i].next[k] = Len(disk[t][k].log)
                          /\ Len(objects'[i].ids) = 0 =>
                                \A j \in 1 .. Len(asked[t]) : asked[t][j] = 0
        BY <1>4, <2>8 DEF OneObject
      <3>1. i = Len(objects) + 1 /\ objects'[i] = obj
        BY <1>6, <2>9
      <3>2. \A k \in 1 .. c : obj.next[k] = Len(disk[t][k].log)
        BY <1>5, <2>3, <2>7 DEF Empty
      <3> QED BY <1>5, <1>11, <2>3, <2>7, <2>8, <3>1, <3>2
    <2>11. Counted(t)'
      BY <1>4, <2>1 DEF Clean, Counted
    <2>12. Assigned(t)'
      <3> SUFFICES ASSUME NEW d \in Handlers, op'[d] \in Creation, op'[d].at = "assign",
                          op'[d].name = t
                   PROVE  op'[d].count = Len(objects'[topics'[t]].ids)
        BY DEF Assigned
      <3>1. d = h
        BY <1>10, <2>3 DEF Inv, Creations, Creator
      <3> QED BY <1>5, <1>6, <1>8, <1>10, <1>11, <3>1
    <2>13. Told(t)'
      <3>1. Creating(t)' = {}
        BY <2>4 DEF Creating
      <3>2. topics'[t] # 0
        BY <1>6, <1>11
      <3>3. \A m \in told[t] :
               /\ m = Len(disk[t])
               /\ m = 0 => \A i \in 1 .. Len(asked[t]) : asked[t][i] = 0
        BY <2>1 DEF Clean, Told
      <3>4. disk' = disk /\ asked' = asked /\ told' = told
        BY <1>4
      <3> QED BY <2>3, <2>8, <3>1, <3>2, <3>3, <3>4 DEF Told
    <2>14. Advertised(t)'
      BY <1>4, <2>1, <2>3 DEF Clean, Advertised, Served
    <2> QED BY <2>5, <2>10, <2>11, <2>12, <2>13, <2>14 DEF Clean
  <1> QED BY <1>12, <1>15, <1>16, <1>17, <1>18, <1>19, <1>20, <1>21 DEF Inv

LEMMA AssignReplicasStep ==
    ASSUME Inv, NEW h \in Handlers, AssignReplicas(h)
    PROVE  Inv'
  <1>0. Types
    BY DEF Inv
  <1>1. PICK o \in Creation : o = op[h]
    BY <1>0, Phase DEF AssignReplicas
  <1>2. PICK t \in Names : t = o.name
    BY DEF Creation
  <1>3. /\ o.at = "assign" /\ o.next < o.count /\ states' = states \cup {<<t, o.next>>}
        /\ op' = [op EXCEPT ![h].next = @ + 1]
        /\ UNCHANGED <<disk, up, objects, topics, acked, told, asked, clash, crashes>>
    BY <1>1, <1>2 DEF AssignReplicas
  <1>4. PICK n \in Nat : n = o.next + 1
    BY DEF Creation
  <1>5. PICK w : w = [o EXCEPT !.next = n]
    OBVIOUS
  <1>6. w \in Creation /\ w.at = "assign" /\ w.name = t /\ w.count = o.count /\ w.next = n
    BY <1>2, <1>3, <1>5 DEF Creation
  <1>7. op' = [op EXCEPT ![h] = w]
    BY <1>0, <1>1, <1>3, <1>4, <1>5 DEF Types
  <1>8. /\ op' \in [Handlers -> Work] /\ op'[h] = w
        /\ \A d \in Handlers : d # h => op'[d] = op[d]
    BY <1>0, <1>6, <1>7, Moves DEF Work
  <1>9. o.next \in Nat /\ o.count \in Nat
    BY DEF Creation
  <1>10. Types'
    BY <1>0, <1>3, <1>8, <1>9 DEF Types, Work
  <1>11. up /\ topics[t] # 0
    <2>1. op[h] # Idle
      BY <1>1, <1>3 DEF Idle
    <2> QED BY <1>1, <1>2, <1>3, <2>1, Busy DEF Inv, Creations, Creator
  <1>12. Broken'
    BY <1>3 DEF Inv, Broken
  <1>13. Plain
    <2>1. Grows
      BY <1>0, <1>3, GrowsWhenSame DEF Types
    <2>2. Creator(w)'
      BY <1>3, <1>4, <1>6, <1>9, <1>11 DEF Creator
    <2> QED BY <1>3, <1>6, <1>8, <1>11, <2>1, <2>2 DEF Plain
  <1>14. ASSUME NEW x \in Names \ clash' PROVE Clean(x)'
    <2>1. Clean(x)
      BY <1>3 DEF Inv
    <2>2. Frame(x)
      <3>1. op'[h].name = op[h].name /\ op'[h].at = op[h].at /\ op'[h].count = op[h].count
        BY <1>1, <1>2, <1>3, <1>6, <1>8
      <3>2. \A d \in Handlers : op'[d] \in Creation =>
               /\ op[d] \in Creation /\ op'[d].name = op[d].name
               /\ op'[d].at = op[d].at /\ op'[d].count = op[d].count
        BY <1>1, <1>8, <3>1
      <3> QED BY <1>3, <3>2 DEF Frame
    <2>3. (OneCreation(x) /\ OneObject(x) /\ Counted(x) /\ Assigned(x) /\ Told(x))'
      BY <1>3, <1>10, <2>1, <2>2, FrameStep, ToldKept
    <2>4. CASE x # t
      <3>1. \A s \in states' : s[1] = x => s \in states
        BY <1>3, <2>4
      <3> QED BY <2>1, <2>2, <2>3, <3>1, AdvertisedKept DEF Clean
    <2>5. CASE x = t
      <3>1. o.count = Len(objects[topics[t]].ids)
        BY <1>1, <1>2, <1>3, <2>1, <2>5 DEF Clean, Assigned
      <3>2. Advertised(t)'
        BY <1>3, <1>11, <2>1, <2>5, <3>1 DEF Clean, Advertised, Served, NumPartitions
      <3> QED BY <2>3, <2>5, <3>2 DEF Clean
    <2> QED BY <2>4, <2>5
  <1> QED BY <1>10, <1>12, <1>13, <1>14, PlainStep DEF Inv

\* Clients may be told the number of partitions of the object in the map.
LEMMA TellStep ==
    ASSUME Inv, Types', NEW t \in Names, Clean(t), Frame(t), up, topics[t] # 0,
           told'[t] = told[t] \cup {Len(objects[topics[t]].ids)}
    PROVE  Told(t)'
  <1>1. Creating(t)' \subseteq Creating(t) /\ (Whole(t)' <=> Whole(t))
    BY FrameStep
  <1>2. topics[t] \in 1 .. Len(objects) /\ objects[topics[t]].name = t
    BY DEF Inv, Mapped
  <1>3. PICK n : n = Len(objects[topics[t]].ids)
    OBVIOUS
  <1>4. /\ n = Len(disk[t]) /\ Whole(t) /\ Len(asked[t]) > 0
        /\ n = 0 => \A i \in 1 .. Len(asked[t]) : asked[t][i] = 0
    BY <1>2, <1>3 DEF Clean, OneObject
  <1>5. Creating(t) = {}
    BY DEF Clean, OneCreation
  <1>6. ASSUME NEW m \in told'[t]
        PROVE  /\ m = Len(disk[t]) /\ Whole(t) /\ Len(asked[t]) > 0
               /\ m = 0 => \A i \in 1 .. Len(asked[t]) : asked[t][i] = 0
    BY <1>3, <1>4 DEF Clean, Told
  <1> QED BY <1>1, <1>5, <1>6 DEF Told, Frame

LEMMA AnswerCreateStep ==
    ASSUME Inv, NEW h \in Handlers, AnswerCreate(h)
    PROVE  Inv'
  <1>0. Types
    BY DEF Inv
  <1>1. PICK o \in Creation : o = op[h]
    BY <1>0, Phase DEF AnswerCreate
  <1>2. PICK t \in Names, c \in Nat : t = o.name /\ c = o.count
    BY DEF Creation
  <1>3. /\ o.at = "assign" /\ told' = [told EXCEPT ![t] = @ \cup {c}]
        /\ op' = [op EXCEPT ![h] = Idle]
        /\ UNCHANGED <<disk, up, objects, topics, states, acked, asked, clash, crashes>>
    BY <1>1, <1>2 DEF AnswerCreate
  <1>4. /\ op' \in [Handlers -> Work] /\ op'[h] = Idle
        /\ \A d \in Handlers : d # h => op'[d] = op[d]
    BY <1>0, <1>3, Moves DEF Work
  <1>5. /\ told' \in [Names -> SUBSET Nat] /\ told'[t] = told[t] \cup {c}
        /\ \A x \in Names : x # t => told'[x] = told[x]
    BY <1>0, <1>3 DEF Types
  <1>6. Types'
    BY <1>0, <1>3, <1>4, <1>5 DEF Types, Work
  <1>7. up /\ topics[t] # 0
    <2>1. op[h] # Idle
      BY <1>1, <1>3 DEF Idle
    <2> QED BY <1>1, <1>2, <1>3, <2>1, Busy DEF Inv, Creations, Creator
  <1>8. Broken'
    BY <1>3 DEF Inv, Broken
  <1>9. Plain
    <2>1. Grows
      BY <1>0, <1>3, GrowsWhenSame DEF Types
    <2> QED BY <1>3, <1>4, <1>7, <2>1 DEF Plain
  <1>10. Idle \notin Creation
    BY DEF Idle, Creation
  <1>11. ASSUME NEW x \in Names \ clash' PROVE Clean(x)'
    <2>1. Clean(x)
      BY <1>3 DEF Inv
    <2>2. Frame(x)
      BY <1>3, <1>4, <1>10 DEF Frame
    <2>3. (OneCreation(x) /\ OneObject(x) /\ Counted(x) /\ Assigned(x))'
      BY <1>6, <2>1, <2>2, FrameStep
    <2>4. Advertised(x)'
      BY <1>3, <2>1, <2>2, AdvertisedKept
    <2>5. CASE x # t
      BY <1>5, <1>6, <2>1, <2>2, <2>3, <2>4, <2>5, ToldKept DEF Clean
    <2>6. CASE x = t
      <3>1. c = Len(objects[topics[t]].ids)
        BY <1>1, <1>2, <1>3, <2>1, <2>6 DEF Clean, Assigned
      <3>2. told'[x] = told[x] \cup {Len(objects[topics[x]].ids)} /\ topics[x] # 0
        BY <1>5, <1>7, <2>6, <3>1
      <3>3. Told(x)'
        BY <1>6, <1>7, <2>1, <2>2, <3>2, TellStep
      <3> QED BY <2>3, <2>4, <3>3 DEF Clean
    <2> QED BY <2>5, <2>6
  <1> QED BY <1>6, <1>8, <1>9, <1>11, PlainStep DEF Inv

LEMMA GetPartitionsStep ==
    ASSUME Inv, NEW t \in Names, GetPartitions(t)
    PROVE  Inv'
  <1>0. Types
    BY DEF Inv
  <1>1. /\ up /\ told' = IF topics[t] # 0
                         THEN [told EXCEPT ![t] = @ \cup {Len(objects[topics[t]].ids)}] ELSE told
        /\ UNCHANGED <<disk, up, objects, topics, states, op, acked, asked, clash, crashes>>
    BY DEF GetPartitions, Served, NumPartitions
  <1>2. topics[t] # 0 => Len(objects[topics[t]].ids) \in Nat
    <2>1. topics[t] # 0 => objects[topics[t]] \in Object
      BY <1>0 DEF Inv, Mapped, Types
    <2> QED BY <2>1 DEF Object
  <1>3. /\ told' \in [Names -> SUBSET Nat] /\ \A x \in Names : x # t => told'[x] = told[x]
        /\ topics[t] = 0 => told'[t] = told[t]
        /\ topics[t] # 0 => told'[t] = told[t] \cup {Len(objects[topics[t]].ids)}
    BY <1>0, <1>1, <1>2 DEF Types
  <1>4. Types'
    BY <1>0, <1>1, <1>3 DEF Types
  <1>5. Broken'
    BY <1>1 DEF Inv, Broken
  <1>6. Plain
    BY <1>0, <1>1, GrowsWhenSame DEF Plain, Types
  <1>7. ASSUME NEW x \in Names \ clash' PROVE Clean(x)'
    <2>1. Clean(x)
      BY <1>1 DEF Inv
    <2>2. Frame(x)
      BY <1>1 DEF Frame
    <2>3. (OneCreation(x) /\ OneObject(x) /\ Counted(x) /\ Assigned(x))'
      BY <1>4, <2>1, <2>2, FrameStep
    <2>4. Advertised(x)'
      BY <1>1, <2>1, <2>2, AdvertisedKept
    <2>5. Told(x)'
      BY <1>1, <1>3, <1>4, <2>1, <2>2, ToldKept, TellStep
    <2> QED BY <2>3, <2>4, <2>5 DEF Clean
  <1> QED BY <1>4, <1>5, <1>6, <1>7, PlainStep DEF Inv

-----------------------------------------------------------------------------
(* Records.                                                                *)

\* Append to the k-th log of t, whose object is the j-th.
Appended(t, k, j, n) ==
    /\ Replaces(t, k, [disk[t][k] EXCEPT !.log = Append(disk[t][k].log, n)])
    /\ n \in Nat /\ j \in 1 .. Len(objects) /\ objects[j].name = t
    /\ k \in 1 .. Len(objects[j].ids) /\ objects[j].next[k] = n
    /\ objects' = [objects EXCEPT ![j] = [objects[j] EXCEPT !.next =
                                            [objects[j].next EXCEPT ![k] = n + 1]]]
    /\ acked' = Append(acked, [name |-> t, partition |-> k - 1, offset |-> n])

LEMMA AppendedFacts ==
    ASSUME Inv, NEW t, NEW k, NEW j, NEW n, Appended(t, k, j, n)
    PROVE  /\ t \in Names /\ disk' \in [Names -> Seq(Dir)]
           /\ \A x \in Names : x # t => disk'[x] = disk[x]
           /\ Len(disk'[t]) = Len(disk[t]) /\ k \in 1 .. Len(disk[t])
           /\ \A i \in 1 .. Len(disk[t]) : i # k => disk'[t][i] = disk[t][i]
           /\ disk[t][k].log \in Seq(Nat) /\ disk'[t][k].log = Append(disk[t][k].log, n)
           /\ disk'[t][k].made = disk[t][k].made /\ disk'[t][k].broken = disk[t][k].broken
           /\ Grows
           /\ objects' \in Seq(Object) /\ Len(objects') = Len(objects)
           /\ \A i \in 1 .. Len(objects) : i # j => objects'[i] = objects[i]
           /\ objects'[j].name = t /\ objects'[j].ids = objects[j].ids
           /\ Len(objects'[j].next) = Len(objects[j].next) /\ objects'[j].next[k] = n + 1
           /\ \A i \in 1 .. Len(objects[j].ids) : i # k => objects'[j].next[i] = objects[j].next[i]
  <1>1. PICK d : d = [disk[t][k] EXCEPT !.log = Append(disk[t][k].log, n)]
    OBVIOUS
  <1>2. Replaces(t, k, d)
    BY <1>1 DEF Appended
  <1>3. /\ t \in Names /\ k \in 1 .. Len(disk[t]) /\ d \in Dir /\ disk \in [Names -> Seq(Dir)]
    BY <1>2 DEF Replaces
  <1>4. /\ disk' \in [Names -> Seq(Dir)]
        /\ \A x \in Names : x # t => disk'[x] = disk[x]
        /\ Len(disk'[t]) = Len(disk[t]) /\ disk'[t][k] = d
        /\ \A i \in 1 .. Len(disk[t]) : i # k => disk'[t][i] = disk[t][i]
    BY ONLY <1>2, DirStep
  <1>5. disk[t][k] \in Dir /\ n \in Nat
    BY <1>3 DEF Appended
  <1>6. /\ disk[t][k].log \in Seq(Nat) /\ d.log = Append(disk[t][k].log, n)
        /\ d.made = disk[t][k].made /\ d.broken = disk[t][k].broken
    BY <1>1, <1>5 DEF Dir
  <1>7. Grows
    <2>1. PICK l \in Seq(Nat) : l = disk[t][k].log
      BY <1>6
    <2>2. Len(l) <= Len(d.log) /\ \A i \in 1 .. Len(l) : d.log[i] = l[i]
      BY <1>5, <1>6, <2>1
    <2>3. /\ disk[t][k].made = "whole" => d.made = "whole"
          /\ Len(disk[t][k].log) <= Len(d.log)
          /\ \A i \in 1 .. Len(disk[t][k].log) : d.log[i] = disk[t][k].log[i]
      BY <1>6, <2>1, <2>2
    <2> QED BY ONLY <1>2, <2>3, DirGrows
  <1>8. /\ objects \in Seq(Object) /\ j \in 1 .. Len(objects)
        /\ objects[j] \in Object /\ objects[j].name = t
    BY DEF Appended, Inv, Types
  <1>9. PICK m : m = [objects[j].next EXCEPT ![k] = n + 1]
    OBVIOUS
  <1>10. k \in 1 .. Len(objects[j].ids) /\ Len(objects[j].next) = Len(objects[j].ids)
    BY <1>8 DEF Appended, Inv, Objects, WellFormed
  <1>11. objects[j].next \in Seq(Nat) /\ n + 1 \in Nat
    BY <1>5, <1>8 DEF Object
  <1>12. /\ m \in Seq(Nat) /\ Len(m) = Len(objects[j].next) /\ m[k] = n + 1
         /\ \A i \in 1 .. Len(objects[j].ids) : i # k => m[i] = objects[j].next[i]
    BY <1>9, <1>10, <1>11
  <1>13. PICK obj : obj = [objects[j] EXCEPT !.next = m]
    OBVIOUS
  <1>14. obj \in Object /\ obj.name = t /\ obj.ids = objects[j].ids /\ obj.next = m
    BY <1>8, <1>12, <1>13 DEF Object
  <1>15. objects' = [objects EXCEPT ![j] = obj]
    BY <1>9, <1>13 DEF Appended
  <1>16. /\ objects' \in Seq(Object) /\ Len(objects') = Len(objects) /\ objects'[j] = obj
         /\ \A i \in 1 .. Len(objects) : i # j => objects'[i] = objects[i]
    BY <1>8, <1>14, <1>15
  <1> QED BY <1>3, <1>4, <1>6, <1>7, <1>12, <1>14, <1>16

\* A record of a topic without clash has an offset that no other has.
LEMMA AppendedUnique ==
    ASSUME Inv, NEW t, NEW k, NEW j, NEW n, Appended(t, k, j, n), t \notin clash,
           NEW i \in DOMAIN acked, acked[i].name = t, acked[i].partition = k - 1
    PROVE  acked[i].offset # n
  <1>1. /\ t \in Names /\ k \in 1 .. Len(disk[t]) /\ disk[t][k].log \in Seq(Nat)
    BY AppendedFacts
  <1>2. Clean(t) /\ objects[j].name = t /\ j \in 1 .. Len(objects)
        /\ k \in 1 .. Len(objects[j].ids) /\ objects[j].next[k] = n
    BY <1>1 DEF Inv, Appended
  <1>3. n = Len(disk[t][k].log)
    BY <1>2 DEF Clean, OneObject
  <1>4. (k - 1) + 1 = k /\ Len(disk[t][k].log) \in Nat
    <2>1. Len(disk[t]) \in Nat
      BY <1>1 DEF Inv, Types
    <2> QED BY <1>1, <2>1
  <1>5. PICK q \in DOMAIN disk[t][k].log : disk[t][k].log[q] = acked[i].offset
    BY <1>4 DEF Inv, RoutedByNumber
  <1>6. q \in 1 .. Len(disk[t][k].log) /\ acked[i].offset = q - 1
    BY <1>1, <1>2, <1>5 DEF Clean, Counted
  <1> QED BY <1>3, <1>4, <1>6

LEMMA AppendRecordStep ==
    ASSUME Inv, NEW h \in Handlers, AppendRecord(h)
    PROVE  Inv'
  <1>0. Types /\ disk \in [Names -> Seq(Dir)] /\ objects \in Seq(Object)
    BY DEF Inv, Types
  <1>1. PICK o \in Appending : o = op[h]
    BY <1>0, Phase DEF AppendRecord
  <1>2. PICK j \in Nat, p \in Nat : j = o.object /\ p = o.partition
    BY DEF Appending
  <1>3. /\ j \in 1 .. Len(objects) /\ objects[j] \in Object /\ p < Len(objects[j].ids)
    BY <1>0, <1>1, <1>2 DEF Inv, Appends
  <1>4. /\ objects[j].ids \in Seq(Nat) /\ Len(objects[j].ids) \in Nat
        /\ objects[j].next \in Seq(Nat) /\ Len(objects[j].next) = Len(objects[j].ids)
        /\ objects[j].name \in Names
    BY <1>3 DEF Object, Inv, Objects, WellFormed
  <1>5. PICK t \in Names, k \in 1 .. Len(objects[j].ids) : t = objects[j].name /\ k = p + 1
    BY <1>3, <1>4
  <1>6. PICK n \in Nat : n = objects[j].next[k]
    BY <1>4
  <1>7. objects[j].ids[k] = k - 1 /\ objects[j].ids[k] + 1 = k /\ k \in 1 .. Len(disk[t])
    <2>1. /\ Len(objects[j].ids) <= Len(disk[t]) /\ Len(disk[t]) \in Nat
          /\ objects[j].ids[k] = k - 1
      BY <1>0, <1>3, <1>5 DEF Inv, Objects, WellFormed
    <2> QED BY <1>4, <2>1
  <1>8. /\ disk' = [disk EXCEPT ![t][k].log = Append(@, n)]
        /\ objects' = [objects EXCEPT ![j].next[k] = @ + 1]
        /\ acked' = Append(acked, [name |-> t, partition |-> p, offset |-> n])
        /\ op' = [op EXCEPT ![h] = Idle]
        /\ UNCHANGED <<up, topics, states, told, asked, clash, crashes>>
    BY <1>1, <1>2, <1>5, <1>6, <1>7 DEF AppendRecord
  <1>9. Appended(t, k, j, n)
    <2>1. PICK d : d = [disk[t][k] EXCEPT !.log = Append(disk[t][k].log, n)]
      OBVIOUS
    <2>2. disk' = [disk EXCEPT ![t] = [disk[t] EXCEPT ![k] = d]]
      BY <1>0, <1>8, <2>1
    <2>3. d \in Dir
      <3>1. disk[t][k] \in Dir
        BY <1>0, <1>7
      <3>2. Append(disk[t][k].log, n) \in Seq(Nat)
        BY <3>1 DEF Dir
      <3> QED BY <2>1, <3>1, <3>2 DEF Dir
    <2>4. Replaces(t, k, d)
      BY <1>0, <1>7, <2>2, <2>3 DEF Replaces
    <2>5. objects' = [objects EXCEPT ![j] = [objects[j] EXCEPT !.next =
                                               [objects[j].next EXCEPT ![k] = n + 1]]]
      BY <1>0, <1>6, <1>8
    <2>6. p = k - 1
      BY <1>5
    <2> QED BY <1>3, <1>5, <1>6, <1>8, <2>1, <2>4, <2>5, <2>6 DEF Appended
  <1>10. /\ disk' \in [Names -> Seq(Dir)]
         /\ \A x \in Names : x # t => disk'[x] = disk[x]
         /\ Len(disk'[t]) = Len(disk[t])
         /\ \A i \in 1 .. Len(disk[t]) : i # k => disk'[t][i] = disk[t][i]
         /\ disk[t][k].log \in Seq(Nat) /\ disk'[t][k].log = Append(disk[t][k].log, n)
         /\ disk'[t][k].made = disk[t][k].made /\ disk'[t][k].broken = disk[t][k].broken
         /\ Grows
    BY <1>9, AppendedFacts
  <1>11. /\ objects' \in Seq(Object) /\ Len(objects') = Len(objects)
         /\ \A i \in 1 .. Len(objects) : i # j => objects'[i] = objects[i]
         /\ objects'[j].name = t /\ objects'[j].ids = objects[j].ids
         /\ Len(objects'[j].next) = Len(objects[j].next) /\ objects'[j].next[k] = n + 1
         /\ \A i \in 1 .. Len(objects[j].ids) : i # k => objects'[j].next[i] = objects[j].next[i]
    BY <1>9, AppendedFacts
  <1>12. /\ op' \in [Handlers -> Work] /\ op'[h] = Idle
         /\ \A d \in Handlers : d # h => op'[d] = op[d]
    BY <1>0, <1>8, Moves DEF Work
  <1>13. PICK a \in Ack : a = [name |-> t, partition |-> p, offset |-> n]
    BY DEF Ack
  <1>14. /\ acked \in Seq(Ack) /\ acked' = Append(acked, a) /\ acked' \in Seq(Ack)
         /\ Len(acked) \in Nat /\ a.name = t /\ a.partition = p /\ a.offset = n
    BY <1>0, <1>8, <1>13 DEF Types
  <1>15. Types'
    BY <1>0, <1>8, <1>10, <1>11, <1>12, <1>14 DEF Types, Work
  <1>16. Idle \notin Creation \cup Appending
    BY <1>0, Phase
  <1>17. \A i \in 1 .. Len(objects) : objects'[i].name = objects[i].name
                                      /\ objects'[i].ids = objects[i].ids
    BY <1>5, <1>11
  <1>18. Objects'
    <2> SUFFICES ASSUME NEW i \in 1 .. Len(objects) PROVE WellFormed(objects[i])'
      BY <1>11 DEF Objects
    <2>1. objects[i].name \in Names /\ WellFormed(objects[i])
      <3>1. objects[i] \in Object
        BY <1>0
      <3> QED BY <3>1 DEF Inv, Objects, Object
    <2>2. Len(disk'[objects[i].name]) = Len(disk[objects[i].name])
      BY <1>10, <2>1
    <2>3. Len(objects'[i].next) = Len(objects[i].next)
      BY <1>11
    <2> QED BY <1>17, <2>1, <2>2, <2>3 DEF WellFormed
  <1>19. Mapped'
    <2>1. up
      <3>1. op[h] # Idle
        BY <1>1, <1>16
      <3> QED BY <3>1, Busy
    <2> QED BY <1>8, <1>11, <1>17, <2>1 DEF Inv, Mapped
  <1>20. Creations'
    <2> SUFFICES ASSUME NEW d \in Handlers, op'[d] \in Creation PROVE Creator(op[d])'
      BY DEF Creations
    <2>1. PICK e \in Creation : e = op[d] /\ e = op'[d]
      BY <1>12, <1>16
    <2>2. Creator(e)
      BY <2>1 DEF Inv, Creations
    <2>3. Creator(e)'
      BY <1>0, <1>8, <1>10, <2>2, CreatorKept
    <2> QED BY <2>1, <2>3
  <1>21. Appends'
    BY <1>11, <1>12, <1>16, <1>17 DEF Inv, Appends
  <1>22. Broken'
    <2>1. PICK l \in Seq(Nat) : l = disk[t][k].log /\ disk'[t][k].log = Append(l, n)
      BY <1>10
    <2>2. disk'[t][k].log # <<>>
      <3>1. Len(Append(l, n)) = Len(l) + 1 /\ Len(l) \in Nat /\ Len(<<>>) = 0
        OBVIOUS
      <3> QED BY <2>1, <3>1
    <2>3. \A x \in Names : \A i \in 1 .. Len(disk'[x]) :
             disk'[x][i].log # <<>> \/ (i \in 1 .. Len(disk[x]) /\ disk'[x][i] = disk[x][i])
      BY <1>10, <2>2
    <2> QED BY <2>3 DEF Inv, Broken
  <1>23. RoutedByNumber'
    <2> SUFFICES ASSUME NEW i \in DOMAIN acked'
                 PROVE  LET r == acked'[i]
                        IN  /\ r.partition < Len(disk'[r.name])
                            /\ \E q \in DOMAIN disk'[r.name][r.partition + 1].log :
                                  disk'[r.name][r.partition + 1].log[q] = r.offset
      BY DEF RoutedByNumber
    <2>1. CASE i \in DOMAIN acked
      <3>1. acked'[i] = acked[i]
        BY <1>14, <2>1
      <3> QED BY <1>0, <1>10, <2>1, <3>1, RoutedKept DEF Inv
    <2>2. CASE i \notin DOMAIN acked
      <3>1. acked'[i] = a
        BY <1>14, <2>2
      <3>2. p < Len(disk'[t]) /\ p + 1 = k
        <4>1. Len(disk[t]) \in Nat /\ Len(disk'[t]) = Len(disk[t])
          BY <1>0, <1>10
        <4>2. k = p + 1 /\ k \in 1 .. Len(disk[t])
          BY <1>5, <1>7
        <4> QED BY <4>1, <4>2
      <3>3. PICK l \in Seq(Nat) : l = disk[t][k].log
        BY <1>10
      <3>4. Len(l) + 1 \in DOMAIN Append(l, n) /\ Append(l, n)[Len(l) + 1] = n
        OBVIOUS
      <3>5. \E q \in DOMAIN disk'[t][k].log : disk'[t][k].log[q] = n
        BY <1>10, <3>3, <3>4
      <3> QED BY <1>14, <3>1, <3>2, <3>5
    <2> QED BY <2>1, <2>2
  <1>24. OffsetsUnique'
    <2>1. ASSUME NEW i \in DOMAIN acked, t \notin clash PROVE acked[i] # a
      <3>1. p = k - 1
        BY <1>5
      <3>2. CASE acked[i].name = t /\ acked[i].partition = k - 1
        BY <1>9, <1>14, <2>1, <3>2, AppendedUnique
      <3> QED BY <1>14, <3>1, <3>2
    <2>2. \A i \in DOMAIN acked' : \/ i \in DOMAIN acked /\ acked'[i] = acked[i]
                                   \/ i = Len(acked) + 1 /\ acked'[i] = a
      BY <1>14
    <2>3. ASSUME NEW i \in DOMAIN acked', NEW q \in DOMAIN acked', i # q, acked'[i] = acked'[q]
          PROVE  acked'[i].name \in clash'
      BY <1>8, <1>14, <2>1, <2>2, <2>3 DEF Inv, OffsetsUnique
    <2> QED BY <2>3 DEF OffsetsUnique
  <1>25. ASSUME NEW x \in Names \ clash', x # t PROVE Clean(x)'
    <2>1. Apart(x)
      <3>1. \A i \in 1 .. Len(objects') : objects'[i].name = x =>
               i \in 1 .. Len(objects) /\ objects'[i] = objects[i]
        BY <1>11, <1>25
      <3>2. topics[x] # 0 => objects'[topics[x]] = objects[topics[x]]
        BY <1>5, <1>11, <1>25 DEF Inv, Mapped
      <3> QED BY <1>8, <1>10, <1>12, <1>16, <1>25, <3>1, <3>2 DEF Apart, Frame
    <2> QED BY <1>8, <1>15, <2>1, ApartStep DEF Inv
  <1>26. ASSUME t \notin clash' PROVE Clean(t)'
    <2>1. Clean(t) /\ j = topics[t] /\ topics[t] # 0
      <3>1. Clean(t)
        BY <1>8, <1>26 DEF Inv
      <3> QED BY <1>3, <1>5, <3>1 DEF Clean, OneObject
    <2>2. Creating(t) = {}
      BY <2>1 DEF Clean, OneCreation
    <2>3. Creating(t)' = {}
      BY <1>12, <1>16, <2>2 DEF Creating, Idle
    <2>4. /\ Len(objects[j].ids) = Len(disk[t]) /\ Whole(t) /\ Len(asked[t]) > 0
          /\ \A i \in 1 .. Len(objects[j].ids) : objects[j].next[i] = Len(disk[t][i].log)
          /\ Len(objects[j].ids) = 0 => \A i \in 1 .. Len(asked[t]) : asked[t][i] = 0
      BY <1>3, <1>5, <2>1 DEF Clean, OneObject
    <2>5. Whole(t)'
      BY <1>10, <2>4 DEF Whole
    <2>6. n = Len(disk[t][k].log) /\ Len(disk'[t][k].log) = n + 1
      BY <1>6, <1>10, <2>4
    <2>7. OneCreation(t)'
      BY <2>3 DEF OneCreation
    <2>8. \A i \in 1 .. Len(objects[j].ids) : objects'[j].next[i] = Len(disk'[t][i].log)
      BY <1>10, <1>11, <2>4, <2>6
    <2>9. OneObject(t)'
      <3> SUFFICES ASSUME NEW i \in 1 .. Len(objects'), objects'[i].name = t
                   PROVE  /\ i = topics'[t] /\ Len(asked'[t]) > 0
                          /\ Len(objects'[i].ids) = Len(disk'[t]) /\ Whole(t)'
                          /\ \A q \in 1 .. Len(objects'[i].ids) :
                                objects'[i].next[q] = Len(disk'[t][q].log)
                          /\ Len(objects'[i].ids) = 0 =>
                                \A q \in 1 .. Len(asked'[t]) : asked'[t][q] = 0
        BY DEF OneObject
      <3>1. i = j
        BY <1>11, <1>17, <2>1 DEF Clean, OneObject
      <3> QED BY <1>8, <1>10, <1>11, <2>1, <2>4, <2>5, <2>8, <3>1
    <2>10. Counted(t)'
      <3>1. ASSUME NEW i \in 1 .. Len(disk[t]), NEW q \in 1 .. Len(disk'[t][i].log)
            PROVE  disk'[t][i].log[q] = q - 1
        <4>1. CASE i # k
          BY <1>10, <2>1, <4>1 DEF Clean, Counted
        <4>2. CASE i = k
          <5>1. PICK l \in Seq(Nat) : l = disk[t][k].log
            BY <1>10
          <5>2. /\ n = Len(l) /\ disk'[t][k].log = Append(l, n)
                /\ \A r \in 1 .. Len(l) : l[r] = r - 1
            BY <1>7, <1>10, <2>1, <2>6, <5>1 DEF Clean, Counted
          <5>3. q \in 1 .. Len(Append(l, n))
            BY <3>1, <4>2, <5>2
          <5>4. Append(l, n)[q] = q - 1
            BY <5>2, <5>3
          <5> QED BY <4>2, <5>2, <5>4
        <4> QED BY <4>1, <4>2
      <3> QED BY <1>8, <1>10, <2>1, <3>1 DEF Clean, Counted
    <2>11. Assigned(t)'
      BY <1>8, <1>11, <1>12, <1>16, <2>1 DEF Clean, Assigned
    <2>12. Told(t)'
      <3>1. topics'[t] # 0 /\ asked' = asked /\ told' = told /\ Len(disk'[t]) = Len(disk[t])
        BY <1>8, <1>10, <2>1
      <3>2. \A m \in told[t] :
               /\ m = Len(disk[t]) /\ Len(asked[t]) > 0
               /\ m = 0 => \A i \in 1 .. Len(asked[t]) : asked[t][i] = 0
        BY <2>1 DEF Clean, Told
      <3> QED BY <2>3, <2>5, <3>1, <3>2 DEF Told
    <2>13. Advertised(t)'
      BY <1>8, <1>11, <2>1 DEF Clean, Advertised, Served, NumPartitions
    <2> QED BY <2>7, <2>9, <2>10, <2>11, <2>12, <2>13 DEF Clean
  <1> QED BY <1>15, <1>18, <1>19, <1>20, <1>21, <1>22, <1>23, <1>24, <1>25, <1>26 DEF Inv

-----------------------------------------------------------------------------
(* The process.                                                            *)

\* A directory stays as it was, or its last rotation is interrupted.
CrashKeeps ==
    \A t \in Names :
        /\ Len(disk'[t]) = Len(disk[t])
        /\ \A k \in 1 .. Len(disk[t]) :
              /\ disk'[t][k].made = disk[t][k].made /\ disk'[t][k].log = disk[t][k].log
              /\ disk'[t][k].broken => disk[t][k].broken \/ disk[t][k].log # <<>>

LEMMA CrashDisk ==
    ASSUME Inv, Crash
    PROVE  disk' \in [Names -> Seq(Dir)] /\ CrashKeeps
  <1>0. Types /\ disk \in [Names -> Seq(Dir)] /\ objects \in Seq(Object)
    BY DEF Inv, Types
  <1>1. CASE disk' = disk
    BY <1>0, <1>1 DEF CrashKeeps
  <1>2. ASSUME NEW h \in Handlers, op[h].at = "append",
               LET obj == objects[op[h].object]
                   id  == obj.ids[op[h].partition + 1] + 1
               IN  /\ disk[obj.name][id].log # <<>>
                   /\ disk' = [disk EXCEPT ![obj.name][id].broken = TRUE]
        PROVE  disk' \in [Names -> Seq(Dir)] /\ CrashKeeps
    <2>1. PICK o \in Appending : o = op[h]
      BY <1>0, <1>2, Phase
    <2>2. PICK j \in Nat, p \in Nat : j = o.object /\ p = o.partition
      BY DEF Appending
    <2>3. j \in 1 .. Len(objects) /\ objects[j] \in Object /\ p < Len(objects[j].ids)
      BY <1>0, <2>1, <2>2 DEF Inv, Appends
    <2>4. PICK t \in Names : t = objects[j].name
      BY <2>3 DEF Object
    <2>5. /\ Len(objects[j].ids) \in Nat /\ Len(objects[j].ids) <= Len(disk[t])
          /\ Len(disk[t]) \in Nat
          /\ \A k \in 1 .. Len(objects[j].ids) : objects[j].ids[k] = k - 1
      BY <1>0, <2>3, <2>4 DEF Object, Inv, Objects, WellFormed
    <2>6. PICK k \in 1 .. Len(disk[t]) : k = p + 1 /\ objects[j].ids[p + 1] + 1 = k
      BY <2>3, <2>5
    <2>7. disk[t][k].log # <<>> /\ disk' = [disk EXCEPT ![t][k].broken = TRUE]
      BY <1>2, <2>1, <2>2, <2>4, <2>6
    <2>8. PICK d : d = [disk[t][k] EXCEPT !.broken = TRUE]
      OBVIOUS
    <2>9. d \in Dir /\ d.made = disk[t][k].made /\ d.log = disk[t][k].log
      <3>1. disk[t][k] \in Dir
        BY <1>0
      <3> QED BY <2>8, <3>1 DEF Dir
    <2>10. Replaces(t, k, d)
      BY <1>0, <2>7, <2>8, <2>9 DEF Replaces
    <2>11. /\ disk' \in [Names -> Seq(Dir)]
           /\ \A x \in Names : x # t => disk'[x] = disk[x]
           /\ Len(disk'[t]) = Len(disk[t]) /\ disk'[t][k] = d
           /\ \A i \in 1 .. Len(disk[t]) : i # k => disk'[t][i] = disk[t][i]
      BY ONLY <2>10, DirStep
    <2> QED BY <2>7, <2>9, <2>11 DEF CrashKeeps
  <1> QED BY <1>1, <1>2 DEF Crash

LEMMA CrashStep ==
    ASSUME Inv, Crash
    PROVE  Inv'
  <1>0. Types /\ disk \in [Names -> Seq(Dir)]
    BY DEF Inv, Types
  <1>1. /\ crashes < MaxCrashes /\ crashes' = crashes + 1 /\ up' = FALSE /\ objects' = <<>>
        /\ topics' = [t \in Names |-> 0] /\ states' = {} /\ op' = [h \in Handlers |-> Idle]
        /\ UNCHANGED <<acked, told, asked, clash>>
    BY DEF Crash
  <1>2. disk' \in [Names -> Seq(Dir)] /\ CrashKeeps
    BY CrashDisk
  <1>3. Types'
    <2>1. crashes' \in 0 .. MaxCrashes
      BY <1>0, <1>1, TopicsAssumption DEF Types
    <2>2. /\ objects' \in Seq(Object) /\ topics' \in [Names -> Nat] /\ states' \subseteq Names \X Nat
          /\ op' \in [Handlers -> {Idle} \cup Creation \cup Appending]
      BY <1>1
    <2>3. up' \in BOOLEAN
      BY <1>1
    <2>4. /\ acked' \in Seq(Ack) /\ told' \in [Names -> SUBSET Nat]
          /\ asked' \in [Names -> Seq(Nat)] /\ clash' \subseteq Names
      BY <1>0, <1>1 DEF Types
    <2> QED BY <1>2, <2>1, <2>2, <2>3, <2>4 DEF Types
  <1>4. \A h \in Handlers : op'[h] = Idle /\ op'[h].at = "idle"
    BY <1>1 DEF Idle
  <1>5. Idle \notin Creation \cup Appending
    BY DEF Idle, Creation, Appending
  <1>6. Objects' /\ Mapped' /\ Creations' /\ Appends'
    BY <1>1, <1>4, <1>5 DEF Objects, Mapped, Creations, Appends
  <1>7. Broken'
    BY <1>2 DEF Inv, Broken, CrashKeeps
  <1>8. Grows
    <2>1. \A t \in Names : Len(disk[t]) \in Nat /\ \A k \in 1 .. Len(disk[t]) : disk[t][k] \in Dir
      BY <1>0
    <2>2. \A t \in Names : \A k \in 1 .. Len(disk[t]) : Len(disk[t][k].log) \in Nat
      BY <2>1 DEF Dir
    <2> QED BY <1>2, <2>1, <2>2 DEF Grows, CrashKeeps
  <1>9. RoutedByNumber' /\ OffsetsUnique'
    <2>1. RoutedByNumber'
      BY <1>0, <1>1, <1>2, <1>8, RoutedKept DEF Inv, RoutedByNumber
    <2> QED BY <1>1, <2>1 DEF Inv, OffsetsUnique
  <1>10. ASSUME NEW t \in Names \ clash' PROVE Clean(t)'
    <2>1. Clean(t)
      BY <1>1 DEF Inv
    <2>2. Creating(t)' = {}
      BY <1>4 DEF Creating
    <2>3. OneCreation(t)' /\ OneObject(t)' /\ Assigned(t)' /\ Advertised(t)'
      BY <1>1, <1>4, <1>5, <2>2 DEF OneCreation, OneObject, Assigned, Advertised
    <2>4. Counted(t)'
      BY <1>1, <1>2, <2>1 DEF Clean, Counted, CrashKeeps
    <2>5. Whole(t)' <=> Whole(t)
      BY <1>2 DEF Whole, CrashKeeps
    <2>6. Told(t)'
      <3>1. /\ asked' = asked /\ told' = told /\ Len(disk'[t]) = Len(disk[t]) /\ ~up'
        BY <1>1, <1>2 DEF CrashKeeps
      <3> QED BY <2>1, <2>2, <2>5, <3>1 DEF Clean, Told
    <2> QED BY <2>3, <2>4, <2>6 DEF Clean
  <1> QED BY <1>3, <1>6, <1>7, <1>9, <1>10 DEF Inv

\* A reopened topic has its partitions in order; its counters are at the ends of the
\* logs if the offsets of those count from 0.
LEMMA OpenSound ==
    ASSUME Types, NEW t \in Names
    PROVE  /\ OpenTopic(t) \in Object /\ OpenTopic(t).name = t
           /\ Len(OpenTopic(t).ids) = Len(disk[t]) /\ Len(OpenTopic(t).next) = Len(disk[t])
           /\ \A k \in 1 .. Len(disk[t]) : OpenTopic(t).ids[k] = k - 1
           /\ Counted(t) => \A k \in 1 .. Len(disk[t]) : OpenTopic(t).next[k] = Len(disk[t][k].log)
  <1>1. /\ disk[t] \in Seq(Dir) /\ Len(disk[t]) \in Nat /\ DOMAIN disk[t] = 1 .. Len(disk[t])
        /\ \A k \in 1 .. Len(disk[t]) : disk[t][k] \in Dir
    BY DEF Types
  <1>2. \A k \in 1 .. Len(disk[t]) : disk[t][k].log \in Seq(Nat)
    BY <1>1 DEF Dir
  <1>3. PICK ids : ids = [i \in 1 .. Len(disk[t]) |-> i - 1]
    OBVIOUS
  <1>4. PICK next : next = [i \in 1 .. Len(disk[t]) |-> NextOffset(disk[t][i].log)]
    OBVIOUS
  <1>5. OpenTopic(t) = [name |-> t, ids |-> ids, next |-> next]
    BY <1>1, <1>3, <1>4 DEF OpenTopic
  <1>6. ids \in Seq(Nat) /\ Len(ids) = Len(disk[t]) /\ \A k \in 1 .. Len(disk[t]) : ids[k] = k - 1
    BY <1>1, <1>3
  <1>7. ASSUME NEW l \in Seq(Nat)
        PROVE  /\ NextOffset(l) \in Nat
               /\ (\A j \in 1 .. Len(l) : l[j] = j - 1) => NextOffset(l) = Len(l)
    <2>1. CASE l = <<>>
      BY <2>1 DEF NextOffset
    <2>2. CASE l # <<>>
      <3>1. Len(l) \in Nat /\ Len(l) > 0 /\ Len(l) \in 1 .. Len(l) /\ l[Len(l)] \in Nat
        BY <2>2
      <3>2. NextOffset(l) = l[Len(l)] + 1
        BY <2>2 DEF NextOffset
      <3> QED BY <3>1, <3>2
    <2> QED BY <2>1, <2>2
  <1>8. \A k \in 1 .. Len(disk[t]) : NextOffset(disk[t][k].log) \in Nat
    BY <1>2, <1>7
  <1>9. next \in Seq(Nat) /\ Len(next) = Len(disk[t])
    BY <1>1, <1>4, <1>8
  <1>10. Counted(t) => \A k \in 1 .. Len(disk[t]) : next[k] = Len(disk[t][k].log)
    BY <1>2, <1>4, <1>7 DEF Counted
  <1>11. OpenTopic(t) \in Object
    BY <1>5, <1>6, <1>9 DEF Object
  <1> QED BY <1>5, <1>6, <1>9, <1>10, <1>11

\* TopicManager::open has one object for each topic that opens.
LEMMA Reopened ==
    ASSUME Inv, Restart
    PROVE  /\ objects' \in Seq(Object) /\ topics' \in [Names -> Nat]
           /\ \A i \in 1 .. Len(objects') : \E t \in Names :
                 Openable(t) /\ objects'[i] = OpenTopic(t) /\ topics'[t] = i
           /\ \A t \in Names : topics'[t] # 0 =>
                 topics'[t] \in 1 .. Len(objects') /\ objects'[topics'[t]] = OpenTopic(t)
           /\ \A t \in Names : Openable(t) => topics'[t] # 0
  <1> DEFINE found == {t \in Names : Openable(t)}
             n == Cardinality(found)
  <1>1. PICK opened \in [1 .. n -> found] :
           /\ \A t \in found : \E i \in DOMAIN opened : opened[i] = t
           /\ objects' = [i \in DOMAIN opened |-> OpenTopic(opened[i])]
           /\ topics' = [t \in Names |->
                 IF t \in found THEN CHOOSE i \in DOMAIN opened : opened[i] = t ELSE 0]
    BY DEF Restart
  <1>2. Types /\ found \subseteq Names
    BY DEF Inv
  <1>3. IsFiniteSet(found)
    BY <1>2, TopicsAssumption, FS_Subset
  <1>4. n \in Nat
    BY <1>3, FS_CardinalityType
  <1> HIDE DEF n
  <1>5. \A i, j \in 1 .. n : opened[i] = opened[j] => i = j
    <2>1. IsFiniteSet(1 .. n) /\ Cardinality(1 .. n) = n
      BY <1>4, FS_Interval
    <2>2. opened \in Surjection(1 .. n, found)
      BY <1>1 DEF Surjection
    <2>3. opened \in Injection(1 .. n, found)
      BY <1>3, <2>1, <2>2, FS_SurjSameCardinalityImpliesInj DEF n
    <2> QED BY <2>3 DEF Injection, IsInjective
  <1> HIDE DEF found
  <1>6. \A t \in found : t \in Names /\ OpenTopic(t) \in Object
    BY <1>2, OpenSound
  <1>7. objects' = [i \in 1 .. n |-> OpenTopic(opened[i])]
    BY <1>1
  <1>8. objects' \in Seq(Object) /\ Len(objects') = n
    BY <1>4, <1>6, <1>7
  <1>9. \A t \in found : topics'[t] \in 1 .. n /\ opened[topics'[t]] = t
    <2> SUFFICES ASSUME NEW t \in found PROVE topics'[t] \in 1 .. n /\ opened[topics'[t]] = t
      OBVIOUS
    <2>1. topics'[t] = CHOOSE i \in 1 .. n : opened[i] = t
      BY <1>1, <1>6
    <2>2. \E i \in 1 .. n : opened[i] = t
      BY <1>1
    <2> QED BY <2>1, <2>2
  <1>10. \A t \in Names : t \notin found => topics'[t] = 0
    BY <1>1
  <1>11. topics' \in [Names -> Nat]
    <2>1. \A t \in Names : topics'[t] \in Nat
      BY <1>4, <1>9, <1>10
    <2>2. topics' = [t \in Names |-> topics'[t]]
      BY <1>1
    <2> QED BY <2>1, <2>2
  <1>12. \A i \in 1 .. n : opened[i] \in found /\ topics'[opened[i]] = i
    BY <1>1, <1>5, <1>9
  <1>13. \A t \in Names : t \in found <=> Openable(t)
    BY DEF found
  <1>14. \A t \in Names : Openable(t) => topics'[t] # 0
    BY <1>4, <1>9, <1>13
  <1>15. \A t \in Names : topics'[t] # 0 =>
                 topics'[t] \in 1 .. Len(objects') /\ objects'[topics'[t]] = OpenTopic(t)
    BY <1>7, <1>8, <1>9, <1>10
  <1>16. \A i \in 1 .. Len(objects') : \E t \in Names :
                 Openable(t) /\ objects'[i] = OpenTopic(t) /\ topics'[t] = i
    <2> SUFFICES ASSUME NEW i \in 1 .. n
                 PROVE  \E t \in Names : Openable(t) /\ objects'[i] = OpenTopic(t) /\ topics'[t] = i
      BY <1>8
    <2>1. opened[i] \in found /\ opened[i] \in Names /\ objects'[i] = OpenTopic(opened[i])
      BY <1>6, <1>7, <1>12
    <2> QED BY <1>12, <1>13, <2>1
  <1> QED BY <1>8, <1>11, <1>14, <1>15, <1>16

LEMMA RestartStep ==
    ASSUME Inv, Restart
    PROVE  Inv'
  <1>0. Types
    BY DEF Inv
  <1>1. ~up /\ up' = TRUE /\ UNCHANGED <<disk, states, op, acked, told, asked, clash, crashes>>
    BY DEF Restart
  <1>2. /\ objects' \in Seq(Object) /\ topics' \in [Names -> Nat]
        /\ \A i \in 1 .. Len(objects') : \E t \in Names :
              Openable(t) /\ objects'[i] = OpenTopic(t) /\ topics'[t] = i
        /\ \A t \in Names : topics'[t] # 0 =>
              topics'[t] \in 1 .. Len(objects') /\ objects'[topics'[t]] = OpenTopic(t)
        /\ \A t \in Names : Openable(t) => topics'[t] # 0
    BY Reopened
  <1>3. Types'
    <2>1. up' \in BOOLEAN
      BY <1>1
    <2> QED BY <1>0, <1>1, <1>2, <2>1 DEF Types
  <1>4. states = {} /\ \A h \in Handlers : op[h] = Idle
    BY <1>1 DEF Inv, Mapped
  <1>5. Idle \notin Creation \cup Appending /\ Idle.at = "idle"
    BY DEF Idle, Creation, Appending
  <1>6. Creations' /\ Appends'
    BY <1>1, <1>4, <1>5 DEF Creations, Appends
  <1>7. Objects'
    <2> SUFFICES ASSUME NEW i \in 1 .. Len(objects') PROVE WellFormed(objects[i])'
      BY DEF Objects
    <2>1. PICK t \in Names : objects'[i] = OpenTopic(t)
      BY <1>2
    <2>2. PICK o : o = OpenTopic(t)
      OBVIOUS
    <2>3. /\ o.name = t /\ Len(o.ids) = Len(disk[t]) /\ Len(o.next) = Len(disk[t])
          /\ \A k \in 1 .. Len(disk[t]) : o.ids[k] = k - 1
      BY <1>0, <2>2, OpenSound
    <2>4. disk'[t] = disk[t] /\ Len(disk[t]) \in Nat
      BY <1>0, <1>1 DEF Types
    <2> QED BY <2>1, <2>2, <2>3, <2>4 DEF WellFormed
  <1>8. Mapped'
    BY <1>0, <1>1, <1>2, OpenSound DEF Mapped
  <1>9. Broken' /\ RoutedByNumber' /\ OffsetsUnique'
    BY <1>1 DEF Inv, Broken, RoutedByNumber, OffsetsUnique
  <1>10. ASSUME NEW t \in Names \ clash' PROVE Clean(t)'
    <2>1. Clean(t)
      BY <1>1 DEF Inv
    <2>2. Creating(t)' = {}
      BY <1>1, <1>4, <1>5 DEF Creating
    <2>3. OneCreation(t)' /\ Assigned(t)' /\ Advertised(t)'
      BY <1>1, <1>4, <1>5, <2>2 DEF OneCreation, Assigned, Advertised
    <2>4. Counted(t) /\ Counted(t)'
      BY <1>1, <2>1 DEF Clean, Counted
    <2>5. Whole(t)' <=> Whole(t)
      BY <1>1 DEF Whole
    <2>6. disk[t] \in Seq(Dir) /\ Len(disk[t]) \in Nat /\ Len(asked[t]) \in Nat
      BY <1>0 DEF Types
    <2>7. OneObject(t)'
      <3> SUFFICES ASSUME NEW i \in 1 .. Len(objects'), objects'[i].name = t
                   PROVE  /\ i = topics'[t] /\ Len(asked[t]) > 0
                          /\ Len(objects'[i].ids) = Len(disk[t]) /\ Whole(t)
                          /\ \A k \in 1 .. Len(objects'[i].ids) :
                                objects'[i].next[k] = Len(disk[t][k].log)
                          /\ Len(objects'[i].ids) = 0 =>
                                \A j \in 1 .. Len(asked[t]) : asked[t][j] = 0
        BY <1>1, <2>5 DEF OneObject
      <3>1. PICK u \in Names : Openable(u) /\ objects'[i] = OpenTopic(u) /\ topics'[u] = i
        BY <1>2
      <3>2. u = t
        BY <1>0, <3>1, OpenSound
      <3>3. disk[t] # <<>> /\ \A k \in 1 .. Len(disk[t]) : disk[t][k].made = "whole"
        BY <2>6, <3>1, <3>2 DEF Openable, Opens
      <3>4. Len(disk[t]) > 0 /\ Whole(t)
        BY <2>6, <3>3 DEF Whole
      <3>5. Len(asked[t]) > 0
        BY <2>4, <2>6, <3>4 DEF Counted
      <3>6. Len(OpenTopic(t).ids) = Len(disk[t])
            /\ \A k \in 1 .. Len(disk[t]) : OpenTopic(t).next[k] = Len(disk[t][k].log)
        BY <1>0, <2>4, OpenSound
      <3> QED BY <3>1, <3>2, <3>4, <3>5, <3>6
    <2>8. Told(t)'
      <3>1. ASSUME NEW n \in told[t], n > 0, topics'[t] = 0
            PROVE  \E k \in 1 .. Len(disk[t]) : disk[t][k].broken
        <4>1. n = Len(disk[t]) /\ Whole(t)
          BY <2>1 DEF Clean, Told
        <4>2. ~Openable(t)
          BY <1>2, <3>1
        <4>3. disk[t] # <<>>
          BY <2>6, <3>1, <4>1
        <4>4. PICK k \in 1 .. Len(disk[t]) : ~Opens(disk[t][k])
          BY <2>6, <4>2, <4>3 DEF Openable
        <4> QED BY <4>1, <4>4 DEF Opens, Whole
      <3>2. disk' = disk /\ told' = told /\ asked' = asked
        BY <1>1
      <3> QED BY <2>1, <2>2, <2>5, <3>1, <3>2 DEF Clean, Told
    <2> QED BY <2>3, <2>4, <2>7, <2>8 DEF Clean
  <1> QED BY <1>3, <1>6, <1>7, <1>8, <1>9, <1>10 DEF Inv

LEMMA StutterStep ==
    ASSUME Inv, UNCHANGED vars
    PROVE  Inv'
  <1> USE DEF vars
  <1>1. Types' /\ Broken' /\ Objects' /\ Mapped'
    BY DEF Inv, Types, Broken, Objects, Mapped, WellFormed
  <1>2. Creations' /\ Appends'
    BY DEF Inv, Creations, Appends, Creator
  <1>3. RoutedByNumber' /\ OffsetsUnique'
    BY DEF Inv, RoutedByNumber, OffsetsUnique
  <1>4. ASSUME NEW t \in Names \ clash' PROVE Clean(t)'
    <2>1. Apart(t)
      BY DEF Apart, Frame
    <2> QED BY <1>1, <2>1, ApartStep DEF Inv
  <1> QED BY <1>1, <1>2, <1>3, <1>4 DEF Inv

LEMMA NextInv == Inv /\ [Next]_vars => Inv'
  <1> SUFFICES ASSUME Inv, [Next]_vars PROVE Inv'
    OBVIOUS
  <1>1. ASSUME NEW h \in Handlers,
               \/ \E t \in Names : \E n \in Counts : CreateTopic(h, t, n)
               \/ MakeDir(h) \/ MakeLog(h) \/ MakeIndex(h) \/ CreateFails(h)
               \/ Insert(h) \/ AssignReplicas(h) \/ AnswerCreate(h)
               \/ \E t \in {u \in Names : Served(u)} :
                     \E p \in 0 .. NumPartitions(t) - 1 : Produce(h, t, p)
               \/ AppendRecord(h)
        PROVE  Inv'
    BY <1>1, CreateTopicStep, MakeDirStep, MakeLogStep, MakeIndexStep, CreateFailsStep,
       InsertStep, AssignReplicasStep, AnswerCreateStep, ProduceStep, AppendRecordStep
  <1>2. CASE \E t \in Names : GetPartitions(t)
    BY <1>2, GetPartitionsStep
  <1>3. CASE Crash
    BY <1>3, CrashStep
  <1>4. CASE Restart
    BY <1>4, RestartStep
  <1>5. CASE UNCHANGED vars
    BY <1>5, StutterStep
  <1> QED BY <1>1, <1>2, <1>3, <1>4, <1>5 DEF Next

LEMMA Invariance == Spec => []Inv
  <1> QED BY InitInv, NextInv, PTL DEF Spec

-----------------------------------------------------------------------------
(* The theorems.                                                           *)

\* TypeOK is an invariant: the map leads to an object of the topic it names, and
\* every partition of every object has a counter and a directory, with any number
\* of creations half done, repeated or interrupted.
THEOREM TopicsTypeCorrect == Spec => []TypeOK
  <1>1. Inv => TypeOK
    <2> SUFFICES ASSUME Inv PROVE TypeOK
      OBVIOUS
    <2>1. Types /\ Objects /\ Mapped
      BY DEF Inv
    <2>2. \A t \in Names : /\ topics[t] \in 0 .. Len(objects)
                           /\ topics[t] # 0 => objects[topics[t]].name = t
      <3>1. Len(objects) \in Nat
        BY <2>1 DEF Types
      <3> QED BY <2>1, <3>1 DEF Mapped
    <2>3. ASSUME NEW i \in DOMAIN objects
          PROVE  /\ DOMAIN objects[i].next = DOMAIN objects[i].ids
                 /\ \A k \in DOMAIN objects[i].ids :
                       objects[i].ids[k] + 1 \in DOMAIN disk[objects[i].name]
      <3>0. objects \in Seq(Object) /\ i \in 1 .. Len(objects)
        BY <2>1 DEF Types
      <3>1. PICK o \in Object : o = objects[i] /\ WellFormed(o)
        BY <2>1, <3>0 DEF Objects
      <3>2. o.ids \in Seq(Nat) /\ o.next \in Seq(Nat) /\ o.name \in Names
        BY DEF Object
      <3>3. disk[o.name] \in Seq(Dir)
        BY <2>1, <3>2 DEF Types
      <3>4. DOMAIN o.next = DOMAIN o.ids
        BY <3>1, <3>2 DEF WellFormed
      <3>5. ASSUME NEW k \in DOMAIN o.ids PROVE o.ids[k] + 1 \in DOMAIN disk[o.name]
        <4>1. /\ k \in 1 .. Len(o.ids) /\ Len(o.ids) \in Nat /\ Len(disk[o.name]) \in Nat
              /\ DOMAIN disk[o.name] = 1 .. Len(disk[o.name])
          BY <3>2, <3>3
        <4>2. o.ids[k] = k - 1 /\ Len(o.ids) <= Len(disk[o.name])
          BY <3>1, <4>1 DEF WellFormed
        <4> QED BY <4>1, <4>2
      <3> QED BY <3>1, <3>4, <3>5
    <2> QED BY <2>1, <2>2, <2>3 DEF Types, TypeOK
  <1> QED BY Invariance, <1>1, PTL

\* RoutedByNumber is an invariant: an acknowledged record of partition p is in the
\* log of the directory of that number, whatever creations and restarts came between.
THEOREM RecordsFollowNumbers == Spec => []RoutedByNumber
  <1>1. Inv => RoutedByNumber
    BY DEF Inv
  <1> QED BY Invariance, <1>1, PTL

\* OffsetsUnique is an invariant: no two acknowledged records of a partition have one
\* offset, unless the topic was created over another creation or over records.
THEOREM AckedOffsetsUnique == Spec => []OffsetsUnique
  <1>1. Inv => OffsetsUnique
    BY DEF Inv
  <1> QED BY Invariance, <1>1, PTL

\* CountStable is an invariant: the partition count that clients were told is what the
\* broker serves, and a topic that does not come back has an interrupted rotation.
THEOREM CountsStayTrue == Spec => []CountStable
  <1>1. Inv => CountStable
    <2> SUFFICES ASSUME Inv, NEW t \in Names \ clash, NEW n \in told[t]
                 PROVE  /\ Served(t) => NumPartitions(t) = n
                        /\ up /\ n > 0 /\ ~Served(t) =>
                              \E i \in DOMAIN disk[t] : disk[t][i].broken
      BY DEF CountStable
    <2>1. Clean(t)
      BY DEF Inv
    <2>2. n = Len(disk[t])
      BY <2>1 DEF Clean, Told
    <2>3. ASSUME Served(t) PROVE NumPartitions(t) = n
      <3>1. topics[t] \in 1 .. Len(objects) /\ objects[topics[t]].name = t
        BY <2>3 DEF Served, Inv, Mapped
      <3> QED BY <2>1, <2>2, <3>1 DEF Clean, OneObject, NumPartitions
    <2>4. ASSUME up, n > 0, ~Served(t) PROVE \E i \in DOMAIN disk[t] : disk[t][i].broken
      <3>1. \E k \in 1 .. Len(disk[t]) : disk[t][k].broken
        BY <2>1, <2>4 DEF Served, Clean, Told
      <3>2. DOMAIN disk[t] = 1 .. Len(disk[t])
        BY DEF Inv, Types
      <3> QED BY <3>1, <3>2
    <2> QED BY <2>3, <2>4
  <1> QED BY Invariance, <1>1, PTL

\* AdvertisedServed is an invariant: cluster metadata has replicas only for partitions
\* that the broker serves, for a topic that was not created over another.
THEOREM ReplicasAreServed == Spec => []AdvertisedServed
  <1>1. Inv => AdvertisedServed
    <2> SUFFICES ASSUME Inv, NEW s \in states, s[1] \notin clash
                 PROVE  Served(s[1]) /\ s[2] < NumPartitions(s[1])
      BY DEF AdvertisedServed
    <2>1. s[1] \in Names
      BY DEF Inv, Types
    <2> QED BY <2>1 DEF Inv, Clean, Advertised
  <1> QED BY Invariance, <1>1, PTL

=============================================================================
