------------------------ MODULE OffsetManagerProofs -------------------------
(***************************************************************************)
(* Proofs about OffsetManager: for any groups, keys and number of          *)
(* overlapping commits, a group's file ends up with what the map holds,    *)
(* and only a rewrite that was interrupted loses an answered commit.       *)
(***************************************************************************)
EXTENDS OffsetManager, FiniteSetTheorems, TLAPS

-----------------------------------------------------------------------------
(* The inductive invariant.                                                *)

\* h is rewriting the file of g.
Rewrites(h, g) == Rewriting(h) /\ op[h].group = g

BeingRewritten(g) == \E h \in Handlers : Rewrites(h, g)

\* Whoever is past the insertion has its key in the map; a rewrite lists the map
\* as it is, and is at one of its lines.  A broker that is down does nothing.
Progress ==
    /\ \A h \in Handlers :
          /\ op[h].pc \in {"create", "write", "sync"} =>
                \E i \in DOMAIN table[op[h].group] :
                   table[op[h].group][i].key = op[h].line.key
          /\ op[h].pc \in {"insert", "create"} => op[h].pos = 0
          /\ Rewriting(h) => op[h].lines = table[op[h].group]
          /\ op[h].pc = "write" => op[h].pos < Len(op[h].lines)
          /\ op[h].pc = "sync" => op[h].pos = Len(op[h].lines)
    /\ ~up => \A h \in Handlers : op[h].pc = "idle"

\* A file has a key once.
FileKeys ==
    \A g \in Groups : \A i, j \in DOMAIN file[g] :
        file[g][i] # Hole /\ file[g][j] # Hole /\ file[g][i].key = file[g][j].key => i = j

\* While it is rewritten, by however many, a file holds lines of the map, each in
\* its place, and holes.
Placed ==
    \A g \in Groups : BeingRewritten(g) =>
        /\ Len(file[g]) <= Len(table[g])
        /\ \A i \in DOMAIN file[g] : file[g][i] = table[g][i] \/ file[g][i] = Hole

\* h has written its lines since the file was last truncated.
Latest(h, g) ==
    /\ Rewrites(h, g)
    /\ op[h].pos <= Len(file[g])
    /\ \A i \in 1 .. op[h].pos : file[g][i] = table[g][i]

\* Unless the rewrite that truncated the file last failed, it goes on or it is done;
\* and a file that nobody rewrites is the map's, unless a commit is about to.
Current ==
    up => \A g \in Groups \ tainted :
        /\ BeingRewritten(g) => file[g] = table[g] \/ \E h \in Handlers : Latest(h, g)
        /\ ~BeingRewritten(g) =>
              \/ Parse(file[g]) = Lines(table[g])
              \/ \E h \in Handlers : op[h].pc = "create" /\ op[h].group = g

\* The lines hold the answered commits of g.
Holds(g, lines) ==
    \A k \in Keys : \A o \in settled[g][k] : \E l \in lines : l.key = k /\ l.offset = o

\* The map holds them, and so does the file, except while it is rewritten.
Durable ==
    \A g \in Groups \ lost :
        /\ up => Holds(g, Lines(table[g]))
        /\ g \notin tainted /\ ~BeingRewritten(g) => Holds(g, Parse(file[g]))

Inv == TypeOK /\ Progress /\ FileKeys /\ Placed /\ Current /\ Durable

-----------------------------------------------------------------------------
(* Facts about maps and files.                                             *)

Entry == Line \cup {Hole}

\* A map has a key once.
OneEach(s) == \A i, j \in DOMAIN s : s[i].key = s[j].key => i = j

\* The lines of a map are finitely many.
LEMMA LinesFinite ==
    ASSUME NEW S, NEW s \in Seq(S)
    PROVE  IsFiniteSet(Lines(s)) /\ Lines(s) \subseteq S
  <1>1. s \in [1 .. Len(s) -> S] /\ Len(s) \in Nat /\ DOMAIN s = 1 .. Len(s)
    OBVIOUS
  <1>2. IsFiniteSet(1 .. Len(s))
    BY <1>1, FS_Interval
  <1>3. s \in [1 .. Len(s) -> Lines(s)] /\ \A l \in Lines(s) : \E i \in 1 .. Len(s) : s[i] = l
    BY <1>1 DEF Lines
  <1>4. s \in Surjection(1 .. Len(s), Lines(s))
    BY <1>3 DEF Surjection
  <1>5. IsFiniteSet(Lines(s))
    BY <1>2, <1>4, FS_Surjection
  <1> QED BY <1>1, <1>5 DEF Lines

\* A HashMap gives its lines in some order, each once.
LEMMA ListingsSound ==
    ASSUME NEW L \in SUBSET Line, IsFiniteSet(L), \A a, b \in L : a.key = b.key => a = b,
           NEW s \in Listings(L)
    PROVE  s \in Seq(Line) /\ Lines(s) = L /\ OneEach(s)
  <1> DEFINE n == Cardinality(L)
  <1>1. n \in Nat
    BY FS_CardinalityType
  <1>2. s \in [1 .. n -> L] /\ Lines(s) = L
    BY DEF Listings
  <1> HIDE DEF n
  <1>3. \A i, j \in 1 .. n : s[i] = s[j] => i = j
    <2>1. IsFiniteSet(1 .. n) /\ Cardinality(1 .. n) = n
      BY <1>1, FS_Interval
    <2>2. s \in Surjection(1 .. n, L)
      BY <1>2 DEF Lines, Surjection
    <2>3. s \in Injection(1 .. n, L)
      BY <2>1, <2>2, FS_SurjSameCardinalityImpliesInj DEF n
    <2> QED BY <2>3 DEF Injection, IsInjective
  <1>4. OneEach(s)
    BY <1>2, <1>3 DEF OneEach
  <1>5. s \in Seq(Line)
    BY <1>1, <1>2
  <1> QED BY <1>2, <1>4, <1>5

\* HashMap::insert gives the key its line and leaves the others.
LEMMA InsertSound ==
    ASSUME NEW s \in Seq(Line), OneEach(s), NEW line \in Line, NEW t \in Insert(s, line)
    PROVE  /\ t \in Seq(Line) /\ OneEach(t)
           /\ Lines(t) = {l \in Lines(s) : l.key # line.key} \cup {line}
  <1>1. Len(s) \in Nat /\ DOMAIN s = 1 .. Len(s) /\ \A i \in 1 .. Len(s) : s[i] \in Line
    OBVIOUS
  <1>2. CASE \E i \in DOMAIN s : s[i].key = line.key
    <2>1. t = [i \in 1 .. Len(s) |-> IF s[i].key = line.key THEN line ELSE s[i]]
      BY <1>1, <1>2 DEF Insert
    <2>2. t \in Seq(Line) /\ DOMAIN t = 1 .. Len(s)
      BY <1>1, <2>1
    <2>3. \A i \in 1 .. Len(s) : t[i] = (IF s[i].key = line.key THEN line ELSE s[i])
      BY <2>1
    <2>4. \A i \in 1 .. Len(s) : t[i].key = s[i].key
      BY <2>3
    <2>5. OneEach(t)
      BY <1>1, <2>2, <2>4 DEF OneEach
    <2>6. ASSUME NEW l \in Lines(t)
          PROVE  l \in {m \in Lines(s) : m.key # line.key} \cup {line}
      BY <1>1, <2>2, <2>3 DEF Lines
    <2>7. ASSUME NEW l \in Lines(s), l.key # line.key PROVE l \in Lines(t)
      <3>1. PICK i \in 1 .. Len(s) : s[i] = l
        BY <1>1 DEF Lines
      <3>2. t[i] = l
        BY <2>3, <2>7, <3>1
      <3> QED BY <2>2, <3>2 DEF Lines
    <2>8. line \in Lines(t)
      <3>1. PICK i \in 1 .. Len(s) : s[i].key = line.key
        BY <1>1, <1>2
      <3>2. t[i] = line
        BY <2>3, <3>1
      <3> QED BY <2>2, <3>2 DEF Lines
    <2> QED BY <2>2, <2>5, <2>6, <2>7, <2>8
  <1>3. CASE ~\E i \in DOMAIN s : s[i].key = line.key
    <2> DEFINE L == Lines(s) \cup {line}
    <2>1. t \in Listings(L)
      BY <1>3 DEF Insert
    <2>2. IsFiniteSet(Lines(s)) /\ Lines(s) \subseteq Line
      BY LinesFinite
    <2>3. L \in SUBSET Line /\ IsFiniteSet(L)
      BY <2>2, FS_AddElement
    <2>4. \A l \in Lines(s) : l.key # line.key
      BY <1>3 DEF Lines
    <2>5. \A a, b \in Lines(s) : a.key = b.key => a = b
      BY DEF Lines, OneEach
    <2>6. \A a, b \in L : a.key = b.key => a = b
      BY <2>4, <2>5
    <2>7. L = {l \in Lines(s) : l.key # line.key} \cup {line}
      BY <2>4
    <2> HIDE DEF L
    <2> QED BY <2>1, <2>3, <2>6, <2>7, ListingsSound
  <1> QED BY <1>2, <1>3

LEMMA HoleIsNoLine == Hole \notin Line
  BY OffsetManagerAssumption DEF Hole, Line

\* What is loaded from a file are lines of it.
LEMMA ParseSound ==
    ASSUME NEW f \in Seq(Entry)
    PROVE  /\ Parse(f) \subseteq Lines(f) /\ Parse(f) \subseteq Line /\ IsFiniteSet(Parse(f))
           /\ \A l \in Parse(f) : \E i \in DOMAIN f : f[i] = l /\ l # Hole
           /\ f \in Seq(Line) => Parse(f) = Lines(f)
  <1>1. Len(f) \in Nat /\ DOMAIN f = 1 .. Len(f) /\ \A i \in DOMAIN f : f[i] \in Entry
    OBVIOUS
  <1>2. Parse(f) \subseteq Lines(f)
    BY DEF Parse, Lines
  <1>3. \A l \in Parse(f) : \E i \in DOMAIN f : f[i] = l /\ l # Hole
    BY DEF Parse
  <1>4. Parse(f) \subseteq Line
    BY <1>1, <1>3 DEF Entry
  <1>5. IsFiniteSet(Parse(f))
    BY <1>2, LinesFinite, FS_Subset
  <1>6. ASSUME f \in Seq(Line) PROVE Parse(f) = Lines(f)
    <2>1. \A i \in DOMAIN f : f[i] # Hole
      BY <1>6, HoleIsNoLine
    <2>2. \A j \in DOMAIN f : j > 1 => j - 1 \in DOMAIN f
      BY <1>1
    <2> QED BY <2>1, <2>2 DEF Parse, Lines
  <1> QED BY <1>2, <1>3, <1>4, <1>5, <1>6

\* write_all at a position.
LEMMA WriteAtSound ==
    ASSUME NEW f \in Seq(Entry), NEW p \in Nat \ {0}, NEW line \in Line
    PROVE  /\ WriteAt(f, p, line) \in Seq(Entry)
           /\ Len(WriteAt(f, p, line)) = IF p > Len(f) THEN p ELSE Len(f)
           /\ \A i \in DOMAIN WriteAt(f, p, line) : WriteAt(f, p, line)[i] =
                 IF i = p THEN line ELSE IF i > Len(f) THEN Hole ELSE f[i]
  <1> DEFINE n == IF p > Len(f) THEN p ELSE Len(f)
             w == [i \in 1 .. n |-> IF i = p THEN line ELSE IF i > Len(f) THEN Hole ELSE f[i]]
  <1>1. Len(f) \in Nat /\ n \in Nat /\ \A i \in 1 .. Len(f) : f[i] \in Entry
    OBVIOUS
  <1>2. WriteAt(f, p, line) = w
    BY DEF WriteAt
  <1> HIDE DEF n
  <1>3. \A i \in 1 .. n : (IF i = p THEN line ELSE IF i > Len(f) THEN Hole ELSE f[i]) \in Entry
    BY <1>1 DEF Entry
  <1>4. w \in Seq(Entry) /\ Len(w) = n /\ DOMAIN w = 1 .. n
    BY <1>1, <1>3
  <1>5. \A i \in 1 .. n : w[i] = IF i = p THEN line ELSE IF i > Len(f) THEN Hole ELSE f[i]
    OBVIOUS
  <1> HIDE DEF w
  <1> QED BY <1>2, <1>4, <1>5 DEF n

-----------------------------------------------------------------------------
(* The steps.                                                              *)

Commits == [pc : Steps, group : Groups, line : Line, lines : Seq(Line), pos : Nat]

LEMMA IdleFields == Idle.pc = "idle"
  BY DEF Idle

\* A handler that does something has a commit, and the broker is up.
LEMMA Busy ==
    ASSUME Inv, NEW h \in Handlers, op[h].pc # "idle"
    PROVE  op[h] \in Commits /\ up
  BY IdleFields DEF Inv, TypeOK, Progress, Commits

\* The types of the other variables, with names for the sets.
LEMMA Typed ==
    ASSUME Inv
    PROVE  /\ table \in [Groups -> Seq(Line)] /\ \A g \in Groups : OneEach(table[g])
           /\ file \in [Groups -> Seq(Entry)]
           /\ op \in [Handlers -> {Idle} \cup Commits]
           /\ settled \in [Groups -> [Keys -> SUBSET Offsets]]
  BY DEF Inv, TypeOK, OneEach, Entry, Commits

LEMMA InitInv == Init => Inv
  <1> SUFFICES ASSUME Init PROVE Inv
    OBVIOUS
  <1> USE OffsetManagerAssumption, IdleFields DEF Init
  <1>1. TypeOK
    BY DEF TypeOK
  <1>2. Progress
    BY DEF Progress, Rewriting
  <1>3. FileKeys /\ Placed
    BY DEF FileKeys, Placed, BeingRewritten, Rewrites, Rewriting
  <1>4. Current
    BY DEF Current, BeingRewritten, Rewrites, Rewriting, Parse, Lines
  <1>5. Durable
    BY DEF Durable, Holds
  <1> QED BY <1>1, <1>2, <1>3, <1>4, <1>5 DEF Inv

LEMMA ReceiveStep ==
    ASSUME Inv, NEW h \in Handlers, NEW g \in Groups, NEW line \in Line, Receive(h, g, line)
    PROVE  Inv'
  <1> DEFINE r == [pc |-> "insert", group |-> g, line |-> line, lines |-> <<>>, pos |-> 0]
  <1>1. /\ up /\ op[h].pc = "idle" /\ op' = [op EXCEPT ![h] = r] /\ commits' = commits + 1
        /\ UNCHANGED <<table, file, up, settled, tainted, lost, failures, crashes>>
    BY DEF Receive
  <1>2. r \in Commits /\ r.pc = "insert" /\ r.pos = 0
    BY DEF Commits, Steps
  <1> HIDE DEF r
  <1>3. op'[h] = r /\ \A d \in Handlers : d # h => op'[d] = op[d]
    BY <1>1, Typed
  <1>4. TypeOK'
    <2>1. op' \in [Handlers -> {Idle} \cup Commits]
      BY <1>1, <1>2, Typed
    <2> QED BY <1>1, <2>1 DEF Inv, TypeOK, Commits
  <1>5. \A d \in Handlers, x \in Groups : Rewrites(d, x)' <=> Rewrites(d, x)
    BY <1>1, <1>2, <1>3 DEF Rewrites, Rewriting
  <1>6. \A x \in Groups : BeingRewritten(x)' <=> BeingRewritten(x)
    BY <1>5 DEF BeingRewritten
  <1>7. Progress'
    BY <1>1, <1>2, <1>3 DEF Inv, Progress, Rewriting
  <1>8. FileKeys' /\ Placed'
    BY <1>1, <1>6 DEF Inv, FileKeys, Placed
  <1>9. \A d \in Handlers, x \in Groups : Latest(d, x) => Latest(d, x)'
    BY <1>1, <1>3, <1>5 DEF Latest, Rewrites, Rewriting
  <1>10. \A d \in Handlers : op[d].pc = "create" => op'[d] = op[d]
    BY <1>1, <1>3
  <1>11. Current'
    BY <1>1, <1>6, <1>9, <1>10 DEF Inv, Current
  <1>12. Durable'
    BY <1>1, <1>6 DEF Inv, Durable, Holds
  <1> QED BY <1>4, <1>7, <1>8, <1>11, <1>12 DEF Inv

LEMMA UpdateMemoryStep ==
    ASSUME Inv, NEW h \in Handlers, UpdateMemory(h)
    PROVE  Inv'
  <1> DEFINE g == op[h].group
             line == op[h].line
  <1>1. /\ op[h].pc = "insert" /\ WriteLockFree
        /\ settled' = [settled EXCEPT ![g][line.key] = @ \cap {line.offset}]
        /\ op' = [op EXCEPT ![h].pc = "create"]
        /\ UNCHANGED <<file, up, tainted, lost, commits, failures, crashes>>
    BY DEF UpdateMemory
  <1>2. PICK s \in Insert(table[g], line) : table' = [table EXCEPT ![g] = s]
    BY DEF UpdateMemory
  <1>3. op[h] \in Commits /\ up /\ g \in Groups /\ line \in Line /\ op[h].pos = 0
    BY <1>1, Busy DEF Commits, Inv, Progress
  <1>4. line.key \in Keys /\ line.offset \in Offsets
    BY <1>3 DEF Line
  <1>5. /\ op'[h] \in Commits /\ op'[h].pc = "create" /\ op'[h].group = g
        /\ op'[h].line = line /\ op'[h].pos = 0
        /\ \A d \in Handlers : d # h => op'[d] = op[d]
        /\ op' \in [Handlers -> {Idle} \cup Commits]
    <2>1. op'[h] = [op[h] EXCEPT !.pc = "create"]
      BY <1>1, Typed
    <2>2. op'[h] \in Commits /\ op'[h].pc = "create" /\ op'[h].group = g
          /\ op'[h].line = line /\ op'[h].pos = 0
      BY <1>3, <2>1 DEF Commits, Steps
    <2> QED BY <1>1, <2>2, Typed
  <1>6. /\ table[g] \in Seq(Line) /\ OneEach(table[g])
        /\ s \in Seq(Line) /\ OneEach(s)
        /\ Lines(s) = {l \in Lines(table[g]) : l.key # line.key} \cup {line}
    <2>1. table[g] \in Seq(Line) /\ OneEach(table[g])
      BY <1>3, Typed
    <2> QED BY <1>3, <2>1, InsertSound
  <1>7. \A x \in Groups : table'[x] = IF x = g THEN s ELSE table[x]
    BY <1>2, <1>3, Typed
  <1>8. /\ settled' \in [Groups -> [Keys -> SUBSET Offsets]]
        /\ \A x \in Groups, k \in Keys : settled'[x][k] \subseteq settled[x][k]
        /\ settled'[g][line.key] \subseteq {line.offset}
    BY <1>1, <1>3, <1>4, Typed
  <1> HIDE DEF g, line
  <1>9. TypeOK'
    <2>1. table' \in [Groups -> Seq(Line)]
      BY <1>2, <1>3, <1>6, Typed
    <2>2. \A x \in Groups : OneEach(table'[x])
      BY <1>6, <1>7, Typed
    <2> QED BY <1>1, <1>5, <1>8, <2>1, <2>2 DEF Inv, TypeOK, Commits, OneEach
  <1>10. \A x \in Groups : ~BeingRewritten(x) /\ ~BeingRewritten(x)'
    BY <1>1, <1>5 DEF WriteLockFree, BeingRewritten, Rewrites, Rewriting
  <1>11. Progress'
    <2>1. ASSUME NEW d \in Handlers, op'[d].pc \in {"create", "write", "sync"}
          PROVE  \E i \in DOMAIN table'[op'[d].group] :
                    table'[op'[d].group][i].key = op'[d].line.key
      <3>1. \E l \in Lines(s) : l.key = line.key
        BY <1>6
      <3>2. CASE d = h
        BY <3>1, <3>2, <1>3, <1>5, <1>7 DEF Lines
      <3>3. CASE d # h
        <4>1. /\ op[d].group \in Groups /\ op'[d] = op[d]
              /\ \E i \in DOMAIN table[op[d].group] : table[op[d].group][i].key = op[d].line.key
          BY <3>3, <2>1, <1>5, Busy DEF Inv, Progress, Commits
        <4>2. CASE op[d].group # g
          BY <4>1, <4>2, <1>7
        <4>3. CASE op[d].group = g
          <5>1. PICK l \in Lines(table[g]) : l.key = op[d].line.key
            BY <4>1, <4>3 DEF Lines
          <5>2. \E m \in Lines(s) : m.key = op[d].line.key
            BY <5>1, <3>1, <1>6
          <5> QED BY <5>2, <4>1, <4>3, <1>7 DEF Lines
        <4> QED BY <4>2, <4>3
      <3> QED BY <3>2, <3>3
    <2>2. \A d \in Handlers : ~Rewriting(d)'
      BY <1>1, <1>5 DEF WriteLockFree, Rewriting
    <2>3. \A d \in Handlers : op'[d].pc \in {"insert", "create"} => op'[d].pos = 0
      BY <1>5 DEF Inv, Progress
    <2> QED BY <1>1, <1>3, <2>1, <2>2, <2>3 DEF Progress, Rewriting
  <1>12. FileKeys' /\ Placed'
    BY <1>1, <1>10 DEF Inv, FileKeys, Placed
  <1>13. Current'
    <2> SUFFICES ASSUME NEW x \in Groups \ tainted
                 PROVE  \/ Parse(file[x]) = Lines(table'[x])
                        \/ \E d \in Handlers : op'[d].pc = "create" /\ op'[d].group = x
      BY <1>1, <1>10 DEF Current
    <2>1. CASE x = g
      BY <2>1, <1>5
    <2>2. CASE x # g
      <3>1. \/ Parse(file[x]) = Lines(table[x])
            \/ \E d \in Handlers : op[d].pc = "create" /\ op[d].group = x
        BY <1>3, <1>10 DEF Inv, Current
      <3> QED BY <2>2, <3>1, <1>1, <1>5, <1>7
    <2> QED BY <2>1, <2>2
  <1>14. Durable'
    <2> SUFFICES ASSUME NEW x \in Groups \ lost
                 PROVE  /\ Holds(x, Lines(table[x]))'
                        /\ x \notin tainted => Holds(x, Parse(file[x]))'
      BY <1>1, <1>10 DEF Durable
    <2>1. x \notin tainted => Holds(x, Parse(file[x]))'
      BY <1>1, <1>8, <1>10 DEF Inv, Durable, Holds
    <2>2. Holds(x, Lines(table[x]))
      BY <1>3 DEF Inv, Durable
    <2>3. ASSUME NEW k \in Keys, NEW o \in settled'[x][k]
          PROVE  \E l \in Lines(table'[x]) : l.key = k /\ l.offset = o
      <3>1. PICK l \in Lines(table[x]) : l.key = k /\ l.offset = o
        BY <2>2, <1>8 DEF Holds
      <3>2. CASE x # g
        BY <3>1, <3>2, <1>7
      <3>3. CASE x = g /\ k # line.key
        BY <3>1, <3>3, <1>6, <1>7
      <3>4. CASE x = g /\ k = line.key
        BY <3>4, <1>6, <1>7, <1>8
      <3> QED BY <3>2, <3>3, <3>4
    <2> QED BY <2>1, <2>3 DEF Holds
  <1> QED BY <1>9, <1>11, <1>12, <1>13, <1>14 DEF Inv

\* What the invariant says of one group.
GroupInv(x) ==
    /\ \A i, j \in DOMAIN file[x] :
          file[x][i] # Hole /\ file[x][j] # Hole /\ file[x][i].key = file[x][j].key => i = j
    /\ BeingRewritten(x) =>
          /\ Len(file[x]) <= Len(table[x])
          /\ \A i \in DOMAIN file[x] : file[x][i] = table[x][i] \/ file[x][i] = Hole
    /\ (up /\ x \notin tainted /\ BeingRewritten(x)) =>
          file[x] = table[x] \/ \E h \in Handlers : Latest(h, x)
    /\ (up /\ x \notin tainted /\ ~BeingRewritten(x)) =>
          \/ Parse(file[x]) = Lines(table[x])
          \/ \E h \in Handlers : op[h].pc = "create" /\ op[h].group = x
    /\ (x \notin lost /\ up) => Holds(x, Lines(table[x]))
    /\ (x \notin lost /\ x \notin tainted /\ ~BeingRewritten(x)) => Holds(x, Parse(file[x]))

LEMMA ByGroup ==
    /\ Inv => \A x \in Groups : GroupInv(x)
    /\ (TypeOK /\ Progress /\ \A x \in Groups : GroupInv(x))' => Inv'
  <1>1. ASSUME Inv, NEW x \in Groups PROVE GroupInv(x)
    BY <1>1 DEF Inv, GroupInv, FileKeys, Placed, Current, Durable
  <1>2. ASSUME (TypeOK /\ Progress /\ \A x \in Groups : GroupInv(x))' PROVE Inv'
    <2>1. FileKeys' /\ Placed'
      BY <1>2 DEF GroupInv, FileKeys, Placed
    <2>2. Current'
      BY <1>2 DEF GroupInv, Current
    <2>3. Durable'
      BY <1>2 DEF GroupInv, Durable
    <2> QED BY <1>2, <2>1, <2>2, <2>3 DEF Inv
  <1> QED BY <1>1, <1>2

\* The steps of a rewrite of g by h leave the map, and all that is known of the
\* other groups.
RewriteStep(h, g) ==
    /\ \A d \in Handlers : d # h => op'[d] = op[d]
    /\ op[h].pc # "idle" /\ op[h].group = g
    /\ op'[h].pc = "idle" \/ op'[h].group = g
    /\ table' = table /\ up' = up /\ lost' = lost
    /\ \A x \in Groups : x # g => /\ file'[x] = file[x] /\ settled'[x] = settled[x]
                                  /\ x \in tainted' <=> x \in tainted

LEMMA OthersKept ==
    ASSUME NEW h \in Handlers, NEW g \in Groups, RewriteStep(h, g),
           NEW x \in Groups, x # g, GroupInv(x)
    PROVE  GroupInv(x)'
  <1>1. \A d \in Handlers : Rewrites(d, x)' <=> Rewrites(d, x)
    BY DEF RewriteStep, Rewrites, Rewriting
  <1>2. BeingRewritten(x)' <=> BeingRewritten(x)
    BY <1>1 DEF BeingRewritten
  <1>3. \A d \in Handlers : Rewrites(d, x) => d # h /\ op'[d] = op[d]
    BY DEF RewriteStep, Rewrites
  <1>4. \A d \in Handlers : Latest(d, x) => Latest(d, x)'
    BY <1>1, <1>3 DEF RewriteStep, Latest
  <1>5. \A d \in Handlers : op[d].pc = "create" /\ op[d].group = x =>
                               op'[d].pc = "create" /\ op'[d].group = x
    BY DEF RewriteStep
  <1>6. \A L : Holds(x, L) => Holds(x, L)'
    BY DEF RewriteStep, Holds
  <1>7. /\ table'[x] = table[x] /\ file'[x] = file[x] /\ up' = up /\ lost' = lost
        /\ x \in tainted' <=> x \in tainted
    BY DEF RewriteStep
  <1>8. /\ Holds(x, Lines(table[x])) => Holds(x, Lines(table[x]))'
        /\ Holds(x, Parse(file[x])) => Holds(x, Parse(file[x]))'
    BY <1>7 DEF RewriteStep, Holds
  <1> QED BY <1>2, <1>4, <1>5, <1>7, <1>8 DEF GroupInv

\* A step that is not an insertion keeps what the others are about to write.
LEMMA OthersProgress ==
    ASSUME Inv, NEW h \in Handlers, NEW g \in Groups, RewriteStep(h, g),
           op'[h].pc = "idle" \/ (/\ op'[h].line = op[h].line /\ op[h].pc # "insert"
                                  /\ Rewriting(h)' => op'[h].lines = table[g]
                                  /\ op'[h].pc \in {"insert", "create"} => op'[h].pos = 0
                                  /\ op'[h].pc = "write" => op'[h].pos < Len(op'[h].lines)
                                  /\ op'[h].pc = "sync" => op'[h].pos = Len(op'[h].lines))
    PROVE  Progress'
  <1>1. up /\ up'
    BY Busy DEF RewriteStep
  <1>2. op[h].pc \in Steps
    BY Busy DEF RewriteStep, Commits
  <1>3. ASSUME NEW d \in Handlers, d # h
        PROVE  /\ op'[d].pc \in {"create", "write", "sync"} =>
                     \E i \in DOMAIN table'[op'[d].group] :
                        table'[op'[d].group][i].key = op'[d].line.key
               /\ op'[d].pc \in {"insert", "create"} => op'[d].pos = 0
               /\ Rewriting(d)' => op'[d].lines = table'[op'[d].group]
               /\ op'[d].pc = "write" => op'[d].pos < Len(op'[d].lines)
               /\ op'[d].pc = "sync" => op'[d].pos = Len(op'[d].lines)
    <2>1. op'[d] = op[d] /\ table' = table
      BY <1>3 DEF RewriteStep
    <2> QED BY <2>1 DEF Inv, Progress, Rewriting
  <1>4. CASE op'[h].pc = "idle"
    BY <1>1, <1>3, <1>4 DEF Progress, Rewriting
  <1>5. CASE op'[h].pc # "idle"
    <2>1. op'[h].group = g /\ table' = table /\ op[h].group = g
      BY <1>5 DEF RewriteStep
    <2>2. \E i \in DOMAIN table[g] : table[g][i].key = op[h].line.key
      BY <1>2, <1>5, <2>1 DEF Inv, Progress, RewriteStep, Steps
    <2> QED BY <1>1, <1>3, <1>5, <2>1, <2>2 DEF Progress, Rewriting
  <1> QED BY <1>4, <1>5

\* A file with the map's lines, each in its place, has a key once.
LEMMA PlacedOnce ==
    ASSUME NEW t \in Seq(Line), OneEach(t), NEW f \in Seq(Entry), Len(f) <= Len(t),
           \A i \in DOMAIN f : f[i] = t[i] \/ f[i] = Hole
    PROVE  \A i, j \in DOMAIN f :
               f[i] # Hole /\ f[j] # Hole /\ f[i].key = f[j].key => i = j
  <1>1. \A i \in DOMAIN f : i \in DOMAIN t
    OBVIOUS
  <1> QED BY <1>1 DEF OneEach

LEMMA CreateFileStep ==
    ASSUME Inv, NEW h \in Handlers, CreateFile(h)
    PROVE  Inv'
  <1>0. PICK g \in Groups : g = op[h].group
    BY Busy DEF CreateFile, Commits
  <1>1. /\ op[h].pc = "create"
        /\ file' = [file EXCEPT ![g] = <<>>]
        /\ op' = [op EXCEPT ![h].pc = "write", ![h].lines = table[g]]
        /\ tainted' = tainted \ {g}
        /\ UNCHANGED <<table, up, settled, lost, commits, failures, crashes>>
    BY <1>0 DEF CreateFile
  <1>2. op[h] \in Commits /\ up /\ g \in Groups /\ op[h].pos = 0
    BY <1>0, <1>1, Busy DEF Commits, Inv, Progress
  <1>3. table[g] \in Seq(Line) /\ Len(table[g]) \in Nat /\ Len(table[g]) > 0
    <2>1. \E i \in DOMAIN table[g] : table[g][i].key = op[h].line.key
      BY <1>0, <1>1 DEF Inv, Progress
    <2> QED BY <1>2, <2>1, Typed
  <1>4. op'[h] = [op[h] EXCEPT !.pc = "write", !.lines = table[g]]
    BY <1>1, Typed
  <1>5. /\ op'[h] \in Commits /\ op'[h].pc = "write" /\ op'[h].group = g
        /\ op'[h].line = op[h].line /\ op'[h].pos = 0 /\ op'[h].lines = table[g]
    BY <1>0, <1>2, <1>3, <1>4 DEF Commits, Steps
  <1>6. file' \in [Groups -> Seq(Entry)] /\ file'[g] = <<>>
    BY <1>1, <1>2, Typed
  <1>7. RewriteStep(h, g)
    BY <1>0, <1>1, <1>2, <1>5, Typed DEF RewriteStep
  <1>8. TypeOK'
    <2>1. op' \in [Handlers -> {Idle} \cup Commits]
      BY <1>1, <1>5, Typed
    <2> QED BY <1>1, <1>6, <2>1 DEF Inv, TypeOK, Commits, Entry
  <1>9. Progress'
    BY <1>1, <1>2, <1>3, <1>5, <1>7, OthersProgress
  <1>10. Latest(h, g)' /\ BeingRewritten(g)'
    <2>1. Rewrites(h, g)'
      BY <1>5 DEF Rewrites, Rewriting
    <2> QED BY <1>5, <1>6, <2>1 DEF Latest, BeingRewritten
  <1>11. GroupInv(g)'
    <2>1. (g \notin lost /\ up)' => Holds(g, Lines(table[g]))'
      BY <1>1, <1>2, ByGroup DEF GroupInv, Holds
    <2>2. Len(file'[g]) <= Len(table'[g])
      BY <1>1, <1>3, <1>6
    <2> QED BY <1>6, <1>10, <2>1, <2>2 DEF GroupInv
  <1> QED BY <1>2, <1>7, <1>8, <1>9, <1>11, ByGroup, OthersKept

LEMMA WriteLineStep ==
    ASSUME Inv, NEW h \in Handlers, WriteLine(h)
    PROVE  Inv'
  <1>0. PICK g \in Groups : g = op[h].group
    BY Busy DEF WriteLine, Commits
  <1>p. PICK p : p = op[h].pos + 1
    OBVIOUS
  <1> DEFINE step == IF LastLine(op[h].lines, p) THEN "sync" ELSE "write"
  <1>1. /\ op[h].pc = "write"
        /\ file' = [file EXCEPT ![g] = WriteAt(@, p, op[h].lines[p])]
        /\ op' = [op EXCEPT ![h].pos = p, ![h].pc = step]
        /\ UNCHANGED <<table, up, settled, tainted, lost, commits, failures, crashes>>
    BY <1>0, <1>p DEF WriteLine
  <1>2. op[h] \in Commits /\ up /\ g \in Groups /\ op[h].pos \in Nat
    BY <1>1, Busy DEF Commits
  <1>3. /\ table[g] \in Seq(Line) /\ OneEach(table[g])
        /\ op[h].lines = table[g] /\ op[h].pos < Len(table[g])
    BY <1>0, <1>1, <1>2, Typed DEF Inv, Progress, Rewriting
  <1>4. p \in Nat \ {0} /\ p \in 1 .. Len(table[g]) /\ table[g][p] \in Line
    BY <1>2, <1>3, <1>p
  <1>5. op'[h] = [op[h] EXCEPT !.pos = p, !.pc = step]
    BY <1>1, Typed
  <1>6. /\ op'[h] \in Commits /\ op'[h].pc \in {"write", "sync"} /\ op'[h].group = g
        /\ op'[h].line = op[h].line /\ op'[h].pos = p /\ op'[h].lines = table[g]
        /\ op'[h].pc = "sync" <=> p = Len(table[g])
    <2>1. step \in Steps /\ step \in {"write", "sync"} /\ (step = "sync" <=> p = Len(table[g]))
      BY <1>3 DEF LastLine, Steps
    <2> HIDE DEF step
    <2> QED BY <1>0, <1>2, <1>3, <1>4, <1>5, <2>1 DEF Commits
  <1>7. file[g] \in Seq(Entry) /\ Len(file[g]) \in Nat
    BY <1>2, Typed
  <1>8. PICK w : w = WriteAt(file[g], p, table[g][p])
    OBVIOUS
  <1>9. file'[g] = w /\ \A x \in Groups : x # g => file'[x] = file[x]
    BY <1>1, <1>2, <1>3, <1>8, Typed
  <1> HIDE DEF step
  <1>10. /\ w \in Seq(Entry) /\ Len(w) = IF p > Len(file[g]) THEN p ELSE Len(file[g])
         /\ DOMAIN w = 1 .. Len(w)
         /\ \A i \in 1 .. Len(w) : w[i] = IF i = p THEN table[g][p]
                                          ELSE IF i > Len(file[g]) THEN Hole ELSE file[g][i]
    <2>1. PICK line \in Line, f \in Seq(Entry) : line = table[g][p] /\ f = file[g]
      BY <1>4, <1>7
    <2>2. /\ w \in Seq(Entry) /\ Len(w) = IF p > Len(f) THEN p ELSE Len(f)
          /\ \A i \in DOMAIN w : w[i] = IF i = p THEN line ELSE IF i > Len(f) THEN Hole ELSE f[i]
      <3>1. /\ WriteAt(f, p, line) \in Seq(Entry)
            /\ Len(WriteAt(f, p, line)) = IF p > Len(f) THEN p ELSE Len(f)
            /\ \A i \in DOMAIN WriteAt(f, p, line) : WriteAt(f, p, line)[i] =
                  IF i = p THEN line ELSE IF i > Len(f) THEN Hole ELSE f[i]
        <4>1. f \in Seq(Entry) /\ p \in Nat \ {0} /\ line \in Line
          BY <1>4
        <4> QED BY ONLY <4>1, WriteAtSound, Zenon
      <3>2. w = WriteAt(f, p, line)
        BY <1>8, <2>1
      <3> QED BY ONLY <3>1, <3>2, Zenon
    <2>3. DOMAIN w = 1 .. Len(w)
      BY <2>2
    <2> QED BY <2>1, <2>2, <2>3
  <1>11. file' \in [Groups -> Seq(Entry)]
    BY <1>1, <1>2, <1>3, <1>8, <1>10, Typed
  <1>12. RewriteStep(h, g)
    BY <1>0, <1>1, <1>2, <1>6, <1>9, Typed DEF RewriteStep
  <1>13. p = op[h].pos + 1 /\ Rewrites(h, g) /\ Rewrites(h, g)'
    BY <1>0, <1>1, <1>6, <1>p DEF Rewrites, Rewriting
  <1>14. TypeOK'
    <2>1. op' \in [Handlers -> {Idle} \cup Commits]
      BY <1>1, <1>6, Typed
    <2> QED BY <1>1, <1>11, <2>1 DEF Inv, TypeOK, Commits, Entry
  <1>15. Progress'
    <2>1. op'[h].pc = "write" => p < Len(table[g])
      BY <1>3, <1>4, <1>6
    <2> QED BY <1>1, <1>2, <1>6, <1>12, <2>1, OthersProgress
  <1>16. BeingRewritten(g) /\ BeingRewritten(g)'
    BY <1>13 DEF BeingRewritten
  <1>17. /\ Len(file[g]) <= Len(table[g])
         /\ \A i \in DOMAIN file[g] : file[g][i] = table[g][i] \/ file[g][i] = Hole
    BY <1>2, <1>16, ByGroup DEF GroupInv
  <1>18. Len(w) <= Len(table[g]) /\ \A i \in DOMAIN w : w[i] = table[g][i] \/ w[i] = Hole
    BY <1>4, <1>7, <1>10, <1>17
  <1>19. \A i, j \in DOMAIN w : w[i] # Hole /\ w[j] # Hole /\ w[i].key = w[j].key => i = j
    BY <1>3, <1>10, <1>18, PlacedOnce
  <1>20. ASSUME file[g] = table[g] PROVE w = table[g]
    <2>1. Len(w) = Len(table[g])
      BY <1>4, <1>10, <1>20
    <2>2. \A i \in 1 .. Len(w) : w[i] = table[g][i]
      BY <1>10, <1>20, <2>1
    <2> QED BY <1>3, <1>10, <2>1, <2>2
  <1>21. ASSUME NEW d \in Handlers, Latest(d, g) PROVE Latest(d, g)'
    <2>1. CASE d = h
      <3>1. \A i \in 1 .. op[h].pos : i \in 1 .. Len(file[g]) /\ file[g][i] = table[g][i]
        BY <1>2, <1>7, <1>21, <2>1 DEF Latest
      <3>2. p <= Len(w) /\ \A i \in 1 .. p : w[i] = table[g][i]
        BY <1>2, <1>4, <1>7, <1>10, <1>13, <3>1
      <3> QED BY <1>1, <1>6, <1>9, <1>13, <2>1, <3>2 DEF Latest
    <2>2. CASE d # h
      <3>1. op'[d] = op[d] /\ Rewrites(d, g)'
        BY <1>12, <1>21, <2>2 DEF RewriteStep, Latest, Rewrites, Rewriting
      <3>2. op[d].pos \in Nat
        BY <1>21, Busy DEF Latest, Rewrites, Rewriting, Commits
      <3>3. op[d].pos <= Len(file[g]) /\ \A i \in 1 .. op[d].pos : file[g][i] = table[g][i]
        BY <1>21 DEF Latest
      <3>4. op[d].pos <= Len(w) /\ \A i \in 1 .. op[d].pos : w[i] = table[g][i]
        BY <1>4, <1>7, <1>10, <3>2, <3>3
      <3> QED BY <1>1, <1>9, <3>1, <3>4 DEF Latest
    <2> QED BY <2>1, <2>2
  <1>22. GroupInv(g)'
    <2>1. (g \notin lost /\ up)' => Holds(g, Lines(table[g]))'
      BY <1>1, <1>2, ByGroup DEF GroupInv, Holds
    <2>2. (up /\ g \notin tainted)' =>
             file'[g] = table'[g] \/ \E d \in Handlers : Latest(d, g)'
      BY <1>1, <1>2, <1>9, <1>16, <1>20, <1>21, ByGroup DEF GroupInv
    <2> QED BY <1>1, <1>9, <1>16, <1>18, <1>19, <2>1, <2>2 DEF GroupInv
  <1> QED BY <1>2, <1>12, <1>14, <1>15, <1>22, ByGroup, OthersKept

LEMMA SyncFileStep ==
    ASSUME Inv, NEW h \in Handlers, SyncFile(h)
    PROVE  Inv'
  <1>1. PICK g \in Groups : g = op[h].group
    BY Busy DEF SyncFile, Commits
  <1>2. PICK line \in Line : line = op[h].line
    BY Busy DEF SyncFile, Commits
  <1>3. /\ op[h].pc = "sync" /\ op' = [op EXCEPT ![h] = Idle]
        /\ settled' = IF FetchOffset(g, line.key) = line.offset
                      THEN [settled EXCEPT ![g][line.key] = {line.offset}] ELSE settled
        /\ UNCHANGED <<table, file, up, tainted, lost, commits, failures, crashes>>
    BY <1>1, <1>2 DEF SyncFile
  <1>4. /\ up /\ op[h].pos \in Nat /\ table[g] \in Seq(Line) /\ OneEach(table[g])
        /\ file[g] \in Seq(Entry) /\ op[h].pos = Len(table[g])
    BY <1>1, <1>3, Busy, Typed DEF Commits, Inv, Progress, Rewriting
  <1>5. op'[h].pc = "idle" /\ op' \in [Handlers -> {Idle} \cup Commits]
        /\ \A d \in Handlers : d # h => op'[d] = op[d]
    BY <1>3, Typed, IdleFields
  <1>6. line.key \in Keys /\ line.offset \in Offsets
    BY DEF Line
  <1>7. /\ settled' \in [Groups -> [Keys -> SUBSET Offsets]]
        /\ \A x \in Groups, k \in Keys :
              \/ settled'[x][k] = settled[x][k]
              \/ /\ x = g /\ k = line.key /\ settled'[x][k] = {line.offset}
                 /\ FetchOffset(g, line.key) = line.offset
    BY <1>3, <1>6, Typed
  <1>8. \A x \in Groups : x # g => settled'[x] = settled[x]
    BY <1>3, <1>6, Typed
  <1>9. RewriteStep(h, g)
    BY <1>1, <1>3, <1>5, <1>8 DEF RewriteStep
  <1>10. TypeOK'
    BY <1>3, <1>5, <1>7 DEF Inv, TypeOK, Commits
  <1>11. Progress'
    BY <1>5, <1>9, OthersProgress
  <1>12. FetchOffset(g, line.key) = line.offset => line \in Lines(table[g])
    <2>1. \E i \in DOMAIN table[g] : table[g][i].key = line.key
      BY <1>1, <1>2, <1>3 DEF Inv, Progress
    <2>2. PICK i \in DOMAIN table[g] :
             table[g][i].key = line.key /\ FetchOffset(g, line.key) = table[g][i].offset
      BY <2>1 DEF FetchOffset
    <2>3. table[g][i] \in Line
      BY <1>4
    <2>4. table[g][i].offset = line.offset => table[g][i] = line
      BY <2>2, <2>3 DEF Line
    <2> QED BY <2>2, <2>4 DEF Lines
  <1>13. Holds(g, Lines(table[g])) => Holds(g, Lines(table[g]))'
    BY <1>3, <1>7, <1>12 DEF Holds
  <1>14. BeingRewritten(g)
    BY <1>1, <1>3 DEF BeingRewritten, Rewrites, Rewriting
  <1>15. /\ Len(file[g]) <= Len(table[g])
         /\ \A i \in DOMAIN file[g] : file[g][i] = table[g][i] \/ file[g][i] = Hole
    BY <1>14, ByGroup DEF GroupInv
  <1>16. Latest(h, g) => file[g] = table[g]
    BY <1>4, <1>15 DEF Latest
  <1>17. \A d \in Handlers : d # h /\ Latest(d, g) => Latest(d, g)' /\ BeingRewritten(g)'
    BY <1>3, <1>5 DEF Latest, BeingRewritten, Rewrites, Rewriting
  <1>18. g \notin tainted => file[g] = table[g] \/ \E d \in Handlers : Latest(d, g)
    BY <1>4, <1>14, ByGroup DEF GroupInv
  <1>19. file[g] = table[g] => Parse(file[g]) = Lines(table[g])
    BY <1>4, ParseSound
  <1>20. GroupInv(g)'
    <2>1. (g \notin lost)' => Holds(g, Lines(table[g]))'
      BY <1>3, <1>4, <1>13, ByGroup DEF GroupInv
    <2>2. (g \notin tainted)' =>
             \/ file[g] = table[g]
             \/ BeingRewritten(g)' /\ \E d \in Handlers : Latest(d, g)'
      BY <1>3, <1>16, <1>17, <1>18
    <2>3. (g \notin tainted /\ ~BeingRewritten(g))' => Parse(file'[g]) = Lines(table'[g])
      BY <1>3, <1>19, <2>2
    <2>4. (g \notin lost /\ g \notin tainted /\ ~BeingRewritten(g))' => Holds(g, Parse(file[g]))'
      BY <1>3, <2>1, <2>3 DEF Holds
    <2>5. \A i, j \in DOMAIN file[g] : file[g][i] # Hole /\ file[g][j] # Hole
                                       /\ file[g][i].key = file[g][j].key => i = j
      BY DEF Inv, FileKeys
    <2> QED BY <1>3, <1>15, <2>1, <2>2, <2>3, <2>4, <2>5 DEF GroupInv
  <1> QED BY <1>9, <1>10, <1>11, <1>20, ByGroup, OthersKept

LEMMA PersistFailsStep ==
    ASSUME Inv, NEW h \in Handlers, PersistFails(h)
    PROVE  Inv'
  <1>1. PICK g \in Groups : g = op[h].group
    BY Busy DEF PersistFails, Commits
  <1>2. /\ op[h].pc # "idle" /\ op' = [op EXCEPT ![h] = Idle] /\ failures' = failures + 1
        /\ tainted' = tainted \cup {g}
        /\ UNCHANGED <<table, file, up, settled, lost, commits, crashes>>
    BY <1>1 DEF PersistFails
  <1>3. op'[h].pc = "idle" /\ op' \in [Handlers -> {Idle} \cup Commits]
        /\ \A d \in Handlers : d # h => op'[d] = op[d]
    BY <1>2, Typed, IdleFields
  <1>4. RewriteStep(h, g)
    BY <1>1, <1>2, <1>3 DEF RewriteStep
  <1>5. TypeOK'
    BY <1>2, <1>3 DEF Inv, TypeOK, Commits
  <1>6. Progress'
    BY <1>3, <1>4, OthersProgress
  <1>7. BeingRewritten(g)' => BeingRewritten(g)
    BY <1>3 DEF BeingRewritten, Rewrites, Rewriting
  <1>8. GroupInv(g)'
    <2>1. (g \notin lost /\ up)' => Holds(g, Lines(table[g]))'
      BY <1>2, ByGroup DEF GroupInv, Holds
    <2>2. g \in tainted'
      BY <1>2
    <2> QED BY <1>2, <1>7, <2>1, <2>2, ByGroup DEF GroupInv
  <1> QED BY <1>4, <1>5, <1>6, <1>8, ByGroup, OthersKept

LEMMA CrashStep ==
    ASSUME Inv, Crash
    PROVE  Inv'
  <1>1. /\ crashes' = crashes + 1 /\ up' = FALSE /\ op' = [h \in Handlers |-> Idle]
        /\ table' = [g \in Groups |-> <<>>]
        /\ tainted' = tainted \cup {op[h].group : h \in {i \in Handlers : Rewriting(i)}}
        /\ UNCHANGED <<file, settled, lost, commits, failures>>
    BY DEF Crash
  <1>2. \A h \in Handlers : op'[h].pc = "idle"
    BY <1>1, IdleFields
  <1>3. TypeOK'
    <2>1. tainted' \subseteq Groups
      <3>1. \A h \in Handlers : Rewriting(h) => op[h].group \in Groups
        BY Busy DEF Rewriting, Commits
      <3> QED BY <1>1, <3>1 DEF Inv, TypeOK
    <2>2. table' \in [Groups -> Seq(Line)] /\ \A g \in Groups : OneEach(table'[g])
      BY <1>1 DEF OneEach
    <2>3. op' \in [Handlers -> {Idle} \cup Commits]
      BY <1>1
    <2>4. up' \in BOOLEAN
      BY <1>1
    <2>5. /\ crashes' \in Nat /\ lost' \subseteq Groups
          /\ commits' \in Nat /\ failures' \in Nat
          /\ file' \in [Groups -> Seq(Entry)]
          /\ settled' \in [Groups -> [Keys -> SUBSET Offsets]]
      BY <1>1 DEF Inv, TypeOK, Entry
    <2> QED BY <2>1, <2>2, <2>3, <2>4, <2>5 DEF TypeOK, OneEach, Commits, Entry
  <1>4. Progress'
    BY <1>1, <1>2 DEF Progress, Rewriting
  <1>5. ASSUME NEW x \in Groups PROVE GroupInv(x)'
    <2>1. ~BeingRewritten(x)'
      BY <1>2 DEF BeingRewritten, Rewrites, Rewriting
    <2>2. x \notin tainted' => x \notin tainted /\ ~BeingRewritten(x)
      BY <1>1 DEF BeingRewritten, Rewrites
    <2>3. (x \notin lost /\ x \notin tainted)' => Holds(x, Parse(file[x]))'
      BY <1>1, <2>2, ByGroup DEF GroupInv, Holds
    <2>4. GroupInv(x)
      BY ByGroup
    <2> QED BY <1>1, <2>1, <2>3, <2>4 DEF GroupInv
  <1> QED BY <1>3, <1>4, <1>5, ByGroup

LEMMA LoadStep ==
    ASSUME Inv, Load
    PROVE  Inv'
  <1>1. /\ ~up /\ up' = TRUE /\ tainted' = {} /\ lost' = lost \cup tainted
        /\ table' \in [Groups -> UNION {Listings(Parse(file[g])) : g \in Groups}]
        /\ \A g \in Groups : table'[g] \in Listings(Parse(file[g]))
        /\ UNCHANGED <<file, op, settled, commits, failures, crashes>>
    BY DEF Load
  <1>2. \A h \in Handlers : op[h].pc = "idle" /\ op'[h].pc = "idle"
    BY <1>1 DEF Inv, Progress
  <1>3. ASSUME NEW g \in Groups
        PROVE  table'[g] \in Seq(Line) /\ Lines(table'[g]) = Parse(file[g]) /\ OneEach(table'[g])
    <2>1. file[g] \in Seq(Entry)
      BY Typed
    <2>2. /\ Parse(file[g]) \in SUBSET Line /\ IsFiniteSet(Parse(file[g]))
          /\ \A l \in Parse(file[g]) : \E i \in DOMAIN file[g] : file[g][i] = l /\ l # Hole
      BY <2>1, ParseSound
    <2>3. \A a, b \in Parse(file[g]) : a.key = b.key => a = b
      BY <2>2 DEF Inv, FileKeys
    <2>4. table'[g] \in Listings(Parse(file[g]))
      BY <1>1
    <2> QED BY <2>2, <2>3, <2>4, ListingsSound
  <1>4. TypeOK'
    <2>1. table' \in [Groups -> Seq(Line)]
      BY <1>1, <1>3
    <2> QED BY <1>1, <1>3, <2>1 DEF Inv, TypeOK, OneEach
  <1>5. Progress'
    BY <1>1, <1>2 DEF Progress, Rewriting
  <1>6. ASSUME NEW x \in Groups PROVE GroupInv(x)'
    <2>1. ~BeingRewritten(x) /\ ~BeingRewritten(x)'
      BY <1>2 DEF BeingRewritten, Rewrites, Rewriting
    <2>2. GroupInv(x)
      BY ByGroup
    <2>3. x \notin lost' => Holds(x, Parse(file[x]))'
      BY <1>1, <2>1, <2>2 DEF GroupInv, Holds
    <2>4. x \notin lost' => Holds(x, Lines(table[x]))'
      BY <1>1, <1>3, <2>3 DEF Holds
    <2> QED BY <1>1, <1>3, <2>1, <2>2, <2>3, <2>4 DEF GroupInv
  <1> QED BY <1>4, <1>5, <1>6, ByGroup

LEMMA StutterStep ==
    ASSUME Inv, UNCHANGED vars
    PROVE  Inv'
  <1> USE DEF vars
  <1>1. TypeOK' /\ Progress'
    BY DEF Inv, TypeOK, Progress, Rewriting
  <1>2. \A x \in Groups : GroupInv(x)'
    BY ByGroup DEF GroupInv, BeingRewritten, Latest, Rewrites, Rewriting, Holds
  <1> QED BY <1>1, <1>2, ByGroup

LEMMA NextInv == Inv /\ [Next]_vars => Inv'
  <1> SUFFICES ASSUME Inv, [Next]_vars PROVE Inv'
    OBVIOUS
  <1>1. CASE \E h \in Handlers :
                \/ \E g \in Groups, line \in Line : Receive(h, g, line)
                \/ UpdateMemory(h) \/ CreateFile(h) \/ WriteLine(h) \/ SyncFile(h)
                \/ PersistFails(h)
    BY <1>1, ReceiveStep, UpdateMemoryStep, CreateFileStep, WriteLineStep, SyncFileStep,
       PersistFailsStep
  <1>2. CASE Crash
    BY <1>2, CrashStep
  <1>3. CASE Load
    BY <1>3, LoadStep
  <1>4. CASE Wait \/ UNCHANGED vars
    BY <1>4, StutterStep DEF Wait
  <1> QED BY <1>1, <1>2, <1>3, <1>4 DEF Next

LEMMA Invariance == Spec => []Inv
  <1> QED BY InitInv, NextInv, PTL DEF Spec

-----------------------------------------------------------------------------
(* The theorems.                                                           *)

\* TypeOK is an invariant: among other things the map of a group has a key once,
\* after any insertions and after it was loaded from any file that rewrites,
\* complete or cut off, left.
THEOREM OffsetsTypeCorrect == Spec => []TypeOK
  <1>1. Inv => TypeOK
    BY DEF Inv
  <1> QED BY Invariance, <1>1, PTL

\* FileMatchesMemory is an invariant: however many persist_group calls of a group
\* overlap, each with a handle of its own, its file holds the map when the last of
\* them is over, unless one failed and none has begun since.
THEOREM FileEndsUpWithMemory == Spec => []FileMatchesMemory
  <1>1. Inv => FileMatchesMemory
    <2> SUFFICES ASSUME Inv, NEW g \in Groups, up, g \notin tainted, ~Persisting(g)
                 PROVE  Parse(file[g]) = Lines(table[g])
      BY DEF FileMatchesMemory
    <2>1. ~BeingRewritten(g)
      BY DEF Persisting, BeingRewritten, Rewrites, Rewriting
    <2> QED BY <2>1 DEF Inv, Current, Persisting
  <1> QED BY Invariance, <1>1, PTL

\* LostOnlyByInterruption is an invariant: a commit that was answered with Ok, and
\* that no later commit of its key replaced, is what FetchOffset returns, unless the
\* broker loaded the group from a file whose rewrite failed or was cut off.
THEOREM OnlyInterruptionLoses == Spec => []LostOnlyByInterruption
  <1>1. Inv => LostOnlyByInterruption
    <2> SUFFICES ASSUME Inv, up, NEW g \in Groups \ lost, NEW k \in Keys,
                        NEW o \in settled[g][k]
                 PROVE  FetchOffset(g, k) = o
      BY DEF LostOnlyByInterruption, Kept
    <2>1. PICK i \in DOMAIN table[g] : table[g][i].key = k /\ table[g][i].offset = o
      BY DEF Inv, Durable, Holds, Lines
    <2>2. \A j \in DOMAIN table[g] : table[g][j].key = k => j = i
      BY <2>1, Typed DEF OneEach
    <2> QED BY <2>1, <2>2 DEF FetchOffset
  <1> QED BY Invariance, <1>1, PTL

=============================================================================
