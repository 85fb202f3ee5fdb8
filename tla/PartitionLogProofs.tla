------------------------- MODULE PartitionLogProofs -------------------------
(***************************************************************************)
(* Theorems about PartitionLog, for all values of its constants: type      *)
(* correctness, the disjointness of the segments' offset ranges through    *)
(* any I/O errors, crashes and rescans, the durability of what was         *)
(* acknowledged, that no offset is given to two messages, that the index   *)
(* points at what it says, what a fetch answers, and that the files, read  *)
(* one after the other, implement AbstractLog.                             *)
(***************************************************************************)
EXTENDS PartitionLogRefinement, WellFoundedInduction, SequenceTheorems, TLAPS

-----------------------------------------------------------------------------
(* The inductive invariants.                                               *)

\* How the writer, the list of segments and the status constrain each other:
\* nothing is open while the broker is down, the segment being written is the
\* active one and has room, and a batch being written is not used up.
Control ==
    /\ status # "up" => segs = <<>> /\ writer.pc = "idle"
    /\ status = "up" => active \in DOMAIN segs
    /\ writer.pc \in {"write", "index", "sync"} =>
          writer.base = active /\ segs[active].size < MaxSize
    /\ writer.pc = "create_index" =>
          /\ writer.base = segs[active].next
          /\ writer.base \in DOMAIN disk
          /\ segs[active].size >= MaxSize
    /\ writer.pc \in {"create_index", "write", "index"} => writer.batch # <<>>
    /\ \E top \in DOMAIN disk : \A b \in DOMAIN disk : b <= top

TypeInv == TypeOK /\ Control

\* The first k + 1 records of the log can be decoded one after the other.
InPrefix(log, k) == \A i \in 0 .. k : Decodes(log, 2 * i)

\* The offsets a scan of the log from its start meets are in lo .. hi - 1 and
\* never decrease.
Ordered(log, lo) ==
    \A k \in 0 .. Len(log) : InPrefix(log, k) =>
        /\ lo <= log[2 * k + 1].offset
        /\ \A j \in 0 .. k : log[2 * j + 1].offset <= log[2 * k + 1].offset

Below(log, hi) ==
    \A k \in 0 .. Len(log) : InPrefix(log, k) => log[2 * k + 1].offset < hi

\* On disk: what can be scanned from a log file starts at its base offset, is
\* ordered, and ends before the base of every later file.
DiskOrder ==
    /\ \A b \in DOMAIN disk : Ordered(disk[b].log, b)
    /\ \A b, c \in DOMAIN disk : b < c => Below(disk[b].log, c)

\* In memory: next_offset of the active segment is past what can be scanned of
\* its file, except for a record whose index entry failed, and then the
\* segment has room; a log file that is not listed is the empty file that a
\* failed rotation left at next_offset.
OpenOrder ==
    status = "up" =>
        /\ \A b \in DOMAIN segs : b <= active
        /\ segs[active].next >= active
        /\ segs[active].size > 0 \/ writer.pc = "sync" => segs[active].next > active
        /\ Below(disk[active].log, segs[active].next + 1)
        /\ segs[active].size >= MaxSize \/ writer.pc = "sync" =>
              Below(disk[active].log, segs[active].next)
        /\ \A c \in DOMAIN disk \ DOMAIN segs :
              /\ disk[c].log = <<>>
              /\ c = segs[active].next
              /\ segs[active].size >= MaxSize

OrderInv == DiskOrder /\ OpenOrder /\ SegmentsDisjoint

\* What the append in progress has written is whole in the file it writes, and
\* what is synced is in the file.
DurableInv ==
    /\ \A b \in DOMAIN disk : disk[b].synced <= Len(disk[b].log)
    /\ writer.pc = "create_index" => writer.done = <<>>
    /\ writer.pc \in {"write", "index", "sync"} =>
          \A i \in DOMAIN writer.done :
              Holds(disk[active].log, Len(disk[active].log), writer.done[i])
    /\ writer.pc = "index" =>
          Holds(disk[active].log, Len(disk[active].log),
                [offset |-> segs[active].next, msg |-> Head(writer.batch)])
    /\ AckedDurable

-----------------------------------------------------------------------------
(* Files: decoding, scanning, appending and truncating.                    *)

\* Every non-empty set of natural numbers has a least element.
LEMMA LeastNatural ==
    ASSUME NEW S \in SUBSET Nat, S # {}
    PROVE  \E x \in S : \A y \in S : x <= y
<1>1. \E x \in S : \A y \in S : ~(<<y, x>> \in OpToRel(<, Nat))
  BY NatLessThanWellFounded, WFMin
<1>2. OpToRel(<, Nat) = {ss \in Nat \X Nat : ss[1] < ss[2]}
  BY DEF OpToRel
<1>3. \A x, y \in Nat : y < x => <<y, x>> \in {ss \in Nat \X Nat : ss[1] < ss[2]}
  OBVIOUS
<1>4. PICK x \in S : \A y \in S : ~(<<y, x>> \in {ss \in Nat \X Nat : ss[1] < ss[2]})
  BY <1>1, <1>2, Zenon
<1>5. \A y \in S : ~(y < x)
  BY <1>3, <1>4, Zenon
<1>. QED  BY <1>5

\* The number of records a cursor decodes is well defined: the CHOOSE of
\* Decodable has a witness in every file, from every position.
LEMMA DecodableExists ==
    ASSUME NEW log \in Seq(Cell), NEW p \in Nat
    PROVE  /\ Decodable(log, p) \in 0 .. Len(log)
           /\ ~Decodes(log, p + 2 * Decodable(log, p))
           /\ \A i \in 0 .. Decodable(log, p) - 1 : Decodes(log, p + 2 * i)
<1>. DEFINE S == {n \in Nat : ~Decodes(log, p + 2 * n)}
<1>1. Len(log) \in S
  BY LenProperties DEF Decodes
<1>2. PICK n \in S : \A m \in S : n <= m
  <2>. HIDE DEF S
  <2>1. S \in SUBSET Nat  BY DEF S
  <2>. QED  BY <1>1, <2>1, LeastNatural
<1>3. /\ n \in 0 .. Len(log)
      /\ ~Decodes(log, p + 2 * n)
      /\ \A i \in 0 .. n - 1 : Decodes(log, p + 2 * i)
  BY <1>1, <1>2, LenProperties
<1>. QED  BY <1>3, Zenon DEF Decodable

\* A cell of a decodable record lies inside the file.
LEMMA DecodesInside ==
    ASSUME NEW log \in Seq(Cell), NEW p \in Nat, Decodes(log, p)
    PROVE  /\ p + 1 \in 1 .. Len(log) /\ p + 2 \in 1 .. Len(log)
           /\ log[p + 1] \in Cell /\ log[p + 2] \in Cell
           /\ log[p + 2].offset = log[p + 1].offset
           /\ log[p + 2].msg = log[p + 1].msg
<1>1. p + 1 \in 1 .. Len(log) /\ p + 2 \in 1 .. Len(log)
  BY LenProperties DEF Decodes
<1>2. log[p + 1] \in Cell /\ log[p + 2] \in Cell
  BY <1>1, ElementOfSeq
<1>. QED  BY <1>1, <1>2 DEF Decodes, Cell

\* What scan_for_next_offset returns for an ordered log file: an offset past
\* everything it can decode, above the base when the file is not empty, and no
\* further than any base that is past both.
LEMMA ScanBounds ==
    ASSUME NEW log \in Seq(Cell), NEW b \in Nat, Ordered(log, b)
    PROVE  /\ ScanForNextOffset(log, b) \in Nat
           /\ ScanForNextOffset(log, b) >= b
           /\ log # <<>> => ScanForNextOffset(log, b) > b
           /\ Below(log, ScanForNextOffset(log, b))
           /\ \A c \in Nat : b < c /\ Below(log, c) => ScanForNextOffset(log, b) <= c
<1>. DEFINE n == Decodable(log, 0)
<1>1. n \in 0 .. Len(log) /\ ~Decodes(log, 2 * n) /\ \A i \in 0 .. n - 1 : Decodes(log, 2 * i)
  <2>1. \A i \in Nat : 0 + 2 * i = 2 * i  OBVIOUS
  <2>2. /\ n \in 0 .. Len(log)
        /\ ~Decodes(log, 0 + 2 * n)
        /\ \A i \in 0 .. n - 1 : Decodes(log, 0 + 2 * i)
    BY DecodableExists
  <2>. HIDE DEF n
  <2>3. 0 + 2 * n = 2 * n /\ \A i \in 0 .. n - 1 : 0 + 2 * i = 2 * i
    BY <2>1, <2>2
  <2>. QED  BY <2>2, <2>3, Zenon
<1>. HIDE DEF n
<1>2. \A k \in 0 .. Len(log) : InPrefix(log, k) => k < n
  BY <1>1 DEF InPrefix
<1>3. CASE log = <<>>
  <2>1. Len(log) = 0  BY <1>3
  <2>. QED  BY <1>1, <1>2, <1>3, <2>1 DEF ScanForNextOffset, Below
<1>4. CASE log # <<>> /\ n = 0
  <2>1. ScanForNextOffset(log, b) = b + 1  BY <1>4 DEF ScanForNextOffset, n
  <2>2. Below(log, b + 1)  BY <1>2, <1>4 DEF Below
  <2>. QED  BY <2>1, <2>2
<1>5. CASE log # <<>> /\ n # 0
  <2>1. n - 1 \in 0 .. Len(log) /\ InPrefix(log, n - 1)
    BY <1>1, <1>5 DEF InPrefix
  <2>2. Decodes(log, 2 * (n - 1)) /\ 2 * (n - 1) \in Nat
    BY <1>1, <1>5
  <2>3. log[2 * n].offset = log[2 * (n - 1) + 1].offset /\ log[2 * n].offset \in Nat
    <3>1. 2 * (n - 1) + 2 = 2 * n  BY <1>1
    <3>. QED  BY <2>2, <3>1, DecodesInside DEF Cell
  <2>4. ScanForNextOffset(log, b) = log[2 * n].offset + 1
    BY <1>5 DEF ScanForNextOffset, n
  <2>5. b <= log[2 * n].offset
    BY <2>1, <2>3 DEF Ordered
  <2>6. Below(log, log[2 * n].offset + 1)
    <3>. SUFFICES ASSUME NEW k \in 0 .. Len(log), InPrefix(log, k)
                  PROVE  log[2 * k + 1].offset < log[2 * n].offset + 1
      BY DEF Below
    <3>1. k \in 0 .. n - 1  BY <1>1, <1>2
    <3>2. log[2 * k + 1].offset <= log[2 * n].offset
      BY <2>1, <2>3, <3>1 DEF Ordered
    <3>3. log[2 * k + 1].offset \in Nat
      <4>1. Decodes(log, 2 * k) /\ 2 * k \in Nat  BY DEF InPrefix
      <4>. QED  BY <4>1, DecodesInside DEF Cell
    <3>. QED  BY <2>3, <3>2, <3>3
  <2>7. \A c \in Nat : Below(log, c) => log[2 * n].offset + 1 <= c
    BY <2>1, <2>3 DEF Below
  <2>. QED  BY <2>3, <2>4, <2>5, <2>6, <2>7
<1>. QED  BY <1>3, <1>4, <1>5

\* The file `new' is the file `log' with the first k cells of the encoding of
\* message m at offset o written at its end.
Extended(new, log, o, m, k) ==
    /\ new \in Seq(Cell)
    /\ Len(new) = Len(log) + k
    /\ \A i \in 1 .. Len(log) : new[i] = log[i]
    /\ k >= 1 => new[Len(log) + 1] = [part |-> "head", offset |-> o, msg |-> m]
    /\ k = 2 => new[Len(log) + 2] = [part |-> "tail", offset |-> o, msg |-> m]

\* Appending to a file keeps every cell it had.
LEMMA AppendCells ==
    ASSUME NEW log \in Seq(Cell), NEW o \in Nat, NEW m \in Msgs, NEW k \in 0 .. 2
    PROVE  Extended(log \o SubSeq(Encode(o, m), 1, k), log, o, m, k)
<1>. DEFINE e == Encode(o, m)
            x == SubSeq(e, 1, k)
            new == log \o x
<1>1. /\ e \in Seq(Cell) /\ Len(e) = 2
      /\ e[1] = [part |-> "head", offset |-> o, msg |-> m]
      /\ e[2] = [part |-> "tail", offset |-> o, msg |-> m]
  <2>1. \A c, d \in Cell : <<c, d>> \in Seq(Cell) /\ Len(<<c, d>>) = 2
    OBVIOUS
  <2>2. [part |-> "head", offset |-> o, msg |-> m] \in Cell
    BY DEF Cell
  <2>3. [part |-> "tail", offset |-> o, msg |-> m] \in Cell
    BY DEF Cell
  <2>. QED  BY <2>1, <2>2, <2>3 DEF Encode
<1>. HIDE DEF e
<1>2. x \in Seq(Cell) /\ Len(x) = k /\ \A i \in 1 .. k : x[i] = e[i]
  <2>1. \A i \in 1 .. k : e[i] \in Cell
    <3>1. \A i \in 1 .. k : i \in 1 .. Len(e)  BY <1>1
    <3>. QED  BY <1>1, <3>1, ElementOfSeq
  <2>2. k - 1 + 1 = k /\ \A i \in 1 .. k : 1 + i - 1 = i  OBVIOUS
  <2>3. /\ SubSeq(e, 1, k) \in Seq(Cell)
        /\ Len(SubSeq(e, 1, k)) = IF 1 <= k THEN k - 1 + 1 ELSE 0
        /\ \A i \in 1 .. k - 1 + 1 : SubSeq(e, 1, k)[i] = e[1 + i - 1]
    BY <2>1, SubSeqProperties
  <2>. QED  BY <2>2, <2>3
<1>. HIDE DEF x
<1>3. /\ new \in Seq(Cell) /\ Len(new) = Len(log) + k
      /\ \A i \in 1 .. Len(new) :
            new[i] = IF i <= Len(log) THEN log[i] ELSE x[i - Len(log)]
  BY <1>2, ConcatProperties
<1>. HIDE DEF new
<1>4. Len(log) \in Nat  BY LenProperties
<1>5. \A i \in 1 .. Len(log) : new[i] = log[i]
  BY <1>3, <1>4
<1>6. ASSUME k >= 1 PROVE new[Len(log) + 1] = e[1]
  <2>1. Len(log) + 1 \in 1 .. Len(new) /\ ~(Len(log) + 1 <= Len(log))
        /\ Len(log) + 1 - Len(log) = 1
    BY <1>3, <1>4, <1>6
  <2>. QED  BY <1>2, <1>3, <1>6, <2>1
<1>7. ASSUME k = 2 PROVE new[Len(log) + 2] = e[2]
  <2>1. Len(log) + 2 \in 1 .. Len(new) /\ ~(Len(log) + 2 <= Len(log))
        /\ Len(log) + 2 - Len(log) = 2
    BY <1>3, <1>4, <1>7
  <2>. QED  BY <1>2, <1>3, <1>7, <2>1
<1>8. Extended(new, log, o, m, k)
  BY <1>1, <1>3, <1>5, <1>6, <1>7 DEF Extended
<1>. QED  BY <1>8 DEF new, x, e

\* Writing at the end of a file changes nothing that could be decoded, and a
\* record that is decoded afterwards and was not before is the one written.
LEMMA AppendDecodes ==
    ASSUME NEW log \in Seq(Cell), NEW new, NEW o \in Nat, NEW m \in Msgs, NEW k \in 0 .. 2,
           Extended(new, log, o, m, k), NEW p \in Nat
    PROVE  /\ Decodes(log, p) => Decodes(new, p) /\ new[p + 1] = log[p + 1]
           /\ Decodes(new, p) => \/ Decodes(log, p) /\ new[p + 1] = log[p + 1]
                                 \/ p = Len(log) /\ new[p + 1].offset = o
<1>1. /\ new \in Seq(Cell) /\ Len(new) = Len(log) + k /\ Len(log) \in Nat
      /\ \A i \in 1 .. Len(log) : new[i] = log[i]
  BY LenProperties DEF Extended
<1>2. p + 2 <= Len(log) => new[p + 1] = log[p + 1] /\ new[p + 2] = log[p + 2]
  BY <1>1
<1>3. Decodes(log, p) => Decodes(new, p) /\ new[p + 1] = log[p + 1]
  BY <1>1, <1>2 DEF Decodes
<1>4. CASE p + 2 <= Len(log)
  BY <1>1, <1>2, <1>3, <1>4 DEF Decodes
<1>5. CASE p + 1 = Len(log)
  <2>1. ASSUME Decodes(new, p) PROVE FALSE
    <3>1. p + 2 = Len(log) + 1 /\ k >= 1  BY <1>1, <1>5, <2>1 DEF Decodes
    <3>2. new[p + 2].part = "head"  BY <1>1, <3>1 DEF Extended
    <3>3. new[p + 1] \in Cell  BY <1>1, <2>1, DecodesInside
    <3>4. new[p + 2] = [new[p + 1] EXCEPT !.part = "tail"]  BY <2>1 DEF Decodes
    <3>5. new[p + 2].part = "tail"  BY <3>3, <3>4 DEF Cell
    <3>. QED  BY <3>2, <3>5
  <2>. QED  BY <1>3, <2>1
<1>6. CASE p = Len(log)
  <2>1. ASSUME Decodes(new, p) PROVE new[p + 1].offset = o
    <3>1. k >= 1  BY <1>1, <1>6, <2>1 DEF Decodes
    <3>. QED  BY <1>6, <3>1 DEF Extended
  <2>. QED  BY <1>3, <1>6, <2>1
<1>7. CASE p > Len(log)
  <2>1. ~Decodes(new, p)  BY <1>1, <1>7 DEF Decodes
  <2>. QED  BY <1>3, <2>1
<1>. QED  BY <1>1, <1>4, <1>5, <1>6, <1>7

\* The record just written whole can be decoded.
LEMMA AppendWhole ==
    ASSUME NEW log \in Seq(Cell), NEW new, NEW o \in Nat, NEW m \in Msgs,
           Extended(new, log, o, m, 2)
    PROVE  /\ Decodes(new, Len(log))
           /\ new[Len(log) + 1].offset = o
           /\ new[Len(log) + 1].msg = m
<1>1. /\ Len(new) = Len(log) + 2 /\ Len(log) \in Nat
      /\ new[Len(log) + 1] = [part |-> "head", offset |-> o, msg |-> m]
      /\ new[Len(log) + 2] = [part |-> "tail", offset |-> o, msg |-> m]
  BY LenProperties DEF Extended
<1>. QED  BY <1>1 DEF Decodes

\* Writing (part of) a record with an offset at or above all that can be
\* scanned keeps the file ordered.
LEMMA AppendOrdered ==
    ASSUME NEW log \in Seq(Cell), NEW new, NEW o \in Nat, NEW m \in Msgs, NEW k \in 0 .. 2,
           Extended(new, log, o, m, k),
           NEW b \in Nat, b <= o, Ordered(log, b), Below(log, o + 1)
    PROVE  Ordered(new, b) /\ Below(new, o + 1)
<1>1. Len(log) \in Nat /\ new \in Seq(Cell) /\ Len(new) = Len(log) + k
  BY LenProperties DEF Extended
<1>2. \A p \in Nat :
        Decodes(new, p) => \/ Decodes(log, p) /\ new[p + 1] = log[p + 1]
                           \/ p = Len(log) /\ new[p + 1].offset = o
  BY AppendDecodes
<1>3. ASSUME NEW j \in Nat, InPrefix(new, j)
      PROVE  /\ new[2 * j + 1].offset \in Nat
             /\ b <= new[2 * j + 1].offset
             /\ new[2 * j + 1].offset < o + 1
             /\ 2 * j = Len(log) => new[2 * j + 1].offset = o
             /\ 2 * j # Len(log) => /\ j \in 0 .. Len(log) /\ InPrefix(log, j)
                                    /\ 2 * j < Len(log)
                                    /\ new[2 * j + 1] = log[2 * j + 1]
  <2>1. \A i \in 0 .. j : 2 * i \in Nat /\ Decodes(new, 2 * i)
    BY <1>3 DEF InPrefix
  <2>2. \A i \in 0 .. j : 2 * i # Len(log) => Decodes(log, 2 * i)
    BY <1>2, <2>1
  <2>3. 2 * j \in Nat /\ Decodes(new, 2 * j)  BY <2>1
  <2>4. 2 * j <= Len(log)
    BY <1>1, <1>2, <2>3 DEF Decodes
  <2>5. new[2 * j + 1].offset \in Nat
    BY <1>1, <2>3, DecodesInside DEF Cell
  <2>6. CASE 2 * j = Len(log)
    <3>1. ~Decodes(log, 2 * j)  BY <1>1, <2>6 DEF Decodes
    <3>2. new[2 * j + 1].offset = o  BY <1>2, <2>3, <3>1
    <3>. QED  BY <2>5, <2>6, <3>2
  <2>7. CASE 2 * j # Len(log)
    <3>1. 2 * j < Len(log) /\ j \in 0 .. Len(log)  BY <1>1, <2>4, <2>7
    <3>2. \A i \in 0 .. j : 2 * i # Len(log)  BY <1>1, <3>1
    <3>3. InPrefix(log, j)  BY <2>2, <3>2 DEF InPrefix
    <3>4. new[2 * j + 1] = log[2 * j + 1]  BY <1>2, <2>3, <2>7
    <3>5. b <= log[2 * j + 1].offset  BY <3>1, <3>3 DEF Ordered
    <3>6. log[2 * j + 1].offset < o + 1  BY <3>1, <3>3 DEF Below
    <3>. QED  BY <2>5, <2>7, <3>1, <3>3, <3>4, <3>5, <3>6
  <2>. QED  BY <2>6, <2>7
<1>4. Below(new, o + 1)
  <2>. SUFFICES ASSUME NEW j \in 0 .. Len(new), InPrefix(new, j)
                PROVE  new[2 * j + 1].offset < o + 1
    BY DEF Below
  <2>. QED  BY <1>3
<1>5. ASSUME NEW j \in Nat, InPrefix(new, j), NEW i \in 0 .. j
      PROVE  new[2 * i + 1].offset <= new[2 * j + 1].offset
  <2>1. i \in Nat /\ InPrefix(new, i)  BY <1>5 DEF InPrefix
  <2>2. CASE 2 * j = Len(log)
    <3>1. new[2 * j + 1].offset = o  BY <1>3, <1>5, <2>2
    <3>2. new[2 * i + 1].offset \in Nat /\ new[2 * i + 1].offset < o + 1  BY <1>3, <2>1
    <3>. QED  BY <3>1, <3>2
  <2>3. CASE 2 * j # Len(log)
    <3>1. /\ j \in 0 .. Len(log) /\ InPrefix(log, j) /\ 2 * j < Len(log)
          /\ new[2 * j + 1] = log[2 * j + 1]
      BY <1>3, <1>5, <2>3
    <3>2. 2 * i # Len(log)  BY <1>1, <2>1, <3>1
    <3>3. new[2 * i + 1] = log[2 * i + 1]  BY <1>3, <2>1, <3>2
    <3>4. log[2 * i + 1].offset <= log[2 * j + 1].offset  BY <3>1 DEF Ordered
    <3>. QED  BY <3>1, <3>3, <3>4
  <2>. QED  BY <2>2, <2>3
<1>6. Ordered(new, b)
  <2>. SUFFICES ASSUME NEW j \in 0 .. Len(new), InPrefix(new, j)
                PROVE  /\ b <= new[2 * j + 1].offset
                       /\ \A i \in 0 .. j : new[2 * i + 1].offset <= new[2 * j + 1].offset
    BY DEF Ordered
  <2>. QED  BY <1>3, <1>5
<1>. QED  BY <1>4, <1>6

\* A bound on what can be scanned may be raised.
LEMMA BelowMonotonic ==
    ASSUME NEW log \in Seq(Cell), NEW c \in Nat, NEW d \in Nat, c <= d, Below(log, c)
    PROVE  Below(log, d)
<1>. SUFFICES ASSUME NEW j \in 0 .. Len(log), InPrefix(log, j)
              PROVE  log[2 * j + 1].offset < d
  BY DEF Below
<1>1. log[2 * j + 1].offset < c  BY DEF Below
<1>2. 2 * j \in Nat /\ Decodes(log, 2 * j)  BY DEF InPrefix
<1>3. log[2 * j + 1].offset \in Nat  BY <1>2, DecodesInside DEF Cell
<1>. QED  BY <1>1, <1>3

\* The file `new' is what a power loss leaves of `log': its first k cells.
Truncated(new, log, k) ==
    /\ new \in Seq(Cell)
    /\ Len(new) = k
    /\ \A i \in 1 .. k : new[i] = log[i]

\* Cutting a file keeps the cells before the cut.
LEMMA TruncateCells ==
    ASSUME NEW log \in Seq(Cell), NEW k \in 0 .. Len(log)
    PROVE  Truncated(SubSeq(log, 1, k), log, k)
<1>1. Len(log) \in Nat  BY LenProperties
<1>2. \A i \in 1 .. k : log[i] \in Cell
  BY <1>1, ElementOfSeq
<1>3. /\ SubSeq(log, 1, k) \in Seq(Cell)
      /\ Len(SubSeq(log, 1, k)) = k
      /\ \A i \in 1 .. k : SubSeq(log, 1, k)[i] = log[i]
  BY <1>1, <1>2, SubSeqProperties
<1>. QED  BY <1>3 DEF Truncated

\* Cutting the tail of a file off keeps what is left decodable and ordered.
LEMMA TruncateOrdered ==
    ASSUME NEW log \in Seq(Cell), NEW k \in 0 .. Len(log), NEW new, Truncated(new, log, k)
    PROVE  /\ \A p \in Nat : p + 2 <= k /\ Decodes(log, p) =>
                                Decodes(new, p) /\ new[p + 1] = log[p + 1]
           /\ \A b \in Nat : Ordered(log, b) => Ordered(new, b)
           /\ \A c \in Nat : Below(log, c) => Below(new, c)
<1>1. /\ new \in Seq(Cell) /\ Len(new) = k /\ Len(log) \in Nat /\ k \in Nat /\ k <= Len(log)
      /\ \A i \in 1 .. k : new[i] = log[i]
  BY LenProperties DEF Truncated
<1>2. \A p \in Nat : p + 2 <= k => new[p + 1] = log[p + 1] /\ new[p + 2] = log[p + 2]
  BY <1>1
<1>3. ASSUME NEW p \in Nat, Decodes(new, p)
      PROVE  Decodes(log, p) /\ new[p + 1] = log[p + 1]
  <2>1. p + 2 <= k /\ p + 2 <= Len(log)  BY <1>1, <1>3 DEF Decodes
  <2>. QED  BY <1>2, <1>3, <2>1 DEF Decodes
<1>4. \A p \in Nat : p + 2 <= k /\ Decodes(log, p) => Decodes(new, p) /\ new[p + 1] = log[p + 1]
  BY <1>1, <1>2 DEF Decodes
<1>5. ASSUME NEW j \in 0 .. Len(new), InPrefix(new, j)
      PROVE  /\ j \in 0 .. Len(log) /\ InPrefix(log, j)
             /\ \A i \in 0 .. j : new[2 * i + 1] = log[2 * i + 1]
  <2>1. \A i \in 0 .. j : 2 * i \in Nat /\ Decodes(new, 2 * i)  BY <1>5 DEF InPrefix
  <2>2. \A i \in 0 .. j : Decodes(log, 2 * i) /\ new[2 * i + 1] = log[2 * i + 1]
    BY <1>3, <2>1
  <2>. QED  BY <1>1, <2>2 DEF InPrefix
<1>6. ASSUME NEW b \in Nat, Ordered(log, b) PROVE Ordered(new, b)
  <2>. SUFFICES ASSUME NEW j \in 0 .. Len(new), InPrefix(new, j)
                PROVE  /\ b <= new[2 * j + 1].offset
                       /\ \A i \in 0 .. j : new[2 * i + 1].offset <= new[2 * j + 1].offset
    BY DEF Ordered
  <2>1. /\ j \in 0 .. Len(log) /\ InPrefix(log, j) /\ j \in 0 .. j
        /\ \A i \in 0 .. j : new[2 * i + 1] = log[2 * i + 1]
    BY <1>5
  <2>. QED  BY <1>6, <2>1 DEF Ordered
<1>7. ASSUME NEW c \in Nat, Below(log, c) PROVE Below(new, c)
  <2>. SUFFICES ASSUME NEW j \in 0 .. Len(new), InPrefix(new, j)
                PROVE  new[2 * j + 1].offset < c
    BY DEF Below
  <2>1. /\ j \in 0 .. Len(log) /\ InPrefix(log, j) /\ j \in 0 .. j
        /\ \A i \in 0 .. j : new[2 * i + 1] = log[2 * i + 1]
    BY <1>5
  <2>. QED  BY <1>7, <2>1 DEF Below
<1>. QED  BY <1>4, <1>6, <1>7

-----------------------------------------------------------------------------
(* Type correctness.                                                       *)

\* The initial state satisfies the type invariant: one empty, indexed segment.
LEMMA TypeInit == Init => TypeInv
<1>. SUFFICES ASSUME Init PROVE TypeInv  OBVIOUS
<1>. USE DEF Init
<1>1. <<>> \in Seq(Cell) /\ <<>> \in Seq(Entry) /\ <<>> \in Seq(Msgs) /\ <<>> \in Seq(Record)
  BY EmptySeq
<1>2. EmptyFile(TRUE) \in File  BY <1>1 DEF EmptyFile, File
<1>3. CreateSegment(0) \in Segment  BY DEF CreateSegment, Segment
<1>4. TypeOK  BY <1>1, <1>2, <1>3 DEF TypeOK, Idle
<1>5. Control
  BY PartitionLogAssumption DEF Control, Idle, CreateSegment
<1>. QED  BY <1>4, <1>5 DEF TypeInv

\* The idle writer has the type of a writer.
LEMMA IdleType ==
    /\ Idle.pc = "idle"
    /\ Idle \in [pc : {"idle", "create_index", "write", "index", "sync"},
                 batch : Seq(Msgs), done : Seq(Record), pos : Nat, base : Nat]
<1>1. <<>> \in Seq(Msgs) /\ <<>> \in Seq(Record)  BY EmptySeq
<1>. QED  BY <1>1 DEF Idle

\* The steps that open, fill and close the append in progress keep the types.
LEMMA TypeBegin ==
    ASSUME TypeInv, NEW batch \in Batches, BeginAppend(batch) PROVE TypeInv'
<1>. USE DEF TypeInv, BeginAppend, CanAppend
<1>1. batch \in Seq(Msgs) /\ batch # <<>>
  <2>1. PICK n \in 1 .. MaxBatch : batch \in [1 .. n -> Msgs]  BY DEF Batches
  <2>2. n \in Nat /\ 1 \in 1 .. n  BY PartitionLogAssumption
  <2>. QED  BY <2>1, <2>2, IsASeq, EmptySeq
<1>2. segs[active] \in Segment /\ active \in Nat  BY DEF TypeOK, Control
<1>3. segs[active].size \in Nat  BY <1>2 DEF Segment
<1>4. <<>> \in Seq(Record)  BY EmptySeq
<1>5. TypeOK'
  BY <1>1, <1>2, <1>3, <1>4 DEF TypeOK
<1>6. Control'
  BY <1>1, <1>3, PartitionLogAssumption DEF Control, ShouldRotate
<1>. QED  BY <1>5, <1>6

\* What the type invariant says of the segment an append writes to.
LEMMA WriterFacts ==
    ASSUME TypeInv, writer.pc \in {"write", "index", "sync"}
    PROVE  /\ status = "up" /\ writer.base = active
           /\ active \in DOMAIN segs /\ active \in DOMAIN disk /\ active \in Nat
           /\ segs[active] \in Segment /\ disk[active] \in File
           /\ segs[active].next \in Nat /\ segs[active].size \in Nat
           /\ disk[active].log \in Seq(Cell) /\ Len(disk[active].log) \in Nat
           /\ writer.batch \in Seq(Msgs) /\ writer.done \in Seq(Record)
           /\ writer.pos \in Nat
           /\ writer.pc # "sync" => Head(writer.batch) \in Msgs /\ Len(writer.batch) >= 1
<1>1. status = "up" /\ writer.base = active /\ active \in DOMAIN segs
  BY DEF TypeInv, TypeOK, Control
<1>2. /\ active \in DOMAIN disk /\ active \in Nat
      /\ segs[active] \in Segment /\ disk[active] \in File
  BY <1>1 DEF TypeInv, TypeOK
<1>3. segs[active].next \in Nat /\ segs[active].size \in Nat /\ disk[active].log \in Seq(Cell)
  BY <1>2 DEF Segment, File
<1>4. writer.batch \in Seq(Msgs) /\ writer.done \in Seq(Record) /\ writer.pos \in Nat
  BY DEF TypeInv, TypeOK
<1>5. ASSUME writer.pc # "sync" PROVE Head(writer.batch) \in Msgs /\ Len(writer.batch) >= 1
  <2>1. writer.batch # <<>>  BY <1>5 DEF TypeInv, Control
  <2>. QED  BY <1>4, <2>1, HeadTailProperties, LenProperties, EmptySeq
<1>. QED  BY <1>1, <1>2, <1>3, <1>4, <1>5, LenProperties

\* Replacing the files of one segment keeps the disk well typed.
LEMMA DiskUpdate ==
    ASSUME TypeInv, NEW b \in DOMAIN disk, NEW f \in File, disk' = [disk EXCEPT ![b] = f]
    PROVE  /\ DOMAIN disk' = DOMAIN disk
           /\ DOMAIN disk' \subseteq Nat /\ disk' \in [DOMAIN disk' -> File]
           /\ \E top \in DOMAIN disk' : \A c \in DOMAIN disk' : c <= top
BY DEF TypeInv, TypeOK, Control

\* A rotation creates a log file and keeps the others.
LEMMA TypeRotate ==
    ASSUME TypeInv, NEW batch \in Batches, RotateLog(batch) PROVE TypeInv'
<1>. USE DEF TypeInv, RotateLog, CanAppend
<1>. DEFINE base == segs[active].next
<1>1. batch \in Seq(Msgs) /\ batch # <<>>
  <2>1. PICK n \in 1 .. MaxBatch : batch \in [1 .. n -> Msgs]  BY DEF Batches
  <2>2. n \in Nat /\ 1 \in 1 .. n  BY PartitionLogAssumption
  <2>. QED  BY <2>1, <2>2, IsASeq, EmptySeq
<1>2. segs[active] \in Segment /\ active \in Nat  BY DEF TypeOK, Control
<1>3. base \in Nat  BY <1>2 DEF Segment
<1>4. <<>> \in Seq(Record) /\ <<>> \in Seq(Cell) /\ <<>> \in Seq(Entry)  BY EmptySeq
<1>5. EmptyFile(FALSE) \in File  BY <1>4 DEF EmptyFile, File
<1>6. /\ DOMAIN disk' = DOMAIN disk \cup {base} /\ DOMAIN disk' \subseteq Nat
      /\ disk' \in [DOMAIN disk' -> File]
  BY <1>3, <1>5 DEF TypeOK
<1>7. TypeOK'
  BY <1>1, <1>3, <1>4, <1>6 DEF TypeOK
<1>8. \E top \in DOMAIN disk' : \A c \in DOMAIN disk' : c <= top
  <2>1. PICK top \in DOMAIN disk : \A c \in DOMAIN disk : c <= top  BY DEF Control
  <2>2. DOMAIN disk \subseteq Nat  BY DEF TypeOK
  <2>3. CASE base <= top  BY <1>6, <2>1, <2>3
  <2>4. CASE ~(base <= top)
    <3>1. \A c \in DOMAIN disk' : c <= base  BY <1>3, <1>6, <2>1, <2>2, <2>4
    <3>. QED  BY <1>6, <3>1
  <2>. QED  BY <2>3, <2>4
<1>9. Control'
  BY <1>1, <1>6, <1>8 DEF Control, ShouldRotate
<1>. QED  BY <1>7, <1>9

\* The rotation ends: the new segment is listed and active.
LEMMA TypeCreateIndex == ASSUME TypeInv, CreateIndex PROVE TypeInv'
<1>. USE DEF TypeInv, CreateIndex
<1>. DEFINE base == writer.base
<1>1. /\ status = "up" /\ base \in DOMAIN disk /\ base \in Nat /\ disk[base] \in File
      /\ active \in DOMAIN segs /\ base = segs[active].next
  BY DEF TypeOK, Control
<1>2. [disk[base] EXCEPT !.hasIdx = TRUE] \in File  BY <1>1 DEF File
<1>3. /\ DOMAIN disk' = DOMAIN disk
      /\ DOMAIN disk' \subseteq Nat /\ disk' \in [DOMAIN disk' -> File]
      /\ \E top \in DOMAIN disk' : \A c \in DOMAIN disk' : c <= top
  BY <1>1, <1>2, DiskUpdate
<1>4. CreateSegment(base) \in Segment  BY <1>1 DEF CreateSegment, Segment
<1>5. DOMAIN segs' \subseteq DOMAIN disk' /\ segs' \in [DOMAIN segs' -> Segment]
  BY <1>1, <1>3, <1>4 DEF TypeOK
<1>6. TypeOK'  BY <1>1, <1>3, <1>5 DEF TypeOK
<1>7. Control'
  <2>1. segs'[base].size = 0  BY DEF CreateSegment
  <2>2. 0 < MaxSize  BY PartitionLogAssumption
  <2>. QED  BY <1>1, <1>3, <2>1, <2>2 DEF Control
<1>. QED  BY <1>6, <1>7

\* Whatever part of a record is written, the file stays a sequence of cells.
LEMMA TypeWrite ==
    ASSUME TypeInv, NEW k \in 0 .. 2, writer.pc = "write",
           disk' = [disk EXCEPT ![active].log =
                      @ \o SubSeq(Encode(segs[active].next, Head(writer.batch)), 1, k)]
    PROVE  /\ DOMAIN disk' = DOMAIN disk
           /\ DOMAIN disk' \subseteq Nat /\ disk' \in [DOMAIN disk' -> File]
           /\ \E top \in DOMAIN disk' : \A c \in DOMAIN disk' : c <= top
           /\ Extended(disk'[active].log, disk[active].log,
                       segs[active].next, Head(writer.batch), k)
<1>. DEFINE new == disk[active].log \o SubSeq(Encode(segs[active].next, Head(writer.batch)), 1, k)
<1>1. /\ active \in DOMAIN disk /\ disk[active] \in File /\ disk[active].log \in Seq(Cell)
      /\ segs[active].next \in Nat /\ Head(writer.batch) \in Msgs
  BY WriterFacts
<1>2. Extended(new, disk[active].log, segs[active].next, Head(writer.batch), k)
  BY <1>1, AppendCells
<1>3. new \in Seq(Cell)  BY <1>2 DEF Extended
<1>4. disk' = [disk EXCEPT ![active] = [disk[active] EXCEPT !.log = new]]  OBVIOUS
<1>. HIDE DEF new
<1>5. [disk[active] EXCEPT !.log = new] \in File  BY <1>1, <1>3 DEF File
<1>6. disk'[active].log = new
  BY <1>1, <1>4 DEF File
<1>. QED  BY <1>1, <1>2, <1>4, <1>5, <1>6, DiskUpdate

\* write_all of a whole record appends both of its cells.
LEMMA WholeRecord ==
    ASSUME NEW o \in Nat, NEW m \in Msgs
    PROVE  SubSeq(Encode(o, m), 1, 2) = Encode(o, m)
<1>1. \A c, d \in Cell : <<c, d>> \in Seq(Cell) /\ Len(<<c, d>>) = 2
  OBVIOUS
<1>2. /\ [part |-> "head", offset |-> o, msg |-> m] \in Cell
      /\ [part |-> "tail", offset |-> o, msg |-> m] \in Cell
  BY DEF Cell
<1>3. Encode(o, m) \in Seq(Cell) /\ Len(Encode(o, m)) = 2  BY <1>1, <1>2 DEF Encode
<1>. QED  BY <1>3, SubSeqFull

\* A record is written.
LEMMA TypeWriteRecord == ASSUME TypeInv, WriteRecord PROVE TypeInv'
<1>. USE DEF WriteRecord
<1>1. /\ writer.base = active /\ status = "up"
      /\ segs[active].next \in Nat /\ Head(writer.batch) \in Msgs
  BY WriterFacts
<1>2. disk' = [disk EXCEPT ![active].log =
                  @ \o SubSeq(Encode(segs[active].next, Head(writer.batch)), 1, 2)]
  BY <1>1, WholeRecord
<1>3. /\ DOMAIN disk' = DOMAIN disk
      /\ DOMAIN disk' \subseteq Nat /\ disk' \in [DOMAIN disk' -> File]
      /\ \E top \in DOMAIN disk' : \A c \in DOMAIN disk' : c <= top
  <2>1. 2 \in 0 .. 2 /\ writer.pc = "write"  OBVIOUS
  <2>. QED  BY ONLY TypeInv, <1>2, <2>1, TypeWrite
<1>4. TypeOK'  BY <1>3 DEF TypeInv, TypeOK
<1>5. Control'  BY <1>3 DEF TypeInv, TypeOK, Control
<1>. QED  BY <1>4, <1>5 DEF TypeInv

\* OffsetIndex::append writes one entry, over an old one or after the last.
LEMMA PutEntryType ==
    ASSUME NEW idx \in Seq(Entry), NEW c \in Nat, NEW e \in Entry
    PROVE  PutEntry(idx, c, e) \in Seq(Entry)
<1>1. CASE c < Len(idx)
  <2>1. c + 1 \in 1 .. Len(idx)  BY <1>1, LenProperties
  <2>. QED  BY <1>1, <2>1, ExceptSeq DEF PutEntry
<1>2. CASE ~(c < Len(idx))  BY <1>2, AppendProperties DEF PutEntry
<1>. QED  BY <1>1, <1>2

\* The index and the counters move past the record.
LEMMA TypeIndexRecord == ASSUME TypeInv, IndexRecord PROVE TypeInv'
<1>. USE DEF IndexRecord
<1>. DEFINE seg == segs[active]
            idx == IF IndexDue(active)
                   THEN PutEntry(disk[active].idx, seg.cursor, NewEntry(active))
                   ELSE disk[active].idx
            newseg == IF IndexDue(active)
                      THEN [seg EXCEPT !.next = @ + 1, !.since = 1, !.entries = @ + 1,
                                       !.cursor = @ + 1, !.imapped = Len(idx)]
                      ELSE [seg EXCEPT !.next = @ + 1, !.since = @ + 1]
            rec == [offset |-> seg.next, msg |-> Head(writer.batch)]
<1>1. /\ writer.base = active /\ status = "up" /\ writer.pos \in Nat
      /\ active \in DOMAIN segs /\ active \in DOMAIN disk /\ active \in Nat
      /\ seg \in Segment /\ disk[active] \in File
      /\ seg.next \in Nat /\ Head(writer.batch) \in Msgs
      /\ writer.batch \in Seq(Msgs) /\ writer.done \in Seq(Record)
      /\ Len(writer.batch) >= 1
  BY WriterFacts
<1>2. idx \in Seq(Entry) /\ Len(idx) \in Nat
  <2>1. NewEntry(active) \in Entry  BY <1>1 DEF NewEntry, Entry
  <2>2. disk[active].idx \in Seq(Entry) /\ seg.cursor \in Nat  BY <1>1 DEF File, Segment
  <2>. QED  BY <2>1, <2>2, PutEntryType, LenProperties
<1>3. disk' = [disk EXCEPT ![active] = [disk[active] EXCEPT !.idx = idx]]
  BY <1>1
<1>4. segs' = [segs EXCEPT ![active] = newseg]
  BY <1>1
<1>5. writer' = [writer EXCEPT
              !.pc = IF Len(writer.batch) = 1 THEN "sync" ELSE "write",
              !.batch = Tail(@), !.done = Append(@, rec), !.pos = @ + 2]
  BY <1>1
<1>6. rec \in Record  BY <1>1 DEF Record
<1>. HIDE DEF idx
<1>7. newseg \in Segment
  <2>1. /\ seg.next + 1 \in Nat /\ seg.since + 1 \in Nat
        /\ seg.entries + 1 \in Nat /\ seg.cursor + 1 \in Nat /\ 1 \in Nat
    BY <1>1 DEF Segment
  <2>2. CASE IndexDue(active)
    BY ONLY <1>1, <1>2, <2>1, <2>2 DEF Segment, newseg
  <2>3. CASE ~IndexDue(active)
    BY ONLY <1>1, <2>1, <2>3 DEF Segment, newseg
  <2>. QED  BY <2>2, <2>3
<1>8. newseg.size = seg.size
  BY <1>1 DEF Segment
<1>. HIDE DEF newseg, rec
<1>9. [disk[active] EXCEPT !.idx = idx] \in File  BY <1>1, <1>2 DEF File
<1>10. /\ DOMAIN disk' = DOMAIN disk
       /\ DOMAIN disk' \subseteq Nat /\ disk' \in [DOMAIN disk' -> File]
       /\ \E top \in DOMAIN disk' : \A c \in DOMAIN disk' : c <= top
  BY <1>1, <1>3, <1>9, DiskUpdate
<1>11. DOMAIN segs' = DOMAIN segs /\ segs' \in [DOMAIN segs' -> Segment] /\ segs'[active] = newseg
  BY <1>1, <1>4, <1>7 DEF TypeInv, TypeOK
<1>12. /\ Tail(writer.batch) \in Seq(Msgs) /\ Append(writer.done, rec) \in Seq(Record)
       /\ Len(writer.batch) # 1 => Tail(writer.batch) # <<>>
  <2>1. writer.batch # <<>>  BY <1>1
  <2>2. Tail(writer.batch) \in Seq(Msgs) /\ Len(Tail(writer.batch)) = Len(writer.batch) - 1
    BY <1>1, <2>1, HeadTailProperties
  <2>3. Append(writer.done, rec) \in Seq(Record)  BY <1>1, <1>6, AppendProperties
  <2>4. Len(writer.batch) \in Nat  BY <1>1, LenProperties
  <2>5. Len(writer.batch) # 1 => Len(Tail(writer.batch)) # 0  BY <1>1, <2>2, <2>4
  <2>6. Len(<<>>) = 0  BY EmptySeq
  <2>. QED  BY <2>2, <2>3, <2>5, <2>6
<1>13. writer' \in [pc : {"idle", "create_index", "write", "index", "sync"},
                    batch : Seq(Msgs), done : Seq(Record), pos : Nat, base : Nat]
  <2>1. writer \in [pc : {"idle", "create_index", "write", "index", "sync"},
                    batch : Seq(Msgs), done : Seq(Record), pos : Nat, base : Nat]
    BY DEF TypeInv, TypeOK
  <2>2. writer.pos + 2 \in Nat  BY <1>1
  <2>. QED  BY ONLY <1>5, <1>12, <2>1, <2>2
<1>14. TypeOK'  BY <1>1, <1>10, <1>11, <1>13 DEF TypeInv, TypeOK
<1>15. /\ writer'.pc = IF Len(writer.batch) = 1 THEN "sync" ELSE "write"
       /\ writer'.base = active /\ writer'.batch = Tail(writer.batch)
  BY <1>1, <1>5 DEF TypeInv, TypeOK
<1>16. Control'
  <2>1. segs'[active].size < MaxSize  BY <1>8, <1>11 DEF TypeInv, Control
  <2>. QED  BY <1>1, <1>10, <1>11, <1>12, <1>15, <2>1 DEF Control
<1>. QED  BY <1>14, <1>16 DEF TypeInv

\* The append is synced, mapped and answered.
LEMMA TypeSyncLog == ASSUME TypeInv, SyncLog PROVE TypeInv'
<1>. USE DEF SyncLog
<1>. DEFINE n == Len(disk[active].log)
            seg == [segs[active] EXCEPT !.size = writer.pos, !.mapped = n]
<1>1. /\ writer.base = active /\ status = "up" /\ writer.pos \in Nat
      /\ active \in DOMAIN segs /\ active \in DOMAIN disk
      /\ segs[active] \in Segment /\ disk[active] \in File /\ n \in Nat
      /\ writer.done \in Seq(Record)
  BY WriterFacts
<1>2. disk' = [disk EXCEPT ![active] = [disk[active] EXCEPT !.synced = n]]  BY <1>1
<1>3. segs' = [segs EXCEPT ![active] = seg]  BY <1>1
<1>. HIDE DEF n
<1>4. [disk[active] EXCEPT !.synced = n] \in File  BY <1>1 DEF File
<1>5. /\ DOMAIN disk' = DOMAIN disk
      /\ DOMAIN disk' \subseteq Nat /\ disk' \in [DOMAIN disk' -> File]
      /\ \E top \in DOMAIN disk' : \A c \in DOMAIN disk' : c <= top
  BY <1>1, <1>2, <1>4, DiskUpdate
<1>6. seg \in Segment  BY <1>1 DEF Segment
<1>7. DOMAIN segs' = DOMAIN segs /\ segs' \in [DOMAIN segs' -> Segment]
  BY <1>1, <1>3, <1>6 DEF TypeInv, TypeOK
<1>8. acked' \subseteq Record
  <2>1. \A i \in DOMAIN writer.done : writer.done[i] \in Record
    BY <1>1, LenProperties, ElementOfSeq
  <2>. QED  BY <2>1 DEF TypeInv, TypeOK
<1>9. TypeOK'  BY <1>1, <1>5, <1>7, <1>8, IdleType DEF TypeInv, TypeOK
<1>10. Control'  BY <1>1, <1>5, <1>7, IdleType DEF TypeInv, Control
<1>. QED  BY <1>9, <1>10 DEF TypeInv

\* An append that returns an error leaves the writer idle; the types follow
\* from those of the files and of the segments it leaves.
LEMMA TypeFail ==
    ASSUME TypeInv, writer.pc # "idle", Fail,
           DOMAIN disk' = DOMAIN disk, disk' \in [DOMAIN disk' -> File],
           DOMAIN segs' = DOMAIN segs, segs' \in [DOMAIN segs' -> Segment],
           UNCHANGED <<active, status, acked, crashes>>
    PROVE  TypeInv'
<1>1. failures' \in Nat /\ writer' = Idle  BY DEF Fail, TypeInv, TypeOK
<1>2. TypeOK'  BY <1>1, IdleType DEF TypeInv, TypeOK
<1>3. Control'  BY <1>1, IdleType DEF TypeInv, TypeOK, Control
<1>. QED  BY <1>2, <1>3 DEF TypeInv

\* The rotation fails half way.
LEMMA TypeCreateIndexFails == ASSUME TypeInv, CreateIndexFails PROVE TypeInv'
<1>1. /\ disk' \in [DOMAIN disk' -> File] /\ segs' \in [DOMAIN segs' -> Segment]
      /\ DOMAIN disk' = DOMAIN disk /\ DOMAIN segs' = DOMAIN segs
  BY DEF CreateIndexFails, TypeInv, TypeOK
<1>. QED  BY <1>1, TypeFail DEF CreateIndexFails

\* A write fails, with or without half a record in the file.
LEMMA TypeWriteRecordFails == ASSUME TypeInv, WriteRecordFails PROVE TypeInv'
<1>1. writer.base = active /\ writer.pc = "write"  BY WriterFacts DEF WriteRecordFails
<1>2. PICK k \in 0 .. 1 : disk' = [disk EXCEPT ![active].log =
          @ \o SubSeq(Encode(segs[active].next, Head(writer.batch)), 1, k)]
  BY <1>1 DEF WriteRecordFails
<1>3. k \in 0 .. 2  OBVIOUS
<1>4. DOMAIN disk' = DOMAIN disk /\ disk' \in [DOMAIN disk' -> File]
  BY ONLY TypeInv, <1>1, <1>2, <1>3, TypeWrite
<1>5. DOMAIN segs' = DOMAIN segs /\ segs' \in [DOMAIN segs' -> Segment]
  BY DEF WriteRecordFails, TypeInv, TypeOK
<1>. QED  BY <1>1, <1>4, <1>5, TypeFail DEF WriteRecordFails

\* The index fails, with or without the entry in its file.
LEMMA TypeIndexRecordFails == ASSUME TypeInv, IndexRecordFails PROVE TypeInv'
<1>1. /\ writer.base = active /\ writer.pc = "index" /\ writer.pos \in Nat
      /\ active \in DOMAIN segs /\ active \in DOMAIN disk
      /\ segs[active] \in Segment /\ disk[active] \in File /\ segs[active].next \in Nat
  BY WriterFacts DEF IndexRecordFails
<1>2. CASE UNCHANGED <<disk, segs>>
  <2>1. /\ disk' \in [DOMAIN disk' -> File] /\ segs' \in [DOMAIN segs' -> Segment]
        /\ DOMAIN disk' = DOMAIN disk /\ DOMAIN segs' = DOMAIN segs
    BY <1>2 DEF TypeInv, TypeOK
  <2>. QED  BY <1>1, <2>1, TypeFail DEF IndexRecordFails
<1>3. CASE /\ disk' = [disk EXCEPT ![active].idx =
                          PutEntry(@, segs[active].cursor, NewEntry(active))]
           /\ segs' = [segs EXCEPT ![active].cursor = @ + 1]
  <2>. DEFINE idx == PutEntry(disk[active].idx, segs[active].cursor, NewEntry(active))
  <2>1. NewEntry(active) \in Entry  BY <1>1 DEF NewEntry, Entry
  <2>2. disk[active].idx \in Seq(Entry) /\ segs[active].cursor \in Nat
    BY <1>1 DEF File, Segment
  <2>3. idx \in Seq(Entry)  BY <2>1, <2>2, PutEntryType
  <2>4. disk' = [disk EXCEPT ![active] = [disk[active] EXCEPT !.idx = idx]]  BY <1>3
  <2>. HIDE DEF idx
  <2>5. [disk[active] EXCEPT !.idx = idx] \in File  BY <1>1, <2>3 DEF File
  <2>6. DOMAIN disk' = DOMAIN disk /\ disk' \in [DOMAIN disk' -> File]
    BY <1>1, <2>4, <2>5, DiskUpdate
  <2>7. [segs[active] EXCEPT !.cursor = @ + 1] \in Segment  BY <1>1, <2>2 DEF Segment
  <2>8. DOMAIN segs' = DOMAIN segs /\ segs' \in [DOMAIN segs' -> Segment]
    BY <1>1, <1>3, <2>7 DEF TypeInv, TypeOK
  <2>. QED  BY <1>1, <2>6, <2>8, TypeFail DEF IndexRecordFails
<1>. QED  BY <1>1, <1>2, <1>3 DEF IndexRecordFails

\* The sync fails, or the remap after it.
LEMMA TypeSyncLogFails == ASSUME TypeInv, SyncLogFails PROVE TypeInv'
<1>. DEFINE n == Len(disk[active].log)
<1>1. /\ writer.base = active /\ writer.pc = "sync" /\ writer.pos \in Nat
      /\ active \in DOMAIN segs /\ active \in DOMAIN disk /\ n \in Nat
      /\ segs[active] \in Segment /\ disk[active] \in File
  BY WriterFacts DEF SyncLogFails
<1>2. CASE UNCHANGED <<disk, segs>>
  <2>1. /\ disk' \in [DOMAIN disk' -> File] /\ segs' \in [DOMAIN segs' -> Segment]
        /\ DOMAIN disk' = DOMAIN disk /\ DOMAIN segs' = DOMAIN segs
    BY <1>2 DEF TypeInv, TypeOK
  <2>. QED  BY <1>1, <2>1, TypeFail DEF SyncLogFails
<1>3. CASE /\ disk' = [disk EXCEPT ![active].synced = n]
           /\ segs' = [segs EXCEPT ![active].size = writer.pos]
  <2>. HIDE DEF n
  <2>1. disk' = [disk EXCEPT ![active] = [disk[active] EXCEPT !.synced = n]]  BY <1>3
  <2>2. [disk[active] EXCEPT !.synced = n] \in File  BY <1>1 DEF File
  <2>3. DOMAIN disk' = DOMAIN disk /\ disk' \in [DOMAIN disk' -> File]
    BY <1>1, <2>1, <2>2, DiskUpdate
  <2>4. [segs[active] EXCEPT !.size = writer.pos] \in Segment  BY <1>1 DEF Segment
  <2>5. DOMAIN segs' = DOMAIN segs /\ segs' \in [DOMAIN segs' -> Segment]
    BY <1>1, <1>3, <2>4 DEF TypeInv, TypeOK
  <2>. QED  BY <1>1, <2>3, <2>5, TypeFail DEF SyncLogFails
<1>. QED  BY <1>1, <1>2, <1>3 DEF SyncLogFails

\* A flush changes what is synced and nothing else.
LEMMA TypeFlush == ASSUME TypeInv, Flush PROVE TypeInv'
<1>. USE DEF Flush
<1>1. \A b \in DOMAIN disk : [disk[b] EXCEPT !.synced = Len(disk[b].log)] \in File
  <2>. TAKE b \in DOMAIN disk
  <2>1. disk[b] \in File /\ disk[b].log \in Seq(Cell)  BY DEF TypeInv, TypeOK, File
  <2>2. Len(disk[b].log) \in Nat  BY <2>1, LenProperties
  <2>. QED  BY <2>1, <2>2 DEF File
<1>2. DOMAIN disk' = DOMAIN disk /\ disk' \in [DOMAIN disk' -> File]
  BY <1>1 DEF TypeInv, TypeOK
<1>3. TypeOK'  BY <1>2 DEF TypeInv, TypeOK
<1>4. Control'  BY <1>2 DEF TypeInv, Control
<1>. QED  BY <1>3, <1>4 DEF TypeInv

\* The broker stops.
LEMMA TypeCrash == ASSUME TypeInv, Crash PROVE TypeInv'
<1>. USE DEF Crash
<1>1. /\ DOMAIN disk' = DOMAIN disk /\ disk' \in [DOMAIN disk' -> File]
  <2>1. CASE UNCHANGED disk  BY <2>1 DEF TypeInv, TypeOK
  <2>2. CASE /\ writer.pc = "write"
             /\ disk' = [disk EXCEPT ![writer.base].log =
                  @ \o SubSeq(Encode(segs[writer.base].next, Head(writer.batch)), 1, 1)]
    <3>1. writer.base = active  BY <2>2, WriterFacts
    <3>2. disk' = [disk EXCEPT ![active].log =
                  @ \o SubSeq(Encode(segs[active].next, Head(writer.batch)), 1, 1)]
      BY <2>2, <3>1
    <3>3. 1 \in 0 .. 2  OBVIOUS
    <3>. QED  BY ONLY TypeInv, <2>2, <3>2, <3>3, TypeWrite
  <2>. QED  BY <2>1, <2>2
<1>2. DOMAIN segs' = {} /\ segs' \in [DOMAIN segs' -> Segment]  OBVIOUS
<1>3. crashes' \in Nat  BY DEF TypeInv, TypeOK
<1>4. TypeOK'  BY <1>1, <1>2, <1>3, IdleType DEF TypeInv, TypeOK
<1>5. Control'  BY <1>1, IdleType DEF TypeInv, TypeOK, Control
<1>. QED  BY <1>4, <1>5 DEF TypeInv

\* Power loss cuts the tail of one log file off.
LEMMA LoseTailFile ==
    ASSUME TypeInv, NEW b \in DOMAIN disk, LoseTail(b)
    PROVE  /\ DOMAIN disk' = DOMAIN disk /\ disk' \in [DOMAIN disk' -> File]
           /\ \E k \in disk[b].synced .. Len(disk[b].log) :
                 /\ k \in 0 .. Len(disk[b].log)
                 /\ Truncated(disk'[b].log, disk[b].log, k)
                 /\ disk'[b].synced = k
           /\ \A c \in DOMAIN disk : c # b => disk'[c] = disk[c]
<1>1. PICK k \in disk[b].synced .. Len(disk[b].log) - 1 :
          disk' = [disk EXCEPT ![b].log = SubSeq(@, 1, k), ![b].synced = k]
  BY DEF LoseTail
<1>2. disk[b] \in File /\ disk[b].log \in Seq(Cell) /\ disk[b].synced \in Nat
  BY DEF TypeInv, TypeOK, File
<1>3. Len(disk[b].log) \in Nat  BY <1>2, LenProperties
<1>4. k \in Nat /\ k \in 0 .. Len(disk[b].log) /\ k \in disk[b].synced .. Len(disk[b].log)
  BY <1>2, <1>3
<1>5. Truncated(SubSeq(disk[b].log, 1, k), disk[b].log, k)  BY <1>2, <1>4, TruncateCells
<1>6. SubSeq(disk[b].log, 1, k) \in Seq(Cell)  BY <1>5 DEF Truncated
<1>. DEFINE new == SubSeq(disk[b].log, 1, k)
<1>7. disk' = [disk EXCEPT ![b] = [disk[b] EXCEPT !.log = new, !.synced = k]]  BY <1>1
<1>. HIDE DEF new
<1>8. new \in Seq(Cell) /\ Truncated(new, disk[b].log, k)  BY <1>5, <1>6 DEF new
<1>9. [disk[b] EXCEPT !.log = new, !.synced = k] \in File  BY <1>2, <1>4, <1>8 DEF File
<1>10. DOMAIN disk' = DOMAIN disk /\ disk' \in [DOMAIN disk' -> File]
  BY <1>7, <1>9, DiskUpdate
<1>11. disk'[b].log = new /\ disk'[b].synced = k
  BY <1>2, <1>7 DEF File, TypeInv, TypeOK
<1>12. \A c \in DOMAIN disk : c # b => disk'[c] = disk[c]
  BY <1>7
<1>. QED  BY <1>4, <1>8, <1>10, <1>11, <1>12

\* The machine loses a tail that was not synced.
LEMMA TypeLoseTail == ASSUME TypeInv, NEW b \in DOMAIN disk, LoseTail(b) PROVE TypeInv'
<1>1. DOMAIN disk' = DOMAIN disk /\ disk' \in [DOMAIN disk' -> File]  BY LoseTailFile
<1>2. TypeOK'  BY <1>1 DEF LoseTail, TypeInv, TypeOK
<1>3. Control'  BY <1>1 DEF LoseTail, TypeInv, Control
<1>. QED  BY <1>2, <1>3 DEF TypeInv

\* A scan returns an offset whatever the file holds.
LEMMA ScanType ==
    ASSUME NEW log \in Seq(Cell), NEW b \in Nat
    PROVE  ScanForNextOffset(log, b) \in Nat
<1>. DEFINE n == Decodable(log, 0)
<1>1. /\ n \in 0 .. Len(log)
      /\ \A i \in 0 .. n - 1 : Decodes(log, 0 + 2 * i)
  BY DecodableExists
<1>2. ScanForNextOffset(log, b) =
        IF log = <<>> THEN b ELSE IF n = 0 THEN b + 1 ELSE log[2 * n].offset + 1
  BY DEF ScanForNextOffset
<1>. HIDE DEF n
<1>3. ASSUME n # 0 PROVE log[2 * n].offset \in Nat
  <2>1. /\ 0 + 2 * (n - 1) \in Nat /\ Decodes(log, 0 + 2 * (n - 1))
        /\ (0 + 2 * (n - 1)) + 2 = 2 * n
    BY <1>1, <1>3
  <2>2. log[(0 + 2 * (n - 1)) + 2] \in Cell  BY ONLY log \in Seq(Cell), <2>1, DecodesInside
  <2>. QED  BY <2>1, <2>2 DEF Cell
<1>. QED  BY <1>2, <1>3

\* Opening a well-typed file gives a well-typed segment.
LEMMA OpenSegmentType ==
    ASSUME NEW f \in File, NEW b \in Nat PROVE OpenSegment(f, b) \in Segment
<1>1. f.log \in Seq(Cell) /\ f.idx \in Seq(Entry)  BY DEF File
<1>2. Len(f.log) \in Nat /\ Len(f.idx) \in Nat  BY <1>1, LenProperties
<1>3. ScanForNextOffset(f.log, b) \in Nat  BY <1>1, ScanType
<1>. QED  BY <1>2, <1>3 DEF OpenSegment, Segment

\* The broker opens what is on disk.
LEMMA TypeOpen == ASSUME TypeInv, Open PROVE TypeInv'
<1>. USE DEF Open
<1>1. DOMAIN disk \subseteq Nat /\ disk \in [DOMAIN disk -> File]  BY DEF TypeInv, TypeOK
<1>2. CASE \A b \in DOMAIN disk : disk[b].hasIdx
  <2>1. \A b \in DOMAIN disk : OpenSegment(disk[b], b) \in Segment
    BY <1>1, OpenSegmentType
  <2>2. DOMAIN segs' = DOMAIN disk /\ segs' \in [DOMAIN segs' -> Segment]
    BY <1>2, <2>1
  <2>3. active' \in DOMAIN disk
    <3>1. \E top \in DOMAIN disk : \A b \in DOMAIN disk : b <= top
      BY DEF TypeInv, Control
    <3>2. active' = CHOOSE b \in DOMAIN disk : \A c \in DOMAIN disk : c <= b
      BY <1>2
    <3>. QED  BY <3>1, <3>2, Zenon
  <2>4. TypeOK'  BY <1>1, <1>2, <2>2, <2>3 DEF TypeInv, TypeOK
  <2>5. Control'  BY <1>2, <2>2, <2>3 DEF TypeInv, Control
  <2>. QED  BY <2>4, <2>5 DEF TypeInv
<1>3. CASE ~\A b \in DOMAIN disk : disk[b].hasIdx
  <2>1. status' = "failed" /\ UNCHANGED <<segs, active>>  BY <1>3
  <2>2. TypeOK'  BY <2>1 DEF TypeInv, TypeOK
  <2>3. Control'  BY <2>1 DEF TypeInv, Control
  <2>. QED  BY <2>2, <2>3 DEF TypeInv
<1>. QED  BY <1>2, <1>3

\* Every step keeps the type invariant.
LEMMA TypeStep == TypeInv /\ [Next]_vars => TypeInv'
<1>. SUFFICES ASSUME TypeInv, [Next]_vars PROVE TypeInv'  OBVIOUS
<1>1. CASE \E batch \in Batches : BeginAppend(batch) \/ RotateLog(batch)
  BY <1>1, TypeBegin, TypeRotate
<1>2. CASE CreateIndex  BY <1>2, TypeCreateIndex
<1>3. CASE WriteRecord  BY <1>3, TypeWriteRecord
<1>4. CASE IndexRecord  BY <1>4, TypeIndexRecord
<1>5. CASE SyncLog  BY <1>5, TypeSyncLog
<1>6. CASE CreateIndexFails  BY <1>6, TypeCreateIndexFails
<1>7. CASE WriteRecordFails  BY <1>7, TypeWriteRecordFails
<1>8. CASE IndexRecordFails  BY <1>8, TypeIndexRecordFails
<1>9. CASE SyncLogFails  BY <1>9, TypeSyncLogFails
<1>10. CASE Flush  BY <1>10, TypeFlush
<1>11. CASE Crash  BY <1>11, TypeCrash
<1>12. CASE Open  BY <1>12, TypeOpen
<1>13. CASE \E b \in DOMAIN disk : LoseTail(b)  BY <1>13, TypeLoseTail
<1>14. CASE UNCHANGED vars
  BY <1>14 DEF vars, TypeInv, TypeOK, Control
<1>. QED
  BY <1>1, <1>2, <1>3, <1>4, <1>5, <1>6, <1>7, <1>8, <1>9, <1>10, <1>11, <1>12,
     <1>13, <1>14 DEF Next

\* The type invariant and the control invariant hold in every state.
LEMMA TypeInvariance == Spec => []TypeInv
BY TypeInit, TypeStep, PTL DEF Spec

\* The files, the open segments and the append in progress are well typed in
\* every state, whatever fails and whenever the broker stops.
THEOREM TypeCorrectness == Spec => []TypeOK
<1>1. TypeInv => TypeOK  BY DEF TypeInv
<1>. QED  BY <1>1, TypeInvariance, PTL

-----------------------------------------------------------------------------
(* The order of offsets, on disk and across the segments.                  *)

\* No step but a write, a rotation or a power loss changes a log file.
SameLogs ==
    /\ DOMAIN disk' = DOMAIN disk
    /\ \A b \in DOMAIN disk : disk'[b].log = disk[b].log

\* What the invariants say of the files and counters of an open partition.
LEMMA OpenFacts ==
    ASSUME TypeInv, status = "up"
    PROVE  /\ active \in DOMAIN segs /\ active \in DOMAIN disk /\ active \in Nat
           /\ DOMAIN disk \subseteq Nat /\ DOMAIN segs \subseteq DOMAIN disk
           /\ \A b \in DOMAIN disk : disk[b] \in File /\ disk[b].log \in Seq(Cell)
           /\ \A b \in DOMAIN segs : /\ segs[b] \in Segment
                                     /\ segs[b].next \in Nat /\ segs[b].size \in Nat
           /\ MaxSize \in Nat /\ MaxSize > 0
<1>1. /\ active \in DOMAIN segs /\ DOMAIN disk \subseteq Nat /\ DOMAIN segs \subseteq DOMAIN disk
      /\ disk \in [DOMAIN disk -> File] /\ segs \in [DOMAIN segs -> Segment]
  BY DEF TypeInv, TypeOK, Control
<1>2. \A b \in DOMAIN disk : disk[b] \in File /\ disk[b].log \in Seq(Cell)
  BY <1>1 DEF File
<1>3. \A b \in DOMAIN segs : /\ segs[b] \in Segment
                             /\ segs[b].next \in Nat /\ segs[b].size \in Nat
  BY <1>1 DEF Segment
<1>. QED  BY <1>1, <1>2, <1>3, PartitionLogAssumption

\* One empty segment is in order.
LEMMA OrderInit == Init => OrderInv
<1>. SUFFICES ASSUME Init PROVE OrderInv  OBVIOUS
<1>1. disk[0].log = <<>> /\ DOMAIN disk = {0}  BY DEF Init, EmptyFile
<1>2. \A k \in Nat : ~InPrefix(<<>>, k)
  <2>1. ~Decodes(<<>>, 2 * 0)  BY DEF Decodes
  <2>. QED  BY <2>1 DEF InPrefix
<1>3. Len(<<>>) = 0  OBVIOUS
<1>4. Ordered(<<>>, 0) /\ \A c \in Nat : Below(<<>>, c)  BY <1>2, <1>3 DEF Ordered, Below
<1>5. DiskOrder  BY <1>1, <1>4 DEF DiskOrder
<1>6. OpenOrder
  <2>1. /\ active = 0 /\ segs[active].next = 0 /\ segs[active].size = 0
        /\ DOMAIN segs = {0} /\ writer.pc = "idle"
    BY DEF Init, CreateSegment, Idle
  <2>2. Below(disk[active].log, segs[active].next + 1)  BY <1>1, <1>4, <2>1
  <2>. QED  BY <1>1, <2>1, <2>2, PartitionLogAssumption DEF OpenOrder
<1>7. SegmentsDisjoint  BY DEF SegmentsDisjoint, Init
<1>. QED  BY <1>5, <1>6, <1>7 DEF OrderInv

\* The order on disk only depends on the log files.
LEMMA DiskOrderSame == ASSUME DiskOrder, SameLogs PROVE DiskOrder'
BY DEF DiskOrder, SameLogs

\* Steps that touch neither a log file nor next_offset nor size, and do not
\* finish a batch, keep the order.
LEMMA OrderQuiet ==
    ASSUME TypeInv, OrderInv, status = "up", SameLogs,
           DOMAIN segs' = DOMAIN segs, UNCHANGED <<active, status>>,
           \A b \in DOMAIN segs : segs'[b].next = segs[b].next /\ segs'[b].size = segs[b].size,
           writer'.pc # "sync"
    PROVE  OrderInv'
<1>1. active \in DOMAIN segs /\ active \in DOMAIN disk /\ DOMAIN segs \subseteq DOMAIN disk
  BY OpenFacts
<1>2. DiskOrder'  BY DiskOrderSame DEF OrderInv
<1>3. /\ segs'[active'].next = segs[active].next /\ segs'[active'].size = segs[active].size
      /\ disk'[active'].log = disk[active].log
  BY <1>1 DEF SameLogs
<1>4. OpenOrder'
  <2>1. \A c \in DOMAIN disk' \ DOMAIN segs' :
            disk'[c].log = <<>> /\ c = segs'[active'].next /\ segs'[active'].size >= MaxSize
    BY <1>3 DEF OrderInv, OpenOrder, SameLogs
  <2>. QED  BY <1>3, <2>1 DEF OrderInv, OpenOrder
<1>5. SegmentsDisjoint'  BY DEF OrderInv, SegmentsDisjoint
<1>. QED  BY <1>2, <1>4, <1>5 DEF OrderInv

\* While a batch is written, the active segment has the last log file on disk.
LEMMA ActiveIsLast ==
    ASSUME TypeInv, OrderInv, writer.pc \in {"write", "index", "sync"}
    PROVE  /\ DOMAIN disk = DOMAIN segs
           /\ \A b \in DOMAIN disk : b <= active
<1>1. status = "up" /\ DOMAIN segs \subseteq DOMAIN disk /\ segs[active].size \in Nat /\ MaxSize \in Nat
  BY WriterFacts, OpenFacts
<1>2. segs[active].size < MaxSize  BY DEF TypeInv, Control
<1>3. \A c \in DOMAIN disk \ DOMAIN segs : segs[active].size >= MaxSize
  BY <1>1 DEF OrderInv, OpenOrder
<1>4. DOMAIN disk = DOMAIN segs  BY <1>1, <1>2, <1>3
<1>. QED  BY <1>1, <1>4 DEF OrderInv, OpenOrder

\* Writing a record, whole or in part, keeps the order on disk, and the file
\* then holds nothing that can be scanned above next_offset.
LEMMA OrderWrite ==
    ASSUME TypeInv, OrderInv, NEW k \in 0 .. 2, writer.pc = "write",
           disk' = [disk EXCEPT ![active].log =
                      @ \o SubSeq(Encode(segs[active].next, Head(writer.batch)), 1, k)]
    PROVE  DiskOrder' /\ Below(disk'[active].log, segs[active].next + 1)
<1>1. /\ DOMAIN disk' = DOMAIN disk
      /\ Extended(disk'[active].log, disk[active].log,
                  segs[active].next, Head(writer.batch), k)
  BY TypeWrite
<1>2. /\ status = "up" /\ active \in DOMAIN disk /\ active \in Nat
      /\ disk[active].log \in Seq(Cell) /\ segs[active].next \in Nat /\ Head(writer.batch) \in Msgs
  BY WriterFacts
<1>3. /\ active <= segs[active].next
      /\ Ordered(disk[active].log, active)
      /\ Below(disk[active].log, segs[active].next + 1)
  BY <1>2 DEF OrderInv, OpenOrder, DiskOrder
<1>4. /\ Ordered(disk'[active].log, active)
      /\ Below(disk'[active].log, segs[active].next + 1)
  BY <1>1, <1>2, <1>3, AppendOrdered
<1>5. \A b \in DOMAIN disk : b # active => disk'[b] = disk[b]
  OBVIOUS
<1>6. \A c \in DOMAIN disk : ~(active < c)
  <2>1. \A c \in DOMAIN disk : c <= active /\ c \in Nat
    BY ActiveIsLast DEF TypeInv, TypeOK
  <2>. QED  BY <1>2, <2>1
<1>7. DiskOrder'
  <2>1. ASSUME NEW b \in DOMAIN disk PROVE Ordered(disk'[b].log, b)
    BY <1>4, <1>5 DEF OrderInv, DiskOrder
  <2>2. ASSUME NEW b \in DOMAIN disk, NEW c \in DOMAIN disk, b < c PROVE Below(disk'[b].log, c)
    BY <1>5, <1>6, <2>2 DEF OrderInv, DiskOrder
  <2>. QED  BY <1>1, <2>1, <2>2 DEF DiskOrder
<1>. QED  BY <1>4, <1>7

\* A write that leaves the partition open keeps the whole order.
LEMMA OrderWriteOpen ==
    ASSUME TypeInv, OrderInv, NEW k \in 0 .. 2, writer.pc = "write",
           disk' = [disk EXCEPT ![active].log =
                      @ \o SubSeq(Encode(segs[active].next, Head(writer.batch)), 1, k)],
           UNCHANGED <<segs, active, status>>, writer'.pc # "sync"
    PROVE  OrderInv'
<1>1. DiskOrder' /\ Below(disk'[active].log, segs[active].next + 1)  BY OrderWrite
<1>2. DOMAIN disk' = DOMAIN disk  BY TypeWrite
<1>3. DOMAIN disk = DOMAIN segs  BY ActiveIsLast
<1>4. status = "up" /\ segs[active].size \in Nat /\ MaxSize \in Nat  BY WriterFacts, OpenFacts
<1>5. segs[active].size < MaxSize  BY DEF TypeInv, Control
<1>6. OpenOrder'
  BY <1>1, <1>2, <1>3, <1>4, <1>5 DEF OrderInv, OpenOrder
<1>7. SegmentsDisjoint'  BY DEF OrderInv, SegmentsDisjoint
<1>. QED  BY <1>1, <1>6, <1>7 DEF OrderInv

\* The base of a new file is the next offset, above all that was written.
LEMMA OrderRotate ==
    ASSUME TypeInv, OrderInv, NEW batch \in Batches, RotateLog(batch) PROVE OrderInv'
<1>. USE DEF RotateLog, CanAppend
<1>. DEFINE base == segs[active].next
<1>1. /\ active \in DOMAIN segs /\ active \in DOMAIN disk /\ active \in Nat
      /\ DOMAIN disk \subseteq Nat /\ DOMAIN segs \subseteq DOMAIN disk
      /\ \A b \in DOMAIN disk : disk[b].log \in Seq(Cell)
      /\ base \in Nat /\ segs[active].size \in Nat /\ MaxSize \in Nat /\ MaxSize > 0
  BY OpenFacts
<1>2. segs[active].size >= MaxSize  BY DEF ShouldRotate
<1>3. base > active /\ Below(disk[active].log, base)
  BY <1>1, <1>2 DEF OrderInv, OpenOrder
<1>4. \A b \in DOMAIN segs : b <= active  BY DEF OrderInv, OpenOrder
<1>5. \A c \in DOMAIN disk \ DOMAIN segs : c = base /\ disk[c].log = <<>>
  BY DEF OrderInv, OpenOrder
<1>6. /\ DOMAIN disk' = DOMAIN disk \cup {base}
      /\ \A b \in DOMAIN disk : disk'[b] = disk[b]
      /\ base \notin DOMAIN disk => disk'[base].log = <<>>
  BY DEF EmptyFile
<1>7. base \notin DOMAIN segs  BY <1>1, <1>3, <1>4
<1>8. disk'[base].log = <<>>
  BY <1>5, <1>6, <1>7
<1>9. Ordered(<<>>, base)
  <2>1. ~Decodes(<<>>, 2 * 0) /\ Len(<<>>) = 0  BY DEF Decodes
  <2>2. \A k \in 0 .. Len(<<>>) : ~InPrefix(<<>>, k)  BY <2>1 DEF InPrefix
  <2>. QED  BY <2>2 DEF Ordered
<1>10. \A b \in DOMAIN segs : b # base /\ b < base /\ disk'[b] = disk[b]
  <2>. TAKE b \in DOMAIN segs
  <2>1. b \in Nat /\ b \in DOMAIN disk /\ b <= active  BY <1>1, <1>4
  <2>2. b < base  BY ONLY <1>1, <1>3, <2>1
  <2>. QED  BY <1>6, <1>7, <2>1, <2>2
<1>11. \A b \in DOMAIN disk' : b \in DOMAIN segs \/ b = base
  BY <1>5, <1>6
<1>12. ASSUME NEW b \in DOMAIN segs PROVE Below(disk[b].log, base)
  <2>1. CASE b = active  BY <1>3, <2>1
  <2>2. CASE b # active
    <3>1. b < active  BY <1>1, <1>4, <2>2
    <3>2. Below(disk[b].log, active)  BY <1>1, <3>1 DEF OrderInv, DiskOrder
    <3>. QED  BY <1>1, <1>3, <3>2, BelowMonotonic
  <2>. QED  BY <2>1, <2>2
<1>13. DiskOrder'
  <2>1. ASSUME NEW b \in DOMAIN disk' PROVE Ordered(disk'[b].log, b)
    <3>1. CASE b = base  BY <1>8, <1>9, <3>1
    <3>2. CASE b \in DOMAIN segs  BY <1>1, <1>10, <3>2 DEF OrderInv, DiskOrder
    <3>. QED  BY <1>11, <3>1, <3>2
  <2>2. ASSUME NEW b \in DOMAIN disk', NEW c \in DOMAIN disk', b < c PROVE Below(disk'[b].log, c)
    <3>1. b \in DOMAIN segs
      <4>. SUFFICES ASSUME b = base PROVE FALSE  BY <1>11
      <4>1. c = base \/ c < base  BY <1>10, <1>11
      <4>2. c \in Nat  BY <1>1, <1>6
      <4>. QED  BY <1>1, <2>2, <4>1, <4>2
    <3>2. CASE c = base  BY <1>10, <1>12, <3>1, <3>2
    <3>3. CASE c \in DOMAIN segs  BY <1>1, <1>10, <2>2, <3>1, <3>3 DEF OrderInv, DiskOrder
    <3>. QED  BY <1>11, <3>2, <3>3
  <2>. QED  BY <2>1, <2>2 DEF DiskOrder
<1>14. OpenOrder'
  <2>1. \A c \in DOMAIN disk' \ DOMAIN segs : disk'[c].log = <<>> /\ c = base
    BY <1>8, <1>11
  <2>2. disk'[active] = disk[active]  BY <1>1, <1>6
  <2>3. writer'.pc = "create_index"  OBVIOUS
  <2>. QED  BY <1>2, <2>1, <2>2, <2>3 DEF OrderInv, OpenOrder
<1>15. SegmentsDisjoint'  BY DEF OrderInv, SegmentsDisjoint
<1>. QED  BY <1>13, <1>14, <1>15 DEF OrderInv

\* The new segment starts where the last one ends.
LEMMA OrderCreateIndex == ASSUME TypeInv, OrderInv, CreateIndex PROVE OrderInv'
<1>. USE DEF CreateIndex
<1>. DEFINE base == writer.base
<1>1. status = "up" /\ base = segs[active].next /\ base \in DOMAIN disk /\ segs[active].size >= MaxSize
  BY DEF TypeInv, TypeOK, Control
<1>2. /\ active \in DOMAIN segs /\ active \in Nat /\ base \in Nat
      /\ DOMAIN disk \subseteq Nat /\ DOMAIN segs \subseteq DOMAIN disk
      /\ disk[base] \in File /\ \A b \in DOMAIN segs : segs[b].next \in Nat
      /\ segs[active].size \in Nat /\ MaxSize \in Nat /\ MaxSize > 0
  BY <1>1, OpenFacts
<1>3. base > active  BY <1>1, <1>2 DEF OrderInv, OpenOrder
<1>4. \A b \in DOMAIN segs : b <= active /\ b \in Nat  BY <1>1, <1>2 DEF OrderInv, OpenOrder
<1>5. base \notin DOMAIN segs /\ \A b \in DOMAIN segs : b < base  BY <1>2, <1>3, <1>4
<1>6. disk[base].log = <<>> /\ \A c \in DOMAIN disk \ DOMAIN segs : c = base
  BY <1>1, <1>5 DEF OrderInv, OpenOrder
<1>7. SameLogs
  <2>1. DOMAIN disk' = DOMAIN disk  OBVIOUS
  <2>2. \A b \in DOMAIN disk : b # base => disk'[b] = disk[b]  OBVIOUS
  <2>3. disk'[base].log = disk[base].log  BY <1>1, <1>2 DEF File
  <2>. QED  BY <2>1, <2>2, <2>3 DEF SameLogs
<1>8. DiskOrder'  BY <1>7, DiskOrderSame DEF OrderInv
<1>9. /\ DOMAIN segs' = DOMAIN segs \cup {base} /\ active' = base
      /\ segs'[base].next = base /\ segs'[base].size = 0
      /\ \A b \in DOMAIN segs : segs'[b] = segs[b]
  BY <1>5 DEF CreateSegment
<1>10. writer'.pc = "write"  BY DEF TypeInv, TypeOK
<1>11. Below(disk'[base].log, base + 1)
  <2>1. ~Decodes(<<>>, 2 * 0)  BY DEF Decodes
  <2>2. \A k \in 0 .. Len(<<>>) : ~InPrefix(<<>>, k)  BY <2>1 DEF InPrefix
  <2>3. Below(<<>>, base + 1)  BY ONLY <2>2 DEF Below
  <2>4. disk'[base].log = <<>>  BY ONLY <1>1, <1>6, <1>7 DEF SameLogs
  <2>. QED  BY ONLY <2>3, <2>4
<1>12. \A b \in DOMAIN segs' : b <= base  BY <1>2, <1>5, <1>9
<1>13. DOMAIN disk' \ DOMAIN segs' = {}  BY <1>6, <1>7, <1>9 DEF SameLogs
<1>14. OpenOrder'
  BY <1>2, <1>9, <1>10, <1>11, <1>12, <1>13 DEF OpenOrder
<1>15. SegmentsDisjoint'
  <2>. SUFFICES ASSUME NEW b \in DOMAIN segs', NEW c \in DOMAIN segs', b < c
                PROVE  segs'[b].next <= c
    BY DEF SegmentsDisjoint
  <2>1. b \in DOMAIN segs
    BY <1>2, <1>5, <1>9
  <2>2. CASE c \in DOMAIN segs  BY <1>9, <2>1, <2>2 DEF OrderInv, SegmentsDisjoint
  <2>3. CASE c = base
    <3>1. CASE b = active  BY <1>1, <1>2, <1>9, <2>3, <3>1
    <3>2. CASE b # active
      <4>1. b < active  BY <1>2, <1>4, <2>1, <3>2
      <4>2. segs[b].next <= active  BY <1>2, <2>1, <4>1 DEF OrderInv, SegmentsDisjoint
      <4>. QED  BY <1>2, <1>3, <1>9, <2>1, <2>3, <4>2
    <3>. QED  BY <3>1, <3>2
  <2>. QED  BY <1>9, <2>2, <2>3
<1>. QED  BY <1>8, <1>14, <1>15 DEF OrderInv

\* Only the next offset of the active, last segment moves.
LEMMA OrderIndexRecord == ASSUME TypeInv, OrderInv, IndexRecord PROVE OrderInv'
<1>. USE DEF IndexRecord
<1>1. /\ writer.base = active /\ status = "up" /\ active \in DOMAIN segs
      /\ active \in DOMAIN disk /\ active \in Nat
      /\ segs[active] \in Segment /\ disk[active] \in File
      /\ segs[active].next \in Nat /\ segs[active].size \in Nat
  BY WriterFacts
<1>2. /\ DOMAIN segs' = DOMAIN segs
      /\ segs'[active].next = segs[active].next + 1 /\ segs'[active].size = segs[active].size
      /\ \A b \in DOMAIN segs : b # active => segs'[b] = segs[b]
  BY <1>1 DEF Segment
<1>3. SameLogs
  <2>1. DOMAIN disk' = DOMAIN disk  OBVIOUS
  <2>2. \A b \in DOMAIN disk : b # active => disk'[b] = disk[b]  BY <1>1
  <2>3. disk'[active].log = disk[active].log  BY <1>1 DEF File
  <2>. QED  BY <2>1, <2>2, <2>3 DEF SameLogs
<1>4. DiskOrder'  BY <1>3, DiskOrderSame DEF OrderInv
<1>5. DOMAIN disk = DOMAIN segs /\ \A b \in DOMAIN disk : b <= active /\ b \in Nat
  BY ActiveIsLast DEF TypeInv, TypeOK
<1>6. segs[active].size < MaxSize /\ MaxSize \in Nat
  BY PartitionLogAssumption DEF TypeInv, Control
<1>7. OpenOrder'
  <2>1. DOMAIN disk' \ DOMAIN segs' = {}  BY <1>2, <1>3, <1>5 DEF SameLogs
  <2>2. disk'[active].log = disk[active].log  BY <1>1, <1>3 DEF SameLogs
  <2>3. Below(disk[active].log, segs[active].next + 1) /\ segs[active].next >= active
    BY <1>1 DEF OrderInv, OpenOrder
  <2>4. Below(disk[active].log, segs[active].next + 1 + 1)
    <3>1. /\ segs[active].next + 1 \in Nat /\ segs[active].next + 1 + 1 \in Nat
          /\ segs[active].next + 1 <= segs[active].next + 1 + 1 /\ disk[active].log \in Seq(Cell)
      BY <1>1, WriterFacts
    <3>. QED  BY ONLY <2>3, <3>1, BelowMonotonic
  <2>5. segs[active].next + 1 >= active /\ segs[active].next + 1 > active
    BY <1>1, <2>3
  <2>. QED  BY <1>1, <1>2, <1>5, <2>1, <2>2, <2>3, <2>4, <2>5 DEF OpenOrder
<1>8. SegmentsDisjoint'
  <2>. SUFFICES ASSUME NEW b \in DOMAIN segs, NEW c \in DOMAIN segs, b < c
                PROVE  segs'[b].next <= c
    BY <1>2 DEF SegmentsDisjoint
  <2>1. b # active  BY <1>1, <1>5
  <2>. QED  BY <1>2, <2>1 DEF OrderInv, SegmentsDisjoint
<1>. QED  BY <1>4, <1>7, <1>8 DEF OrderInv

\* Once the batch is on disk its size may be recorded: everything scanned is
\* below next_offset, so the segment may now be full.
LEMMA OrderSynced ==
    ASSUME TypeInv, OrderInv, writer.pc = "sync", SameLogs,
           DOMAIN segs' = DOMAIN segs, UNCHANGED <<active, status>>,
           \A b \in DOMAIN segs : segs'[b].next = segs[b].next,
           writer'.pc = "idle"
    PROVE  OrderInv'
<1>1. /\ status = "up" /\ active \in DOMAIN segs /\ active \in DOMAIN disk
  BY WriterFacts
<1>2. DiskOrder'  BY DiskOrderSame DEF OrderInv
<1>3. DOMAIN disk' \ DOMAIN segs' = {}  BY ActiveIsLast DEF SameLogs
<1>4. /\ segs'[active'].next = segs[active].next /\ disk'[active'].log = disk[active].log
  BY <1>1 DEF SameLogs
<1>5. OpenOrder'  BY <1>1, <1>3, <1>4 DEF OrderInv, OpenOrder
<1>6. SegmentsDisjoint'  BY DEF OrderInv, SegmentsDisjoint
<1>. QED  BY <1>2, <1>5, <1>6 DEF OrderInv

\* A sync moves no offset.
LEMMA OrderSyncLog == ASSUME TypeInv, OrderInv, SyncLog PROVE OrderInv'
<1>. USE DEF SyncLog
<1>1. /\ writer.base = active /\ active \in DOMAIN segs /\ active \in DOMAIN disk
      /\ segs[active] \in Segment /\ disk[active] \in File
  BY WriterFacts
<1>2. SameLogs
  <2>1. DOMAIN disk' = DOMAIN disk  OBVIOUS
  <2>2. \A b \in DOMAIN disk : b # active => disk'[b] = disk[b]  BY <1>1
  <2>3. disk'[active].log = disk[active].log  BY <1>1 DEF File
  <2>. QED  BY <2>1, <2>2, <2>3 DEF SameLogs
<1>3. DOMAIN segs' = DOMAIN segs /\ \A b \in DOMAIN segs : segs'[b].next = segs[b].next
  <2>1. DOMAIN segs' = DOMAIN segs  OBVIOUS
  <2>2. \A b \in DOMAIN segs : b # active => segs'[b] = segs[b]  BY <1>1
  <2>3. segs'[active].next = segs[active].next  BY <1>1 DEF Segment
  <2>. QED  BY <2>1, <2>2, <2>3
<1>. QED  BY <1>2, <1>3, OrderSynced, IdleType

\* A failed index entry moves no offset.
LEMMA OrderIndexRecordFails == ASSUME TypeInv, OrderInv, IndexRecordFails PROVE OrderInv'
<1>1. /\ status = "up" /\ writer.base = active /\ active \in DOMAIN segs /\ active \in DOMAIN disk
      /\ segs[active] \in Segment /\ disk[active] \in File
  BY WriterFacts DEF IndexRecordFails
<1>2. SameLogs
  <2>1. CASE UNCHANGED <<disk, segs>>  BY <2>1 DEF SameLogs
  <2>2. CASE disk' = [disk EXCEPT ![active].idx =
                          PutEntry(@, segs[active].cursor, NewEntry(active))]
    <3>1. \A b \in DOMAIN disk : b # active => disk'[b] = disk[b]  BY <2>2
    <3>2. disk'[active].log = disk[active].log  BY <1>1, <2>2 DEF File
    <3>3. DOMAIN disk' = DOMAIN disk  BY <2>2
    <3>. QED  BY <3>1, <3>2, <3>3 DEF SameLogs
  <2>. QED  BY <1>1, <2>1, <2>2 DEF IndexRecordFails
<1>3. /\ DOMAIN segs' = DOMAIN segs
      /\ \A b \in DOMAIN segs : segs'[b].next = segs[b].next /\ segs'[b].size = segs[b].size
  <2>1. CASE UNCHANGED <<disk, segs>>  BY <2>1
  <2>2. CASE segs' = [segs EXCEPT ![active].cursor = @ + 1]
    <3>1. DOMAIN segs' = DOMAIN segs  BY <2>2
    <3>2. \A b \in DOMAIN segs : b # active => segs'[b] = segs[b]  BY <2>2
    <3>3. segs'[active].next = segs[active].next /\ segs'[active].size = segs[active].size
      BY <1>1, <2>2 DEF Segment
    <3>. QED  BY <3>1, <3>2, <3>3
  <2>. QED  BY <1>1, <2>1, <2>2 DEF IndexRecordFails
<1>4. UNCHANGED <<active, status>> /\ writer'.pc # "sync"
  BY IdleType DEF IndexRecordFails, Fail
<1>. QED  BY <1>1, <1>2, <1>3, <1>4, OrderQuiet

\* A failed sync moves no offset.
LEMMA OrderSyncLogFails == ASSUME TypeInv, OrderInv, SyncLogFails PROVE OrderInv'
<1>1. /\ status = "up" /\ writer.base = active /\ active \in DOMAIN segs /\ active \in DOMAIN disk
      /\ segs[active] \in Segment /\ disk[active] \in File /\ writer.pc = "sync"
  BY WriterFacts DEF SyncLogFails
<1>2. UNCHANGED <<active, status>> /\ writer'.pc = "idle"
  BY IdleType DEF SyncLogFails, Fail
<1>3. SameLogs /\ DOMAIN segs' = DOMAIN segs /\ \A b \in DOMAIN segs : segs'[b].next = segs[b].next
  <2>1. CASE UNCHANGED <<disk, segs>>  BY <2>1 DEF SameLogs
  <2>2. CASE /\ disk' = [disk EXCEPT ![active].synced = Len(disk[active].log)]
             /\ segs' = [segs EXCEPT ![active].size = writer.pos]
    <3>1. DOMAIN disk' = DOMAIN disk /\ DOMAIN segs' = DOMAIN segs  BY <2>2
    <3>2. \A b \in DOMAIN disk : b # active => disk'[b] = disk[b]  BY <2>2
    <3>3. \A b \in DOMAIN segs : b # active => segs'[b] = segs[b]  BY <2>2
    <3>4. disk'[active].log = disk[active].log  BY <1>1, <2>2 DEF File
    <3>5. segs'[active].next = segs[active].next  BY <1>1, <2>2 DEF Segment
    <3>. QED  BY <3>1, <3>2, <3>3, <3>4, <3>5 DEF SameLogs
  <2>. QED  BY <1>1, <2>1, <2>2 DEF SyncLogFails
<1>. QED  BY <1>1, <1>2, <1>3, OrderSynced

\* A flush moves no offset.
LEMMA OrderFlush == ASSUME TypeInv, OrderInv, Flush PROVE OrderInv'
<1>1. \A b \in DOMAIN disk : disk[b] \in File  BY DEF TypeInv, TypeOK
<1>2. SameLogs  BY <1>1 DEF Flush, SameLogs, File
<1>. QED  BY <1>2, OrderQuiet DEF Flush

\* A broker that is not up has no open segment: only the order on disk counts.
LEMMA OrderClosed == ASSUME DiskOrder', segs' = <<>>, status' # "up" PROVE OrderInv'
BY DEF OrderInv, OpenOrder, SegmentsDisjoint

\* What is on disk stays in order when the broker stops.
LEMMA OrderCrash == ASSUME TypeInv, OrderInv, Crash PROVE OrderInv'
<1>1. DiskOrder'
  <2>1. CASE UNCHANGED disk  BY <2>1 DEF OrderInv, DiskOrder
  <2>2. CASE /\ writer.pc = "write"
             /\ disk' = [disk EXCEPT ![writer.base].log =
                  @ \o SubSeq(Encode(segs[writer.base].next, Head(writer.batch)), 1, 1)]
    <3>1. writer.base = active  BY <2>2, WriterFacts
    <3>2. disk' = [disk EXCEPT ![active].log =
                  @ \o SubSeq(Encode(segs[active].next, Head(writer.batch)), 1, 1)]
      BY <2>2, <3>1
    <3>3. 1 \in 0 .. 2  OBVIOUS
    <3>. QED  BY ONLY TypeInv, OrderInv, <2>2, <3>2, <3>3, OrderWrite
  <2>. QED  BY <2>1, <2>2 DEF Crash
<1>. QED  BY <1>1, OrderClosed DEF Crash

\* A shorter file ends no later than before.
LEMMA OrderLoseTail ==
    ASSUME TypeInv, OrderInv, NEW b \in DOMAIN disk, LoseTail(b) PROVE OrderInv'
<1>1. /\ DOMAIN disk' = DOMAIN disk
      /\ \A c \in DOMAIN disk : c # b => disk'[c] = disk[c]
  BY LoseTailFile
<1>2. PICK k \in 0 .. Len(disk[b].log) : Truncated(disk'[b].log, disk[b].log, k)
  BY LoseTailFile
<1>3. disk[b].log \in Seq(Cell) /\ DOMAIN disk \subseteq Nat  BY DEF TypeInv, TypeOK, File
<1>4. /\ \A c \in Nat : Ordered(disk[b].log, c) => Ordered(disk'[b].log, c)
      /\ \A c \in Nat : Below(disk[b].log, c) => Below(disk'[b].log, c)
  BY <1>2, <1>3, TruncateOrdered
<1>5. DiskOrder'
  <2>1. ASSUME NEW c \in DOMAIN disk PROVE Ordered(disk'[c].log, c)
    BY <1>1, <1>3, <1>4 DEF OrderInv, DiskOrder
  <2>2. ASSUME NEW c \in DOMAIN disk, NEW d \in DOMAIN disk, c < d PROVE Below(disk'[c].log, d)
    BY <1>1, <1>3, <1>4, <2>2 DEF OrderInv, DiskOrder
  <2>. QED  BY <1>1, <2>1, <2>2 DEF DiskOrder
<1>6. segs' = <<>> /\ status' # "up"
  BY DEF LoseTail, TypeInv, Control
<1>. QED  BY <1>5, <1>6, OrderClosed

\* Reopening: every next_offset comes from a scan, and what can be scanned of
\* one file lies between its base and the base of the next.
LEMMA OrderOpen == ASSUME TypeInv, OrderInv, Open PROVE OrderInv'
<1>1. DOMAIN disk \subseteq Nat /\ \A b \in DOMAIN disk : disk[b].log \in Seq(Cell)
  BY DEF TypeInv, TypeOK, File
<1>2. UNCHANGED disk /\ status # "up"  BY DEF Open
<1>3. DiskOrder'  BY <1>2 DEF OrderInv, DiskOrder
<1>4. CASE ~\A b \in DOMAIN disk : disk[b].hasIdx
  <2>1. segs' = <<>> /\ status' # "up"  BY <1>2, <1>4 DEF Open, TypeInv, Control
  <2>. QED  BY <1>3, <2>1, OrderClosed
<1>5. CASE \A b \in DOMAIN disk : disk[b].hasIdx
  <2>1. /\ segs' = [b \in DOMAIN disk |-> OpenSegment(disk[b], b)]
        /\ active' = CHOOSE b \in DOMAIN disk : \A c \in DOMAIN disk : c <= b
        /\ UNCHANGED writer
    BY <1>5 DEF Open
  <2>2. active' \in DOMAIN disk /\ \A c \in DOMAIN disk : c <= active'
    <3>1. \E top \in DOMAIN disk : \A b \in DOMAIN disk : b <= top  BY DEF TypeInv, Control
    <3>. QED  BY <2>1, <3>1, Zenon
  <2>3. /\ DOMAIN segs' = DOMAIN disk
        /\ \A b \in DOMAIN disk : /\ segs'[b].next = ScanForNextOffset(disk[b].log, b)
                                  /\ segs'[b].size = Len(disk[b].log)
    BY <2>1 DEF OpenSegment
  <2>4. \A b \in DOMAIN disk :
          /\ segs'[b].next \in Nat /\ segs'[b].next >= b
          /\ disk[b].log # <<>> => segs'[b].next > b
          /\ Below(disk[b].log, segs'[b].next)
          /\ \A c \in Nat : b < c /\ Below(disk[b].log, c) => segs'[b].next <= c
    <3>. TAKE b \in DOMAIN disk
    <3>1. Ordered(disk[b].log, b) /\ b \in Nat /\ disk[b].log \in Seq(Cell)
      BY <1>1 DEF OrderInv, DiskOrder
    <3>2. segs'[b].next = ScanForNextOffset(disk[b].log, b)  BY <2>3
    <3>. QED  BY ONLY <3>1, <3>2, ScanBounds
  <2>5. SegmentsDisjoint'
    <3>. SUFFICES ASSUME NEW b \in DOMAIN disk, NEW c \in DOMAIN disk, b < c
                  PROVE  segs'[b].next <= c
      BY <2>3 DEF SegmentsDisjoint
    <3>1. Below(disk[b].log, c) /\ c \in Nat  BY <1>1 DEF OrderInv, DiskOrder
    <3>. QED  BY <2>4, <3>1
  <2>6. OpenOrder'
    <3>. DEFINE a == active'
    <3>1. a \in DOMAIN disk /\ disk'[a].log = disk[a].log /\ disk[a].log \in Seq(Cell)
      BY <1>1, <1>2, <2>2
    <3>2. writer'.pc = "idle"  BY <1>2, <2>1 DEF TypeInv, Control
    <3>3. /\ segs'[a].next \in Nat /\ segs'[a].next >= a
          /\ disk[a].log # <<>> => segs'[a].next > a
          /\ Below(disk[a].log, segs'[a].next)
      BY <2>4, <3>1
    <3>4. Below(disk[a].log, segs'[a].next + 1)
      <4>1. segs'[a].next + 1 \in Nat /\ segs'[a].next <= segs'[a].next + 1  BY <3>3
      <4>. QED  BY <3>1, <3>3, <4>1, BelowMonotonic
    <3>5. segs'[a].size > 0 => segs'[a].next > a
      <4>1. segs'[a].size = Len(disk[a].log)  BY <2>3, <3>1
      <4>2. Len(<<>>) = 0  OBVIOUS
      <4>. QED  BY <3>3, <4>1, <4>2
    <3>6. DOMAIN disk' \ DOMAIN segs' = {}  BY <1>2, <2>3
    <3>7. \A b \in DOMAIN segs' : b <= a  BY <2>2, <2>3
    <3>. QED  BY <3>1, <3>2, <3>3, <3>4, <3>5, <3>6, <3>7 DEF OpenOrder
  <2>. QED  BY <1>3, <2>5, <2>6 DEF OrderInv
<1>. QED  BY <1>4, <1>5

\* Every step keeps the order of offsets.
LEMMA OrderStep == TypeInv /\ OrderInv /\ [Next]_vars => OrderInv'
<1>. SUFFICES ASSUME TypeInv, OrderInv, [Next]_vars PROVE OrderInv'  OBVIOUS
<1>1. ASSUME NEW batch \in Batches, BeginAppend(batch) PROVE OrderInv'
  <2>1. SameLogs /\ writer'.pc # "sync" /\ status = "up"
    BY <1>1 DEF BeginAppend, CanAppend, SameLogs
  <2>. QED  BY <1>1, <2>1, OrderQuiet DEF BeginAppend
<1>2. ASSUME NEW batch \in Batches, RotateLog(batch) PROVE OrderInv'
  BY <1>2, OrderRotate
<1>3. CASE CreateIndex  BY <1>3, OrderCreateIndex
<1>4. CASE WriteRecord
  <2>1. /\ writer.base = active /\ segs[active].next \in Nat /\ Head(writer.batch) \in Msgs
    BY <1>4, WriterFacts DEF WriteRecord
  <2>2. disk' = [disk EXCEPT ![active].log =
                  @ \o SubSeq(Encode(segs[active].next, Head(writer.batch)), 1, 2)]
    <3>1. SubSeq(Encode(segs[active].next, Head(writer.batch)), 1, 2) =
             Encode(segs[active].next, Head(writer.batch))
      BY <2>1, WholeRecord
    <3>. QED  BY <1>4, <2>1, <3>1 DEF WriteRecord
  <2>3. writer'.pc # "sync"  BY <1>4 DEF WriteRecord, TypeInv, TypeOK
  <2>4. writer.pc = "write" /\ UNCHANGED <<segs, active, status>>  BY <1>4 DEF WriteRecord
  <2>5. 2 \in 0 .. 2  OBVIOUS
  <2>. QED  BY ONLY TypeInv, OrderInv, <2>2, <2>3, <2>4, <2>5, OrderWriteOpen
<1>5. CASE IndexRecord  BY <1>5, OrderIndexRecord
<1>6. CASE SyncLog  BY <1>6, OrderSyncLog
<1>7. CASE CreateIndexFails
  <2>1. SameLogs /\ status = "up"
    BY <1>7 DEF CreateIndexFails, SameLogs, TypeInv, Control
  <2>2. writer'.pc # "sync"  BY <1>7, IdleType DEF CreateIndexFails, Fail
  <2>. QED  BY <1>7, <2>1, <2>2, OrderQuiet DEF CreateIndexFails
<1>8. CASE WriteRecordFails
  <2>1. writer.base = active  BY <1>8, WriterFacts DEF WriteRecordFails
  <2>2. PICK k \in 0 .. 1 : disk' = [disk EXCEPT ![active].log =
            @ \o SubSeq(Encode(segs[active].next, Head(writer.batch)), 1, k)]
    BY <1>8, <2>1 DEF WriteRecordFails
  <2>3. /\ writer.pc = "write" /\ UNCHANGED <<segs, active, status>> /\ writer'.pc # "sync"
    BY <1>8, IdleType DEF WriteRecordFails, Fail
  <2>4. k \in 0 .. 2  OBVIOUS
  <2>. QED  BY ONLY TypeInv, OrderInv, <2>2, <2>3, <2>4, OrderWriteOpen
<1>9. CASE IndexRecordFails  BY <1>9, OrderIndexRecordFails
<1>10. CASE SyncLogFails  BY <1>10, OrderSyncLogFails
<1>11. CASE Flush  BY <1>11, OrderFlush
<1>12. CASE Crash  BY <1>12, OrderCrash
<1>13. CASE Open  BY <1>13, OrderOpen
<1>14. ASSUME NEW b \in DOMAIN disk, LoseTail(b) PROVE OrderInv'  BY <1>14, OrderLoseTail
<1>15. CASE UNCHANGED vars
  BY <1>15 DEF vars, OrderInv, DiskOrder, OpenOrder, SegmentsDisjoint
<1>. QED
  BY <1>1, <1>2, <1>3, <1>4, <1>5, <1>6, <1>7, <1>8, <1>9, <1>10, <1>11, <1>12,
     <1>13, <1>14, <1>15 DEF Next

\* Whatever writes fail, wherever the broker or the machine stops and whatever
\* the rescan finds, the open segments never claim one offset twice.
THEOREM SegmentsStayDisjoint == Spec => []SegmentsDisjoint
<1>1. OrderInv => SegmentsDisjoint  BY DEF OrderInv
<1>. QED  BY <1>1, TypeInvariance, OrderInit, OrderStep, PTL DEF Spec

-----------------------------------------------------------------------------
(* Durability of what was acknowledged.                                    *)

\* The files after a step still hold, in their synced part, every record that
\* their synced part held before it, and no more is synced than there is.
KeepsSynced ==
    \A b \in DOMAIN disk :
        /\ b \in DOMAIN disk'
        /\ disk'[b].synced >= disk[b].synced
        /\ \A p \in Nat : p + 2 <= disk[b].synced /\ Decodes(disk[b].log, p) =>
              Decodes(disk'[b].log, p) /\ disk'[b].log[p + 1] = disk[b].log[p + 1]

\* The files' fields have their types in every well-typed state.
LEMMA FileFacts ==
    ASSUME TypeInv
    PROVE  \A b \in DOMAIN disk : /\ disk[b] \in File /\ disk[b].log \in Seq(Cell)
                                  /\ disk[b].synced \in Nat /\ Len(disk[b].log) \in Nat
<1>. TAKE b \in DOMAIN disk
<1>1. disk[b] \in File  BY DEF TypeInv, TypeOK
<1>2. disk[b].log \in Seq(Cell) /\ disk[b].synced \in Nat  BY <1>1 DEF File
<1>. QED  BY <1>1, <1>2, LenProperties

\* Nothing is acknowledged at first.
LEMMA DurableInit == Init => DurableInv
BY DEF Init, DurableInv, EmptyFile, Idle, AckedDurable

\* What a file holds does not depend on more of it being there or synced.
LEMMA HoldsGrows ==
    ASSUME NEW log, NEW new, NEW r, NEW n \in Nat, NEW m \in Nat, n <= m, Holds(log, n, r),
           \A p \in Nat : p + 2 <= n /\ Decodes(log, p) =>
              Decodes(new, p) /\ new[p + 1] = log[p + 1]
    PROVE  Holds(new, m, r)
<1>1. PICK p \in 0 .. n - 2 : /\ Decodes(log, p)
                              /\ log[p + 1].offset = r.offset
                              /\ log[p + 1].msg = r.msg
  BY DEF Holds
<1>2. p \in Nat /\ p + 2 <= n /\ p \in 0 .. m - 2  OBVIOUS
<1>3. Decodes(new, p) /\ new[p + 1] = log[p + 1]  BY <1>1, <1>2
<1>. QED  BY <1>1, <1>2, <1>3 DEF Holds

\* Steps that acknowledge nothing and keep what is synced keep durability.
LEMMA AckedKept ==
    ASSUME TypeInv, TypeInv', DurableInv, KeepsSynced, UNCHANGED acked
    PROVE  AckedDurable'
<1>. SUFFICES ASSUME NEW r \in acked
              PROVE  \E b \in DOMAIN disk' : Holds(disk'[b].log, disk'[b].synced, r)
  BY DEF AckedDurable
<1>1. PICK b \in DOMAIN disk : Holds(disk[b].log, disk[b].synced, r)
  BY DEF DurableInv, AckedDurable
<1>2. b \in DOMAIN disk' /\ disk'[b].synced >= disk[b].synced  BY DEF KeepsSynced
<1>3. disk[b].synced \in Nat /\ disk'[b].synced \in Nat
  <2>1. disk'[b] \in File  BY <1>2 DEF TypeInv, TypeOK
  <2>. QED  BY <2>1, FileFacts DEF File
<1>4. Holds(disk'[b].log, disk'[b].synced, r)
  <2>1. \A p \in Nat : p + 2 <= disk[b].synced /\ Decodes(disk[b].log, p) =>
           Decodes(disk'[b].log, p) /\ disk'[b].log[p + 1] = disk[b].log[p + 1]
    BY DEF KeepsSynced
  <2>2. disk[b].synced <= disk'[b].synced  BY <1>2, <1>3
  <2>. QED  BY ONLY <1>1, <1>3, <2>1, <2>2, HoldsGrows
<1>. QED  BY <1>2, <1>4

\* Steps that change no log file.
LEMMA SameKeepsSynced ==
    ASSUME SameLogs, \A b \in DOMAIN disk : disk'[b].synced >= disk[b].synced
    PROVE  KeepsSynced
BY DEF SameLogs, KeepsSynced

\* Steps that change no log file and end in no append keep the invariant.
LEMMA DurableQuiet ==
    ASSUME TypeInv, TypeInv', DurableInv, SameLogs, UNCHANGED acked,
           \A b \in DOMAIN disk : /\ disk'[b].synced >= disk[b].synced
                                  /\ disk'[b].synced <= Len(disk[b].log),
           \/ writer'.pc = "idle"
           \/ writer'.pc = "write" /\ writer'.done = <<>>
    PROVE  DurableInv'
<1>1. AckedDurable'  BY SameKeepsSynced, AckedKept
<1>2. \A b \in DOMAIN disk' : disk'[b].synced <= Len(disk'[b].log)  BY DEF SameLogs
<1>3. writer'.done = <<>> => DOMAIN writer'.done = {}  OBVIOUS
<1>. QED  BY <1>1, <1>2, <1>3 DEF DurableInv

\* A write at the end of the active file keeps what the file holds.
LEMMA DurableWrite ==
    ASSUME TypeInv, TypeInv', DurableInv, NEW k \in 0 .. 2, writer.pc = "write",
           UNCHANGED acked,
           disk' = [disk EXCEPT ![active].log =
                      @ \o SubSeq(Encode(segs[active].next, Head(writer.batch)), 1, k)]
    PROVE  /\ AckedDurable'
           /\ \A b \in DOMAIN disk' : disk'[b].synced <= Len(disk'[b].log)
           /\ \A i \in DOMAIN writer.done :
                 Holds(disk'[active].log, Len(disk'[active].log), writer.done[i])
           /\ k = 2 => Holds(disk'[active].log, Len(disk'[active].log),
                             [offset |-> segs[active].next, msg |-> Head(writer.batch)])
<1>1. /\ active \in DOMAIN disk /\ disk[active] \in File /\ disk[active].log \in Seq(Cell)
      /\ Len(disk[active].log) \in Nat /\ segs[active].next \in Nat
      /\ Head(writer.batch) \in Msgs /\ writer.base = active
  BY WriterFacts
<1>2. /\ DOMAIN disk' = DOMAIN disk
      /\ Extended(disk'[active].log, disk[active].log,
                  segs[active].next, Head(writer.batch), k)
  BY TypeWrite
<1>3. \A b \in DOMAIN disk : b # active => disk'[b] = disk[b]  OBVIOUS
<1>4. disk'[active].synced = disk[active].synced  BY <1>1 DEF File
<1>5. \A p \in Nat : Decodes(disk[active].log, p) =>
          Decodes(disk'[active].log, p) /\ disk'[active].log[p + 1] = disk[active].log[p + 1]
  BY <1>1, <1>2, AppendDecodes
<1>6. Len(disk'[active].log) = Len(disk[active].log) + k  BY <1>2 DEF Extended
<1>7. \A b \in DOMAIN disk : disk[b].synced \in Nat  BY FileFacts
<1>8. KeepsSynced
  <2>. SUFFICES ASSUME NEW b \in DOMAIN disk
                PROVE  /\ b \in DOMAIN disk'
                       /\ disk'[b].synced >= disk[b].synced
                       /\ \A p \in Nat : p + 2 <= disk[b].synced /\ Decodes(disk[b].log, p) =>
                            Decodes(disk'[b].log, p) /\ disk'[b].log[p + 1] = disk[b].log[p + 1]
    BY DEF KeepsSynced
  <2>1. CASE b = active  BY ONLY <1>2, <1>4, <1>5, <1>7, <2>1, b \in DOMAIN disk
  <2>2. CASE b # active  BY ONLY <1>2, <1>3, <1>7, <2>2, b \in DOMAIN disk
  <2>. QED  BY <2>1, <2>2
<1>9. AckedDurable'  BY <1>8, AckedKept
<1>10. \A b \in DOMAIN disk' : disk'[b].synced <= Len(disk'[b].log)
  <2>. SUFFICES ASSUME NEW b \in DOMAIN disk PROVE disk'[b].synced <= Len(disk'[b].log)
    BY <1>2
  <2>1. disk[b].synced <= Len(disk[b].log)  BY DEF DurableInv
  <2>2. CASE b = active  BY ONLY <1>1, <1>4, <1>6, <1>7, <2>1, <2>2, k \in 0 .. 2
  <2>3. CASE b # active  BY ONLY <1>3, <2>1, <2>3, b \in DOMAIN disk
  <2>. QED  BY <2>2, <2>3
<1>11. ASSUME NEW i \in DOMAIN writer.done
       PROVE  Holds(disk'[active].log, Len(disk'[active].log), writer.done[i])
  <2>1. Holds(disk[active].log, Len(disk[active].log), writer.done[i])  BY DEF DurableInv
  <2>2. Len(disk'[active].log) \in Nat /\ Len(disk[active].log) <= Len(disk'[active].log)
    BY <1>1, <1>6
  <2>3. \A p \in Nat : p + 2 <= Len(disk[active].log) /\ Decodes(disk[active].log, p) =>
          Decodes(disk'[active].log, p) /\ disk'[active].log[p + 1] = disk[active].log[p + 1]
    BY <1>5
  <2>. QED  BY ONLY <1>1, <2>1, <2>2, <2>3, HoldsGrows
<1>12. ASSUME k = 2
       PROVE  Holds(disk'[active].log, Len(disk'[active].log),
                    [offset |-> segs[active].next, msg |-> Head(writer.batch)])
  <2>. DEFINE n == Len(disk[active].log)
  <2>1. /\ Decodes(disk'[active].log, n)
        /\ disk'[active].log[n + 1].offset = segs[active].next
        /\ disk'[active].log[n + 1].msg = Head(writer.batch)
    BY <1>1, <1>2, <1>12, AppendWhole
  <2>2. n \in 0 .. Len(disk'[active].log) - 2  BY <1>1, <1>6, <1>12
  <2>. QED  BY <2>1, <2>2 DEF Holds
<1>. QED  BY <1>9, <1>10, <1>11, <1>12

\* The answer to the caller comes after sync_data: every record of the batch
\* is in the file, and the file is synced whole.
LEMMA DurableSyncLog == ASSUME TypeInv, TypeInv', DurableInv, SyncLog PROVE DurableInv'
<1>. USE DEF SyncLog
<1>1. /\ writer.base = active /\ active \in DOMAIN disk /\ disk[active] \in File
      /\ Len(disk[active].log) \in Nat
  BY WriterFacts
<1>2. /\ DOMAIN disk' = DOMAIN disk
      /\ \A b \in DOMAIN disk : b # active => disk'[b] = disk[b]
      /\ disk'[active].log = disk[active].log
      /\ disk'[active].synced = Len(disk[active].log)
  BY <1>1 DEF File
<1>3. \A b \in DOMAIN disk : disk[b].synced \in Nat /\ disk[b].synced <= Len(disk[b].log)
  BY FileFacts DEF DurableInv
<1>4. SameLogs  BY <1>2 DEF SameLogs
<1>5. \A b \in DOMAIN disk : /\ disk'[b].synced >= disk[b].synced
                             /\ disk'[b].synced <= Len(disk'[b].log)
  <2>. TAKE b \in DOMAIN disk
  <2>1. CASE b = active  BY <1>1, <1>2, <1>3, <2>1
  <2>2. CASE b # active  BY <1>2, <1>3, <2>2
  <2>. QED  BY <2>1, <2>2
<1>6. KeepsSynced  BY <1>4, <1>5, SameKeepsSynced
<1>7. ASSUME NEW r \in acked
      PROVE  \E b \in DOMAIN disk' : Holds(disk'[b].log, disk'[b].synced, r)
  <2>1. PICK b \in DOMAIN disk : Holds(disk[b].log, disk[b].synced, r)
    BY DEF DurableInv, AckedDurable
  <2>2. /\ disk[b].synced \in Nat /\ disk'[b].synced \in Nat
        /\ disk[b].synced <= disk'[b].synced /\ b \in DOMAIN disk'
    <3>1. disk'[b] \in File /\ b \in DOMAIN disk'  BY <1>2 DEF TypeInv, TypeOK
    <3>. QED  BY <1>3, <1>5, <3>1 DEF File
  <2>3. disk'[b].log = disk[b].log  BY <1>4 DEF SameLogs
  <2>4. Holds(disk'[b].log, disk'[b].synced, r)  BY <2>1, <2>2, <2>3, HoldsGrows
  <2>. QED  BY <2>2, <2>4
<1>8. ASSUME NEW i \in DOMAIN writer.done
      PROVE  \E b \in DOMAIN disk' : Holds(disk'[b].log, disk'[b].synced, writer.done[i])
  <2>1. Holds(disk[active].log, Len(disk[active].log), writer.done[i])  BY DEF DurableInv
  <2>2. Holds(disk'[active].log, disk'[active].synced, writer.done[i])  BY <1>2, <2>1
  <2>. QED  BY <1>1, <1>2, <2>2
<1>9. AckedDurable'
  <2>. SUFFICES ASSUME NEW r \in acked'
                PROVE  \E b \in DOMAIN disk' : Holds(disk'[b].log, disk'[b].synced, r)
    BY DEF AckedDurable
  <2>1. CASE r \in acked  BY <1>7, <2>1
  <2>2. CASE r \notin acked
    <3>1. PICK i \in DOMAIN writer.done : r = writer.done[i]  BY <2>2
    <3>. QED  BY <1>8, <3>1
  <2>. QED  BY <2>1, <2>2
<1>10. writer'.pc = "idle"  BY IdleType
<1>. QED  BY <1>2, <1>5, <1>9, <1>10 DEF DurableInv

\* A record that is whole in the file joins those to acknowledge.
LEMMA DurableIndexRecord == ASSUME TypeInv, TypeInv', DurableInv, IndexRecord PROVE DurableInv'
<1>. USE DEF IndexRecord
<1>. DEFINE rec == [offset |-> segs[active].next, msg |-> Head(writer.batch)]
<1>1. /\ writer.base = active /\ active \in DOMAIN disk /\ disk[active] \in File
      /\ segs[active].next \in Nat /\ Head(writer.batch) \in Msgs
      /\ writer.done \in Seq(Record)
  BY WriterFacts
<1>2. /\ DOMAIN disk' = DOMAIN disk
      /\ \A b \in DOMAIN disk : b # active => disk'[b] = disk[b]
      /\ disk'[active].log = disk[active].log
      /\ disk'[active].synced = disk[active].synced
  BY <1>1 DEF File
<1>3. \A b \in DOMAIN disk : /\ disk'[b].log = disk[b].log
                             /\ disk'[b].synced = disk[b].synced
  <2>. TAKE b \in DOMAIN disk
  <2>1. CASE b = active  BY <1>2, <2>1
  <2>2. CASE b # active  BY <1>2, <2>2
  <2>. QED  BY <2>1, <2>2
<1>4. \A b \in DOMAIN disk' : disk'[b].synced <= Len(disk'[b].log)
  BY <1>2, <1>3 DEF DurableInv
<1>5. AckedDurable'
  BY <1>2, <1>3 DEF DurableInv, AckedDurable
<1>6. writer'.done = Append(writer.done, rec) /\ writer'.pc \in {"write", "sync"}
  BY <1>1 DEF TypeInv, TypeOK
<1>7. rec \in Record  BY <1>1 DEF Record
<1>8. Holds(disk[active].log, Len(disk[active].log), rec)  BY DEF DurableInv
<1>. HIDE DEF rec
<1>9. ASSUME NEW i \in DOMAIN writer'.done
      PROVE  Holds(disk'[active].log, Len(disk'[active].log), writer'.done[i])
  <2>1. /\ DOMAIN writer.done = 1 .. Len(writer.done) /\ Len(writer.done) \in Nat
    BY <1>1, LenProperties
  <2>2. /\ writer'.done \in Seq(Record) /\ Len(writer'.done) = Len(writer.done) + 1
        /\ \A j \in 1 .. Len(writer.done) : writer'.done[j] = writer.done[j]
        /\ writer'.done[Len(writer.done) + 1] = rec
    BY ONLY <1>1, <1>6, <1>7, AppendProperties
  <2>3. DOMAIN writer'.done = 1 .. Len(writer.done) + 1  BY <2>2, LenProperties
  <2>4. CASE i \in 1 .. Len(writer.done)
    <3>1. Holds(disk[active].log, Len(disk[active].log), writer.done[i])
      BY <2>1, <2>4 DEF DurableInv
    <3>. QED  BY <1>2, <2>2, <2>4, <3>1
  <2>5. CASE i = Len(writer.done) + 1  BY <1>2, <1>8, <2>2, <2>5
  <2>6. i \in 1 .. Len(writer.done) \/ i = Len(writer.done) + 1  BY ONLY <1>9, <2>1, <2>3
  <2>. QED  BY <2>4, <2>5, <2>6
<1>10. UNCHANGED active  OBVIOUS
<1>. QED  BY <1>4, <1>5, <1>6, <1>9, <1>10 DEF DurableInv

\* The cut is never before the synced length.
LEMMA DurableLoseTail ==
    ASSUME TypeInv, TypeInv', DurableInv, NEW b \in DOMAIN disk, LoseTail(b) PROVE DurableInv'
<1>1. /\ DOMAIN disk' = DOMAIN disk
      /\ \A c \in DOMAIN disk : c # b => disk'[c] = disk[c]
  BY LoseTailFile
<1>2. PICK k \in disk[b].synced .. Len(disk[b].log) :
          /\ k \in 0 .. Len(disk[b].log)
          /\ Truncated(disk'[b].log, disk[b].log, k)
          /\ disk'[b].synced = k
  BY LoseTailFile
<1>3. \A c \in DOMAIN disk : /\ disk[c].log \in Seq(Cell)
                             /\ disk[c].synced \in Nat /\ Len(disk[c].log) \in Nat
  BY FileFacts
<1>4. \A p \in Nat : p + 2 <= k /\ Decodes(disk[b].log, p) =>
         Decodes(disk'[b].log, p) /\ disk'[b].log[p + 1] = disk[b].log[p + 1]
  BY <1>2, <1>3, TruncateOrdered
<1>5. KeepsSynced
  <2>. SUFFICES ASSUME NEW c \in DOMAIN disk
                PROVE  /\ c \in DOMAIN disk'
                       /\ disk'[c].synced >= disk[c].synced
                       /\ \A p \in Nat : p + 2 <= disk[c].synced /\ Decodes(disk[c].log, p) =>
                            Decodes(disk'[c].log, p) /\ disk'[c].log[p + 1] = disk[c].log[p + 1]
    BY DEF KeepsSynced
  <2>1. CASE c = b
    <3>1. k >= disk[b].synced /\ k \in Nat  BY <1>2, <1>3
    <3>2. \A p \in Nat : p + 2 <= disk[b].synced => p + 2 <= k  BY <1>3, <3>1
    <3>. QED  BY ONLY <1>1, <1>2, <1>4, <2>1, <3>1, <3>2, b \in DOMAIN disk
  <2>2. CASE c # b  BY ONLY <1>1, <1>3, <2>2, c \in DOMAIN disk
  <2>. QED  BY <2>1, <2>2
<1>6. AckedDurable'  BY <1>5, AckedKept DEF LoseTail
<1>7. \A c \in DOMAIN disk' : disk'[c].synced <= Len(disk'[c].log)
  BY <1>1, <1>2, <1>3 DEF DurableInv, Truncated
<1>8. writer'.pc = "idle"  BY DEF LoseTail, TypeInv, Control
<1>. QED  BY <1>6, <1>7, <1>8 DEF DurableInv

\* Every step keeps what is acknowledged durable.
LEMMA DurableStep == TypeInv /\ TypeInv' /\ DurableInv /\ [Next]_vars => DurableInv'
<1>. SUFFICES ASSUME TypeInv, TypeInv', DurableInv, [Next]_vars PROVE DurableInv'  OBVIOUS
<1>0. \A b \in DOMAIN disk : /\ disk[b] \in File /\ disk[b].synced \in Nat
                             /\ Len(disk[b].log) \in Nat
                             /\ disk[b].synced <= Len(disk[b].log)
                             /\ disk[b].synced >= disk[b].synced
  BY FileFacts DEF DurableInv
<1>1. ASSUME NEW batch \in Batches, BeginAppend(batch) PROVE DurableInv'
  <2>1. SameLogs /\ writer'.pc = "write" /\ writer'.done = <<>> /\ UNCHANGED <<acked, disk>>
    BY <1>1 DEF BeginAppend, SameLogs
  <2>. QED  BY <1>0, <2>1, DurableQuiet
<1>2. ASSUME NEW batch \in Batches, RotateLog(batch) PROVE DurableInv'
  <2>1. /\ DOMAIN disk \subseteq DOMAIN disk' /\ UNCHANGED acked
        /\ writer'.pc = "create_index" /\ writer'.done = <<>>
        /\ \A b \in DOMAIN disk : disk'[b] = disk[b]
        /\ \A b \in DOMAIN disk' \ DOMAIN disk : disk'[b] = EmptyFile(FALSE)
    BY <1>2 DEF RotateLog
  <2>2. KeepsSynced  BY <1>0, <2>1 DEF KeepsSynced
  <2>3. AckedDurable'  BY <2>1, <2>2, AckedKept
  <2>4. \A b \in DOMAIN disk' : disk'[b].synced <= Len(disk'[b].log)
    <3>1. EmptyFile(FALSE).synced <= Len(EmptyFile(FALSE).log)  BY DEF EmptyFile
    <3>. QED  BY <1>0, <2>1, <3>1
  <2>. QED  BY <2>1, <2>3, <2>4 DEF DurableInv
<1>3. CASE CreateIndex
  <2>1. writer.base \in DOMAIN disk  BY <1>3 DEF CreateIndex, TypeInv, Control
  <2>2. /\ DOMAIN disk' = DOMAIN disk /\ UNCHANGED acked
        /\ \A b \in DOMAIN disk : b # writer.base => disk'[b] = disk[b]
    BY <1>3 DEF CreateIndex
  <2>3. /\ disk'[writer.base].log = disk[writer.base].log
        /\ disk'[writer.base].synced = disk[writer.base].synced
    BY <1>0, <1>3, <2>1 DEF CreateIndex, File
  <2>4. SameLogs /\ \A b \in DOMAIN disk : disk'[b].synced = disk[b].synced
    BY <2>2, <2>3 DEF SameLogs
  <2>5. KeepsSynced  BY <1>0, <2>4, SameKeepsSynced
  <2>6. AckedDurable'  BY <2>2, <2>5, AckedKept
  <2>7. \A b \in DOMAIN disk' : disk'[b].synced <= Len(disk'[b].log)
    BY <1>0, <2>4 DEF SameLogs
  <2>8. writer'.pc = "write" /\ writer'.done = writer.done
    BY <1>3 DEF CreateIndex, TypeInv, TypeOK
  <2>9. writer.done = <<>>  BY <1>3 DEF CreateIndex, DurableInv
  <2>10. DOMAIN writer'.done = {}  BY <2>8, <2>9
  <2>. QED  BY <2>6, <2>7, <2>8, <2>10 DEF DurableInv
<1>4. CASE WriteRecord
  <2>1. /\ writer.base = active /\ segs[active].next \in Nat /\ Head(writer.batch) \in Msgs
    BY <1>4, WriterFacts DEF WriteRecord
  <2>2. disk' = [disk EXCEPT ![active].log =
                  @ \o SubSeq(Encode(segs[active].next, Head(writer.batch)), 1, 2)]
    <3>1. SubSeq(Encode(segs[active].next, Head(writer.batch)), 1, 2) =
             Encode(segs[active].next, Head(writer.batch))
      BY <2>1, WholeRecord
    <3>. QED  BY <1>4, <2>1, <3>1 DEF WriteRecord
  <2>3. writer.pc = "write" /\ UNCHANGED <<acked, segs, active>>  BY <1>4 DEF WriteRecord
  <2>4. 2 \in 0 .. 2  OBVIOUS
  <2>5. /\ AckedDurable'
        /\ \A b \in DOMAIN disk' : disk'[b].synced <= Len(disk'[b].log)
        /\ \A i \in DOMAIN writer.done :
              Holds(disk'[active].log, Len(disk'[active].log), writer.done[i])
        /\ Holds(disk'[active].log, Len(disk'[active].log),
                 [offset |-> segs[active].next, msg |-> Head(writer.batch)])
    BY ONLY TypeInv, TypeInv', DurableInv, <2>2, <2>3, <2>4, DurableWrite
  <2>6. writer'.pc = "index" /\ writer'.done = writer.done /\ writer'.batch = writer.batch
    BY <1>4 DEF WriteRecord, TypeInv, TypeOK
  <2>. QED  BY <2>3, <2>5, <2>6 DEF DurableInv
<1>5. CASE IndexRecord  BY <1>5, DurableIndexRecord
<1>6. CASE SyncLog  BY <1>6, DurableSyncLog
<1>7. CASE CreateIndexFails
  <2>1. SameLogs /\ UNCHANGED <<disk, acked>> /\ writer'.pc = "idle"
    BY <1>7, IdleType DEF CreateIndexFails, Fail, SameLogs
  <2>. QED  BY <1>0, <2>1, DurableQuiet
<1>8. CASE WriteRecordFails
  <2>1. writer.base = active  BY <1>8, WriterFacts DEF WriteRecordFails
  <2>2. PICK k \in 0 .. 1 : disk' = [disk EXCEPT ![active].log =
            @ \o SubSeq(Encode(segs[active].next, Head(writer.batch)), 1, k)]
    BY <1>8, <2>1 DEF WriteRecordFails
  <2>3. writer.pc = "write" /\ UNCHANGED acked /\ writer'.pc = "idle"
    BY <1>8, IdleType DEF WriteRecordFails, Fail
  <2>4. k \in 0 .. 2  OBVIOUS
  <2>5. AckedDurable' /\ \A b \in DOMAIN disk' : disk'[b].synced <= Len(disk'[b].log)
    BY ONLY TypeInv, TypeInv', DurableInv, <2>2, <2>3, <2>4, DurableWrite
  <2>. QED  BY <2>3, <2>5 DEF DurableInv
<1>9. CASE IndexRecordFails
  <2>1. writer.base = active /\ active \in DOMAIN disk  BY <1>9, WriterFacts DEF IndexRecordFails
  <2>2. SameLogs /\ \A b \in DOMAIN disk : disk'[b].synced = disk[b].synced
    <3>1. CASE UNCHANGED <<disk, segs>>  BY <3>1 DEF SameLogs
    <3>2. CASE disk' = [disk EXCEPT ![active].idx =
                            PutEntry(@, segs[active].cursor, NewEntry(active))]
      <4>1. DOMAIN disk' = DOMAIN disk /\ \A b \in DOMAIN disk : b # active => disk'[b] = disk[b]
        BY <3>2
      <4>2. disk'[active].log = disk[active].log /\ disk'[active].synced = disk[active].synced
        BY <1>0, <2>1, <3>2 DEF File
      <4>. QED  BY <4>1, <4>2 DEF SameLogs
    <3>. QED  BY <1>9, <2>1, <3>1, <3>2 DEF IndexRecordFails
  <2>3. UNCHANGED acked /\ writer'.pc = "idle"  BY <1>9, IdleType DEF IndexRecordFails, Fail
  <2>. QED  BY <1>0, <2>2, <2>3, DurableQuiet
<1>10. CASE SyncLogFails
  <2>1. writer.base = active /\ active \in DOMAIN disk  BY <1>10, WriterFacts DEF SyncLogFails
  <2>2. SameLogs /\ \A b \in DOMAIN disk : /\ disk'[b].synced >= disk[b].synced
                                           /\ disk'[b].synced <= Len(disk[b].log)
    <3>1. CASE UNCHANGED <<disk, segs>>  BY <1>0, <3>1 DEF SameLogs
    <3>2. CASE disk' = [disk EXCEPT ![active].synced = Len(disk[active].log)]
      <4>1. DOMAIN disk' = DOMAIN disk /\ \A b \in DOMAIN disk : b # active => disk'[b] = disk[b]
        BY <3>2
      <4>2. /\ disk'[active].log = disk[active].log
            /\ disk'[active].synced = Len(disk[active].log)
        BY <1>0, <2>1, <3>2 DEF File
      <4>. QED  BY <1>0, <4>1, <4>2 DEF SameLogs
    <3>. QED  BY <1>10, <2>1, <3>1, <3>2 DEF SyncLogFails
  <2>3. UNCHANGED acked /\ writer'.pc = "idle"  BY <1>10, IdleType DEF SyncLogFails, Fail
  <2>. QED  BY <2>2, <2>3, DurableQuiet
<1>11. CASE Flush
  <2>1. SameLogs /\ \A b \in DOMAIN disk : /\ disk'[b].synced >= disk[b].synced
                                           /\ disk'[b].synced <= Len(disk[b].log)
    BY <1>0, <1>11 DEF Flush, SameLogs, File
  <2>. QED  BY <1>11, <2>1, DurableQuiet DEF Flush
<1>12. CASE Crash
  <2>1. UNCHANGED acked /\ writer'.pc = "idle"  BY <1>12, IdleType DEF Crash
  <2>2. CASE UNCHANGED disk
    <3>1. SameLogs  BY <2>2 DEF SameLogs
    <3>. QED  BY <1>0, <2>1, <2>2, <3>1, DurableQuiet
  <2>3. CASE /\ writer.pc = "write"
             /\ disk' = [disk EXCEPT ![writer.base].log =
                  @ \o SubSeq(Encode(segs[writer.base].next, Head(writer.batch)), 1, 1)]
    <3>1. writer.base = active  BY <2>3, WriterFacts
    <3>2. disk' = [disk EXCEPT ![active].log =
                  @ \o SubSeq(Encode(segs[active].next, Head(writer.batch)), 1, 1)]
      BY <2>3, <3>1
    <3>3. 1 \in 0 .. 2  OBVIOUS
    <3>4. AckedDurable' /\ \A b \in DOMAIN disk' : disk'[b].synced <= Len(disk'[b].log)
      BY ONLY TypeInv, TypeInv', DurableInv, <2>1, <2>3, <3>2, <3>3, DurableWrite
    <3>. QED  BY <2>1, <3>4 DEF DurableInv
  <2>. QED  BY <1>12, <2>2, <2>3 DEF Crash
<1>13. CASE Open
  <2>1. UNCHANGED <<disk, acked, writer>> /\ writer.pc = "idle" /\ SameLogs
    BY <1>13 DEF Open, TypeInv, Control, SameLogs
  <2>. QED  BY <1>0, <2>1, DurableQuiet
<1>14. ASSUME NEW b \in DOMAIN disk, LoseTail(b) PROVE DurableInv'  BY <1>14, DurableLoseTail
<1>15. CASE UNCHANGED vars
  BY <1>15 DEF vars, DurableInv, AckedDurable
<1>. QED
  BY <1>1, <1>2, <1>3, <1>4, <1>5, <1>6, <1>7, <1>8, <1>9, <1>10, <1>11, <1>12,
     <1>13, <1>14, <1>15 DEF Next

\* A record whose append returned Ok stays whole in the synced part of a log
\* file for ever: later appends, failed or not, crashes at any point, power
\* losses and rescans never overwrite or cut it.
THEOREM AckedStaysDurable == Spec => []AckedDurable
<1>1. DurableInv => AckedDurable  BY DEF DurableInv
<1>. QED  BY <1>1, TypeInvariance, DurableInit, DurableStep, PTL DEF Spec

-----------------------------------------------------------------------------
(* Offsets are not given twice.                                            *)

\* No record after the one at position p, in a scan that meets both, has its
\* offset or a smaller one.
Final(log, p) ==
    \A k, m \in 0 .. Len(log) :
        (p = 2 * k /\ k < m /\ InPrefix(log, m)) =>
            log[2 * k + 1].offset < log[2 * m + 1].offset

\* If a scan meets the record at position p, its offset is below hi.
Early(log, p, hi) ==
    \A k \in 0 .. Len(log) :
        (p = 2 * k /\ InPrefix(log, k)) => log[2 * k + 1].offset < hi

\* The record r is at position p of a log file, in a place that a later
\* record with its offset cannot follow.
Placed(log, p, r) ==
    /\ Decodes(log, p) /\ Final(log, p)
    /\ log[p + 1].offset = r.offset
    /\ log[p + 1].msg = r.msg

\* An index entry may fail after its record was written, and then the next
\* record gets the same offset: of the records with one offset in a file that
\* can be scanned, the acknowledged one is the last, and next_offset is past it.
AckedPlaced ==
    \A r \in acked : \E b \in DOMAIN disk : \E p \in 0 .. disk[b].synced - 2 :
        /\ Placed(disk[b].log, p, r)
        /\ (status = "up" /\ b = active) => Early(disk[b].log, p, segs[active].next)

\* So are the records of the append in progress, in the active file.
DonePlaced ==
    writer.pc \in {"write", "index", "sync"} =>
        \A i \in DOMAIN writer.done : \E p \in 0 .. Len(disk[active].log) - 2 :
            /\ Placed(disk[active].log, p, writer.done[i])
            /\ Early(disk[active].log, p, segs[active].next)

HeadPlaced ==
    writer.pc = "index" => \E p \in 0 .. Len(disk[active].log) - 2 :
        Placed(disk[active].log, p,
               [offset |-> segs[active].next, msg |-> Head(writer.batch)])

PlacedInv == AckedPlaced /\ DonePlaced /\ HeadPlaced

\* Before the first crash next_offset of the active segment is past every
\* offset given, whatever the files look like.
CountedInv ==
    crashes = 0 =>
        /\ status = "up"
        /\ \A r \in acked : r.offset < segs[active].next
        /\ \A r, s \in acked : r.offset = s.offset => r = s
        /\ writer.pc \in {"write", "index", "sync"} =>
              /\ \A i \in DOMAIN writer.done :
                    /\ writer.done[i].offset < segs[active].next
                    /\ \A r \in acked : r.offset < writer.done[i].offset
              /\ \A i, j \in DOMAIN writer.done :
                    writer.done[i].offset = writer.done[j].offset => i = j

\* A scan of a file that was written at its end meets what it met before, and
\* then perhaps the record written.
LEMMA AppendPrefix ==
    ASSUME NEW log \in Seq(Cell), NEW new, NEW o \in Nat, NEW m \in Msgs, NEW k \in 0 .. 2,
           Extended(new, log, o, m, k), NEW j \in Nat, InPrefix(new, j)
    PROVE  /\ 2 * j <= Len(log)
           /\ 2 * j = Len(log) => new[2 * j + 1].offset = o
           /\ 2 * j # Len(log) => /\ j \in 0 .. Len(log) /\ InPrefix(log, j)
                                  /\ new[2 * j + 1] = log[2 * j + 1]
<1>1. Len(log) \in Nat /\ new \in Seq(Cell) /\ Len(new) = Len(log) + k
  BY LenProperties DEF Extended
<1>2. \A p \in Nat :
        Decodes(new, p) => \/ Decodes(log, p) /\ new[p + 1] = log[p + 1]
                           \/ p = Len(log) /\ new[p + 1].offset = o
  BY AppendDecodes
<1>3. \A i \in 0 .. j : 2 * i \in Nat /\ Decodes(new, 2 * i)
  BY DEF InPrefix
<1>4. \A i \in 0 .. j : 2 * i # Len(log) => Decodes(log, 2 * i)
  BY <1>2, <1>3
<1>5. 2 * j \in Nat /\ Decodes(new, 2 * j)  BY <1>3
<1>6. 2 * j <= Len(log)
  BY <1>1, <1>2, <1>5 DEF Decodes
<1>7. CASE 2 * j = Len(log)
  <2>1. ~Decodes(log, 2 * j)  BY <1>1, <1>7 DEF Decodes
  <2>2. new[2 * j + 1].offset = o  BY <1>2, <1>5, <2>1
  <2>. QED  BY <1>6, <1>7, <2>2
<1>8. CASE 2 * j # Len(log)
  <2>1. 2 * j < Len(log) /\ j \in 0 .. Len(log)  BY <1>1, <1>6, <1>8
  <2>2. \A i \in 0 .. j : 2 * i # Len(log)  BY <1>1, <2>1
  <2>3. InPrefix(log, j)  BY <1>4, <2>2 DEF InPrefix
  <2>4. new[2 * j + 1] = log[2 * j + 1]  BY <1>2, <1>5, <1>8
  <2>. QED  BY <1>6, <1>8, <2>1, <2>3, <2>4
<1>. QED  BY <1>7, <1>8

\* A record whose offset is below the one written stays the last with it.
LEMMA AppendPlaced ==
    ASSUME NEW log \in Seq(Cell), NEW new, NEW o \in Nat, NEW m \in Msgs, NEW k \in 0 .. 2,
           Extended(new, log, o, m, k), NEW p \in Nat, NEW r,
           Placed(log, p, r), Early(log, p, o)
    PROVE  Placed(new, p, r) /\ Early(new, p, o)
<1>1. Decodes(new, p) /\ new[p + 1] = log[p + 1]
  BY AppendDecodes DEF Placed
<1>2. Len(log) \in Nat /\ p + 2 <= Len(log)
  BY LenProperties DEF Placed, Decodes
<1>3. ASSUME NEW i \in 0 .. Len(new), p = 2 * i, InPrefix(new, i)
      PROVE  i \in 0 .. Len(log) /\ InPrefix(log, i) /\ log[2 * i + 1].offset < o
  <2>1. i \in Nat /\ 2 * i # Len(log)  BY <1>2, <1>3
  <2>2. i \in 0 .. Len(log) /\ InPrefix(log, i)  BY <1>3, <2>1, AppendPrefix
  <2>. QED  BY <1>3, <2>2 DEF Early
<1>4. Early(new, p, o)
  BY <1>1, <1>3 DEF Early
<1>5. Final(new, p)
  <2>. SUFFICES ASSUME NEW i \in 0 .. Len(new), NEW j \in 0 .. Len(new),
                       p = 2 * i, i < j, InPrefix(new, j)
                PROVE  new[2 * i + 1].offset < new[2 * j + 1].offset
    BY DEF Final
  <2>1. j \in Nat /\ i \in Nat  OBVIOUS
  <2>2. InPrefix(new, i)  BY DEF InPrefix
  <2>3. i \in 0 .. Len(log) /\ InPrefix(log, i) /\ log[2 * i + 1].offset < o  BY <1>3, <2>2
  <2>4. CASE 2 * j = Len(log)
    <3>1. new[2 * j + 1].offset = o  BY <2>1, <2>4, AppendPrefix
    <3>. QED  BY <1>1, <2>3, <3>1
  <2>5. CASE 2 * j # Len(log)
    <3>1. j \in 0 .. Len(log) /\ InPrefix(log, j) /\ new[2 * j + 1] = log[2 * j + 1]
      BY <2>1, <2>5, AppendPrefix
    <3>2. log[2 * i + 1].offset < log[2 * j + 1].offset  BY <2>3, <3>1 DEF Placed, Final
    <3>. QED  BY <1>1, <3>1, <3>2
  <2>. QED  BY <2>4, <2>5
<1>. QED  BY <1>1, <1>4, <1>5 DEF Placed

\* Nothing follows the record just written.
LEMMA WholePlaced ==
    ASSUME NEW log \in Seq(Cell), NEW new, NEW o \in Nat, NEW m \in Msgs,
           Extended(new, log, o, m, 2)
    PROVE  /\ Len(log) \in 0 .. Len(new) - 2
           /\ Placed(new, Len(log), [offset |-> o, msg |-> m])
<1>1. Len(log) \in Nat /\ Len(new) = Len(log) + 2  BY LenProperties DEF Extended
<1>2. Final(new, Len(log))
  <2>. SUFFICES ASSUME NEW i \in 0 .. Len(new), NEW j \in 0 .. Len(new),
                       Len(log) = 2 * i, i < j, InPrefix(new, j)
                PROVE  FALSE
    BY DEF Final
  <2>1. j \in Nat /\ 2 * j <= Len(log)  BY AppendPrefix
  <2>. QED  BY <1>1, <2>1
<1>. QED  BY <1>1, <1>2, AppendWhole DEF Placed

\* What a power loss leaves is still in its place.
LEMMA TruncatePlaced ==
    ASSUME NEW log \in Seq(Cell), NEW k \in 0 .. Len(log), NEW new, Truncated(new, log, k),
           NEW p \in Nat, p + 2 <= k, NEW r, Placed(log, p, r)
    PROVE  Placed(new, p, r)
<1>1. /\ new \in Seq(Cell) /\ Len(new) = k /\ Len(log) \in Nat /\ k \in Nat /\ k <= Len(log)
      /\ \A i \in 1 .. k : new[i] = log[i]
  BY LenProperties DEF Truncated
<1>2. Decodes(new, p) /\ new[p + 1] = log[p + 1]  BY TruncateOrdered DEF Placed
<1>3. ASSUME NEW q \in Nat, Decodes(new, q)
      PROVE  Decodes(log, q) /\ new[q + 1] = log[q + 1]
  <2>1. q + 2 <= k /\ q + 2 <= Len(log)  BY <1>1, <1>3 DEF Decodes
  <2>. QED  BY <1>1, <1>3, <2>1 DEF Decodes
<1>4. Final(new, p)
  <2>. SUFFICES ASSUME NEW i \in 0 .. Len(new), NEW j \in 0 .. Len(new),
                       p = 2 * i, i < j, InPrefix(new, j)
                PROVE  new[2 * i + 1].offset < new[2 * j + 1].offset
    BY DEF Final
  <2>1. \A n \in 0 .. j : 2 * n \in Nat /\ Decodes(new, 2 * n)  BY DEF InPrefix
  <2>2. \A n \in 0 .. j : Decodes(log, 2 * n) /\ new[2 * n + 1] = log[2 * n + 1]
    BY <1>3, <2>1
  <2>3. InPrefix(log, j) /\ i \in 0 .. Len(log) /\ j \in 0 .. Len(log)
    BY <1>1, <2>2 DEF InPrefix
  <2>4. log[2 * i + 1].offset < log[2 * j + 1].offset  BY <2>3 DEF Placed, Final
  <2>5. i \in 0 .. j /\ j \in 0 .. j
    <3>1. i \in Nat /\ j \in Nat  BY <1>1
    <3>. QED  BY ONLY <3>1, i < j
  <2>6. new[2 * i + 1] = log[2 * i + 1] /\ new[2 * j + 1] = log[2 * j + 1]
    BY ONLY <2>2, <2>5
  <2>. QED  BY ONLY <2>4, <2>6
<1>. QED  BY <1>2, <1>4 DEF Placed

\* A bound may be raised.
LEMMA EarlyMonotonic ==
    ASSUME NEW log \in Seq(Cell), NEW p \in Nat, NEW c \in Nat, NEW d \in Nat, c <= d,
           Early(log, p, c)
    PROVE  Early(log, p, d)
<1>. SUFFICES ASSUME NEW j \in 0 .. Len(log), p = 2 * j, InPrefix(log, j)
              PROVE  log[2 * j + 1].offset < d
  BY DEF Early
<1>1. log[2 * j + 1].offset < c  BY DEF Early
<1>2. 2 * j \in Nat /\ Decodes(log, 2 * j)  BY DEF InPrefix
<1>3. log[2 * j + 1].offset \in Nat  BY <1>2, DecodesInside DEF Cell
<1>. QED  BY <1>1, <1>3

\* Steps that change no log file and do not lower next_offset.
LEMMA AckedQuiet ==
    ASSUME TypeInv, TypeInv', AckedPlaced, SameLogs, UNCHANGED acked,
           \A b \in DOMAIN disk : disk'[b].synced >= disk[b].synced,
           status' = "up" => /\ status = "up" /\ active' = active
                             /\ segs'[active].next >= segs[active].next
    PROVE  AckedPlaced'
<1>. SUFFICES ASSUME NEW r \in acked
              PROVE  \E b \in DOMAIN disk' : \E p \in 0 .. disk'[b].synced - 2 :
                        /\ Placed(disk'[b].log, p, r)
                        /\ (status' = "up" /\ b = active') =>
                              Early(disk'[b].log, p, segs'[active'].next)
  BY DEF AckedPlaced
<1>0. PICK b \in DOMAIN disk : \E p \in 0 .. disk[b].synced - 2 :
          /\ Placed(disk[b].log, p, r)
          /\ (status = "up" /\ b = active) => Early(disk[b].log, p, segs[active].next)
  BY DEF AckedPlaced
<1>1. PICK p \in 0 .. disk[b].synced - 2 :
          /\ Placed(disk[b].log, p, r)
          /\ (status = "up" /\ b = active) => Early(disk[b].log, p, segs[active].next)
  BY <1>0
<1>2. b \in DOMAIN disk' /\ disk'[b].log = disk[b].log  BY DEF SameLogs
<1>3. disk[b].synced \in Nat /\ disk'[b].synced \in Nat /\ disk[b].log \in Seq(Cell)
  <2>1. disk'[b] \in File  BY <1>2 DEF TypeInv, TypeOK
  <2>. QED  BY <2>1, FileFacts DEF File
<1>4. p \in 0 .. disk'[b].synced - 2 /\ p \in Nat  BY <1>1, <1>3
<1>5. ASSUME status' = "up", b = active'
      PROVE  Early(disk'[b].log, p, segs'[active'].next)
  <2>1. status = "up" /\ b = active /\ active' = active  BY <1>5
  <2>2. segs[active].next \in Nat /\ segs'[active].next \in Nat
    <3>1. segs[active].next \in Nat  BY <2>1, OpenFacts
    <3>2. active' \in DOMAIN segs' /\ segs' \in [DOMAIN segs' -> Segment]
      BY <1>5 DEF TypeInv, TypeOK, Control
    <3>. QED  BY <2>1, <3>1, <3>2 DEF Segment
  <2>3. Early(disk[b].log, p, segs[active].next) /\ segs[active].next <= segs'[active].next
    BY <1>1, <1>5, <2>1, <2>2
  <2>4. Early(disk[b].log, p, segs'[active].next)
    BY ONLY <1>3, <1>4, <2>2, <2>3, EarlyMonotonic
  <2>. QED  BY <1>2, <2>1, <2>4
<1>. QED  BY <1>1, <1>2, <1>4, <1>5

\* A write at the end of the active file leaves every record in its place.
LEMMA PlacedWrite ==
    ASSUME TypeInv, DurableInv, PlacedInv, NEW k \in 0 .. 2, writer.pc = "write",
           disk' = [disk EXCEPT ![active].log =
                      @ \o SubSeq(Encode(segs[active].next, Head(writer.batch)), 1, k)]
    PROVE  /\ \A r \in acked : \E b \in DOMAIN disk' : \E p \in 0 .. disk'[b].synced - 2 :
                 /\ Placed(disk'[b].log, p, r)
                 /\ b = active => Early(disk'[b].log, p, segs[active].next)
           /\ \A i \in DOMAIN writer.done : \E p \in 0 .. Len(disk'[active].log) - 2 :
                 /\ Placed(disk'[active].log, p, writer.done[i])
                 /\ Early(disk'[active].log, p, segs[active].next)
           /\ k = 2 => \E p \in 0 .. Len(disk'[active].log) - 2 :
                 Placed(disk'[active].log, p,
                        [offset |-> segs[active].next, msg |-> Head(writer.batch)])
<1>1. /\ status = "up" /\ active \in DOMAIN disk /\ disk[active] \in File
      /\ disk[active].log \in Seq(Cell)
      /\ Len(disk[active].log) \in Nat /\ segs[active].next \in Nat
      /\ Head(writer.batch) \in Msgs
  BY WriterFacts
<1>2. /\ DOMAIN disk' = DOMAIN disk
      /\ Extended(disk'[active].log, disk[active].log,
                  segs[active].next, Head(writer.batch), k)
  BY TypeWrite
<1>3. \A b \in DOMAIN disk : b # active => disk'[b] = disk[b]  OBVIOUS
<1>4. disk'[active].synced = disk[active].synced  BY <1>1 DEF File
<1>5. Len(disk'[active].log) = Len(disk[active].log) + k  BY <1>2 DEF Extended
<1>6. ASSUME NEW p \in Nat, NEW r, Placed(disk[active].log, p, r),
             Early(disk[active].log, p, segs[active].next)
      PROVE  Placed(disk'[active].log, p, r) /\ Early(disk'[active].log, p, segs[active].next)
  BY ONLY <1>1, <1>2, <1>6, k \in 0 .. 2, AppendPlaced
<1>7. ASSUME NEW r \in acked
      PROVE  \E b \in DOMAIN disk' : \E p \in 0 .. disk'[b].synced - 2 :
                 /\ Placed(disk'[b].log, p, r)
                 /\ b = active => Early(disk'[b].log, p, segs[active].next)
  <2>0. PICK b \in DOMAIN disk : \E p \in 0 .. disk[b].synced - 2 :
          /\ Placed(disk[b].log, p, r)
          /\ (status = "up" /\ b = active) => Early(disk[b].log, p, segs[active].next)
    BY DEF PlacedInv, AckedPlaced
  <2>1. PICK p \in 0 .. disk[b].synced - 2 :
          /\ Placed(disk[b].log, p, r)
          /\ (status = "up" /\ b = active) => Early(disk[b].log, p, segs[active].next)
    BY <2>0
  <2>2. disk[b].synced \in Nat /\ p \in Nat  BY FileFacts
  <2>3. CASE b = active
    <3>1. Placed(disk'[b].log, p, r) /\ Early(disk'[b].log, p, segs[active].next)
      BY <1>1, <1>6, <2>1, <2>2, <2>3
    <3>2. b \in DOMAIN disk' /\ p \in 0 .. disk'[b].synced - 2  BY <1>2, <1>4, <2>1, <2>3
    <3>. QED  BY <3>1, <3>2
  <2>4. CASE b # active
    <3>1. disk'[b] = disk[b] /\ b \in DOMAIN disk'  BY <1>2, <1>3, <2>4
    <3>. QED  BY <2>1, <2>4, <3>1
  <2>. QED  BY <2>3, <2>4
<1>8. ASSUME NEW i \in DOMAIN writer.done
      PROVE  \E p \in 0 .. Len(disk'[active].log) - 2 :
                 /\ Placed(disk'[active].log, p, writer.done[i])
                 /\ Early(disk'[active].log, p, segs[active].next)
  <2>1. PICK p \in 0 .. Len(disk[active].log) - 2 :
            /\ Placed(disk[active].log, p, writer.done[i])
            /\ Early(disk[active].log, p, segs[active].next)
    BY DEF PlacedInv, DonePlaced
  <2>2. p \in Nat /\ p \in 0 .. Len(disk'[active].log) - 2  BY <1>1, <1>5
  <2>. QED  BY <1>6, <2>1, <2>2
<1>9. ASSUME k = 2
      PROVE  \E p \in 0 .. Len(disk'[active].log) - 2 :
                 Placed(disk'[active].log, p,
                        [offset |-> segs[active].next, msg |-> Head(writer.batch)])
  <2>1. /\ Len(disk[active].log) \in 0 .. Len(disk'[active].log) - 2
        /\ Placed(disk'[active].log, Len(disk[active].log),
                  [offset |-> segs[active].next, msg |-> Head(writer.batch)])
    BY ONLY <1>1, <1>2, <1>9, WholePlaced
  <2>. QED  BY <2>1
<1>. QED  BY <1>7, <1>8, <1>9

LEMMA PlacedInit == Init => PlacedInv
BY DEF Init, Idle, PlacedInv, AckedPlaced, DonePlaced, HeadPlaced

\* The new segment's file is empty, so no record is in it.
LEMMA PlacedCreateIndex ==
    ASSUME TypeInv, TypeInv', OrderInv, DurableInv, PlacedInv, CreateIndex
    PROVE  PlacedInv'
<1>. USE DEF CreateIndex
<1>. DEFINE base == writer.base
<1>1. status = "up" /\ base = segs[active].next /\ base \in DOMAIN disk /\ segs[active].size >= MaxSize
  BY DEF TypeInv, TypeOK, Control
<1>2. /\ active \in DOMAIN segs /\ active \in Nat /\ base \in Nat
      /\ DOMAIN disk \subseteq Nat /\ DOMAIN segs \subseteq DOMAIN disk
      /\ disk[base] \in File
      /\ segs[active].size \in Nat /\ MaxSize \in Nat /\ MaxSize > 0
  BY <1>1, OpenFacts
<1>3. base > active  BY <1>1, <1>2 DEF OrderInv, OpenOrder
<1>4. \A b \in DOMAIN segs : b <= active /\ b \in Nat  BY <1>1, <1>2 DEF OrderInv, OpenOrder
<1>5. base \notin DOMAIN segs  BY <1>2, <1>3, <1>4
<1>6. disk[base].log = <<>>
  BY <1>1, <1>5 DEF OrderInv, OpenOrder
<1>7. /\ DOMAIN disk' = DOMAIN disk /\ UNCHANGED acked /\ active' = base
      /\ \A b \in DOMAIN disk : b # base => disk'[b] = disk[b]
  OBVIOUS
<1>8. AckedPlaced'
  <2>. SUFFICES ASSUME NEW r \in acked
                PROVE  \E b \in DOMAIN disk' : \E p \in 0 .. disk'[b].synced - 2 :
                          /\ Placed(disk'[b].log, p, r)
                          /\ b # active'
    BY <1>7 DEF AckedPlaced
  <2>0. PICK b \in DOMAIN disk : \E p \in 0 .. disk[b].synced - 2 : Placed(disk[b].log, p, r)
    BY DEF PlacedInv, AckedPlaced
  <2>1. PICK p \in 0 .. disk[b].synced - 2 : Placed(disk[b].log, p, r)
    BY <2>0
  <2>2. b # base
    <3>. SUFFICES ASSUME b = base PROVE FALSE  OBVIOUS
    <3>1. p \in Nat /\ p + 2 <= Len(disk[base].log)
      BY <2>1, FileFacts DEF Placed, Decodes
    <3>2. Len(disk[base].log) = 0  BY <1>6
    <3>. QED  BY <3>1, <3>2
  <2>. QED  BY <1>7, <2>1, <2>2
<1>9. writer'.pc = "write" /\ writer'.done = <<>>
  BY DEF TypeInv, TypeOK, DurableInv
<1>10. DOMAIN writer'.done = {}  BY <1>9
<1>. QED  BY <1>8, <1>9, <1>10 DEF PlacedInv, DonePlaced, HeadPlaced

\* The record counted by next_offset joins those to acknowledge.
LEMMA PlacedIndexRecord ==
    ASSUME TypeInv, TypeInv', PlacedInv, IndexRecord
    PROVE  PlacedInv'
<1>. USE DEF IndexRecord
<1>. DEFINE rec == [offset |-> segs[active].next, msg |-> Head(writer.batch)]
<1>1. /\ writer.base = active /\ active \in DOMAIN disk /\ disk[active] \in File
      /\ disk[active].log \in Seq(Cell) /\ Len(disk[active].log) \in Nat
      /\ segs[active].next \in Nat /\ Head(writer.batch) \in Msgs /\ segs[active] \in Segment
      /\ writer.done \in Seq(Record) /\ active \in DOMAIN segs /\ status = "up"
  BY WriterFacts
<1>2. /\ DOMAIN disk' = DOMAIN disk
      /\ \A b \in DOMAIN disk : b # active => disk'[b] = disk[b]
      /\ disk'[active].log = disk[active].log
      /\ disk'[active].synced = disk[active].synced
      /\ UNCHANGED <<active, status, acked>>
  BY <1>1 DEF File
<1>3. SameLogs /\ \A b \in DOMAIN disk : disk'[b].synced = disk[b].synced
  BY <1>2 DEF SameLogs
<1>4. segs'[active].next = segs[active].next + 1
  BY <1>1 DEF Segment
<1>5. \A b \in DOMAIN disk : disk'[b].synced >= disk[b].synced
  BY <1>3, FileFacts
<1>6. segs'[active].next >= segs[active].next  BY <1>1, <1>4
<1>7. AckedPlaced'
  BY <1>1, <1>2, <1>3, <1>5, <1>6, AckedQuiet DEF PlacedInv
<1>8. writer'.done = Append(writer.done, rec) /\ writer'.pc \in {"write", "sync"}
  BY <1>1 DEF TypeInv, TypeOK
<1>9. rec \in Record /\ rec.offset = segs[active].next  BY <1>1 DEF Record
<1>10. \E p \in 0 .. Len(disk[active].log) - 2 : Placed(disk[active].log, p, rec)
  BY DEF PlacedInv, HeadPlaced
<1>. HIDE DEF rec
<1>11. ASSUME NEW r, NEW p \in 0 .. Len(disk[active].log) - 2, Placed(disk[active].log, p, r),
              \/ Early(disk[active].log, p, segs[active].next)
              \/ r = rec
       PROVE  /\ p \in 0 .. Len(disk'[active].log) - 2
              /\ Placed(disk'[active].log, p, r)
              /\ Early(disk'[active].log, p, segs'[active].next)
  <2>1. CASE Early(disk[active].log, p, segs[active].next)
    <3>1. p \in Nat /\ segs[active].next + 1 \in Nat /\ segs[active].next <= segs[active].next + 1
      BY <1>1
    <3>2. Early(disk[active].log, p, segs[active].next + 1)
      BY ONLY <1>1, <2>1, <3>1, EarlyMonotonic
    <3>. QED  BY <1>2, <1>4, <1>11, <3>2
  <2>2. CASE r = rec
    <3>1. disk[active].log[p + 1].offset = segs[active].next
      BY <1>9, <1>11, <2>2 DEF Placed
    <3>2. Early(disk[active].log, p, segs[active].next + 1)
      BY <1>1, <3>1 DEF Early
    <3>. QED  BY <1>2, <1>4, <1>11, <3>2
  <2>. QED  BY <1>11, <2>1, <2>2
<1>12. ASSUME NEW i \in DOMAIN writer'.done
       PROVE  \E p \in 0 .. Len(disk'[active].log) - 2 :
                 /\ Placed(disk'[active].log, p, writer'.done[i])
                 /\ Early(disk'[active].log, p, segs'[active].next)
  <2>1. DOMAIN writer.done = 1 .. Len(writer.done) /\ Len(writer.done) \in Nat
    BY <1>1, LenProperties
  <2>2. /\ writer'.done \in Seq(Record) /\ Len(writer'.done) = Len(writer.done) + 1
        /\ \A j \in 1 .. Len(writer.done) : writer'.done[j] = writer.done[j]
        /\ writer'.done[Len(writer.done) + 1] = rec
    BY ONLY <1>1, <1>8, <1>9, AppendProperties
  <2>3. DOMAIN writer'.done = 1 .. Len(writer.done) + 1  BY <2>2, LenProperties
  <2>4. CASE i \in 1 .. Len(writer.done)
    <3>1. PICK p \in 0 .. Len(disk[active].log) - 2 :
              /\ Placed(disk[active].log, p, writer.done[i])
              /\ Early(disk[active].log, p, segs[active].next)
      BY <2>1, <2>4 DEF PlacedInv, DonePlaced
    <3>2. writer'.done[i] = writer.done[i]  BY <2>2, <2>4
    <3>. QED  BY <1>11, <3>1, <3>2
  <2>5. CASE i = Len(writer.done) + 1
    <3>1. PICK p \in 0 .. Len(disk[active].log) - 2 : Placed(disk[active].log, p, rec)
      BY <1>10
    <3>2. writer'.done[i] = rec  BY <2>2, <2>5
    <3>. QED  BY <1>11, <3>1, <3>2
  <2>6. i \in 1 .. Len(writer.done) \/ i = Len(writer.done) + 1  BY ONLY <1>12, <2>1, <2>3
  <2>. QED  BY <2>4, <2>5, <2>6
<1>13. DonePlaced'  BY <1>2, <1>12 DEF DonePlaced
<1>14. HeadPlaced'  BY <1>8 DEF HeadPlaced
<1>. QED  BY <1>7, <1>13, <1>14 DEF PlacedInv

\* The whole batch is acknowledged, where it is.
LEMMA PlacedSyncLog ==
    ASSUME TypeInv, TypeInv', DurableInv, PlacedInv, SyncLog
    PROVE  PlacedInv'
<1>. USE DEF SyncLog
<1>1. /\ writer.base = active /\ active \in DOMAIN disk /\ disk[active] \in File
      /\ Len(disk[active].log) \in Nat /\ active \in DOMAIN segs /\ segs[active] \in Segment
      /\ status = "up" /\ segs[active].next \in Nat
  BY WriterFacts
<1>2. /\ DOMAIN disk' = DOMAIN disk
      /\ \A b \in DOMAIN disk : b # active => disk'[b] = disk[b]
      /\ disk'[active].log = disk[active].log
      /\ disk'[active].synced = Len(disk[active].log)
      /\ UNCHANGED <<active, status>>
  BY <1>1 DEF File
<1>3. segs'[active].next = segs[active].next  BY <1>1 DEF Segment
<1>4. \A b \in DOMAIN disk : /\ disk[b].synced \in Nat /\ disk[b].synced <= Len(disk[b].log)
                             /\ Len(disk[b].log) \in Nat
  BY FileFacts DEF DurableInv
<1>5. AckedPlaced'
  <2>. SUFFICES ASSUME NEW r \in acked'
                PROVE  \E b \in DOMAIN disk' : \E p \in 0 .. disk'[b].synced - 2 :
                          /\ Placed(disk'[b].log, p, r)
                          /\ (status' = "up" /\ b = active') =>
                                Early(disk'[b].log, p, segs'[active'].next)
    BY DEF AckedPlaced
  <2>1. CASE r \in acked
    <3>1. PICK b \in DOMAIN disk : \E p \in 0 .. disk[b].synced - 2 :
              /\ Placed(disk[b].log, p, r)
              /\ (status = "up" /\ b = active) => Early(disk[b].log, p, segs[active].next)
      BY <2>1 DEF PlacedInv, AckedPlaced
    <3>2. PICK p \in 0 .. disk[b].synced - 2 :
              /\ Placed(disk[b].log, p, r)
              /\ (status = "up" /\ b = active) => Early(disk[b].log, p, segs[active].next)
      BY <3>1
    <3>3. b \in DOMAIN disk' /\ disk'[b].log = disk[b].log  BY <1>2
    <3>4. p \in 0 .. disk'[b].synced - 2
      <4>1. CASE b = active  BY <1>2, <1>4, <4>1
      <4>2. CASE b # active  BY <1>2, <4>2
      <4>. QED  BY <4>1, <4>2
    <3>. QED  BY <1>2, <1>3, <3>2, <3>3, <3>4
  <2>2. CASE r \notin acked
    <3>1. PICK i \in DOMAIN writer.done : r = writer.done[i]  BY <2>2
    <3>2. PICK p \in 0 .. Len(disk[active].log) - 2 :
              /\ Placed(disk[active].log, p, writer.done[i])
              /\ Early(disk[active].log, p, segs[active].next)
      BY DEF PlacedInv, DonePlaced
    <3>3. active \in DOMAIN disk' /\ p \in 0 .. disk'[active].synced - 2  BY <1>1, <1>2, <3>2
    <3>. QED  BY <1>2, <1>3, <3>1, <3>2, <3>3
  <2>. QED  BY <2>1, <2>2
<1>6. writer'.pc = "idle"  BY IdleType
<1>. QED  BY <1>5, <1>6 DEF PlacedInv, DonePlaced, HeadPlaced

\* What is cut off a file was not synced.
LEMMA PlacedLoseTail ==
    ASSUME TypeInv, TypeInv', PlacedInv, NEW b \in DOMAIN disk, LoseTail(b)
    PROVE  PlacedInv'
<1>1. /\ DOMAIN disk' = DOMAIN disk
      /\ \A c \in DOMAIN disk : c # b => disk'[c] = disk[c]
  BY LoseTailFile
<1>2. PICK k \in disk[b].synced .. Len(disk[b].log) :
          /\ k \in 0 .. Len(disk[b].log)
          /\ Truncated(disk'[b].log, disk[b].log, k)
          /\ disk'[b].synced = k
  BY LoseTailFile
<1>3. \A c \in DOMAIN disk : /\ disk[c].log \in Seq(Cell)
                             /\ disk[c].synced \in Nat /\ Len(disk[c].log) \in Nat
  BY FileFacts
<1>4. status' # "up" /\ UNCHANGED <<acked, writer>>  BY DEF LoseTail
<1>5. AckedPlaced'
  <2>. SUFFICES ASSUME NEW r \in acked
                PROVE  \E c \in DOMAIN disk' : \E p \in 0 .. disk'[c].synced - 2 :
                          Placed(disk'[c].log, p, r)
    BY <1>4 DEF AckedPlaced
  <2>1. PICK c \in DOMAIN disk : \E p \in 0 .. disk[c].synced - 2 : Placed(disk[c].log, p, r)
    BY DEF PlacedInv, AckedPlaced
  <2>2. PICK p \in 0 .. disk[c].synced - 2 : Placed(disk[c].log, p, r)
    BY <2>1
  <2>3. CASE c = b
    <3>1. p \in Nat /\ p + 2 <= k /\ p \in 0 .. disk'[b].synced - 2  BY <1>2, <1>3, <2>2, <2>3
    <3>2. Placed(disk[b].log, p, r) /\ disk[b].log \in Seq(Cell)  BY <1>3, <2>2, <2>3
    <3>3. Placed(disk'[b].log, p, r)
      BY ONLY <1>2, <3>1, <3>2, TruncatePlaced
    <3>. QED  BY <1>1, <2>3, <3>1, <3>3
  <2>4. CASE c # b
    BY <1>1, <2>2, <2>4
  <2>. QED  BY <2>3, <2>4
<1>6. writer'.pc = "idle"  BY <1>4 DEF LoseTail, TypeInv, Control
<1>. QED  BY <1>5, <1>6 DEF PlacedInv, DonePlaced, HeadPlaced

\* scan_for_next_offset goes past everything that can be decoded.
LEMMA PlacedOpen ==
    ASSUME TypeInv, TypeInv', OrderInv, PlacedInv, Open
    PROVE  PlacedInv'
<1>1. /\ DOMAIN disk \subseteq Nat /\ \A b \in DOMAIN disk : disk[b].log \in Seq(Cell)
      /\ UNCHANGED <<disk, acked, writer>> /\ writer.pc = "idle"
  BY DEF TypeInv, TypeOK, File, Open, Control
<1>2. AckedPlaced'
  <2>. SUFFICES ASSUME NEW r \in acked
                PROVE  \E b \in DOMAIN disk : \E p \in 0 .. disk[b].synced - 2 :
                          /\ Placed(disk[b].log, p, r)
                          /\ (status' = "up" /\ b = active') =>
                                Early(disk[b].log, p, segs'[active'].next)
    BY <1>1 DEF AckedPlaced
  <2>1. PICK b \in DOMAIN disk : \E p \in 0 .. disk[b].synced - 2 : Placed(disk[b].log, p, r)
    BY DEF PlacedInv, AckedPlaced
  <2>2. PICK p \in 0 .. disk[b].synced - 2 : Placed(disk[b].log, p, r)
    BY <2>1
  <2>3. ASSUME status' = "up", b = active'
        PROVE  Early(disk[b].log, p, segs'[active'].next)
    <3>1. segs' = [c \in DOMAIN disk |-> OpenSegment(disk[c], c)]
      BY <2>3 DEF Open
    <3>2. segs'[b].next = ScanForNextOffset(disk[b].log, b)
      BY <3>1 DEF OpenSegment
    <3>3. Ordered(disk[b].log, b) /\ b \in Nat /\ disk[b].log \in Seq(Cell)
      BY <1>1 DEF OrderInv, DiskOrder
    <3>4. Below(disk[b].log, segs'[b].next)
      BY ONLY <3>2, <3>3, ScanBounds
    <3>. QED  BY <2>3, <3>4 DEF Early, Below
  <2>. QED  BY <2>2, <2>3
<1>. QED  BY <1>1, <1>2 DEF PlacedInv, DonePlaced, HeadPlaced

\* Every step leaves what is acknowledged in its place.
LEMMA PlacedStep ==
    TypeInv /\ TypeInv' /\ OrderInv /\ DurableInv /\ PlacedInv /\ [Next]_vars => PlacedInv'
<1>. SUFFICES ASSUME TypeInv, TypeInv', OrderInv, DurableInv, PlacedInv, [Next]_vars
              PROVE  PlacedInv'
  OBVIOUS
<1>0. \A b \in DOMAIN disk : /\ disk[b] \in File /\ disk[b].synced \in Nat
                             /\ Len(disk[b].log) \in Nat
                             /\ disk[b].synced <= Len(disk[b].log)
                             /\ disk[b].synced >= disk[b].synced
  BY FileFacts DEF DurableInv
<1>a. AckedPlaced  BY DEF PlacedInv
<1>b. status = "up" => segs[active].next \in Nat /\ segs[active].next >= segs[active].next
  BY OpenFacts
<1>c. ASSUME AckedPlaced', writer'.pc = "idle" PROVE PlacedInv'
  BY <1>c DEF PlacedInv, DonePlaced, HeadPlaced
<1>1. ASSUME NEW batch \in Batches, BeginAppend(batch) PROVE PlacedInv'
  <2>1. /\ SameLogs /\ writer'.pc = "write" /\ writer'.done = <<>>
        /\ UNCHANGED <<acked, disk, segs, active, status>>
    BY <1>1 DEF BeginAppend, SameLogs
  <2>2. AckedPlaced'  BY <1>0, <1>a, <1>b, <2>1, AckedQuiet
  <2>3. DOMAIN writer'.done = {}  BY <2>1
  <2>. QED  BY <2>1, <2>2, <2>3 DEF PlacedInv, DonePlaced, HeadPlaced
<1>2. ASSUME NEW batch \in Batches, RotateLog(batch) PROVE PlacedInv'
  <2>1. /\ DOMAIN disk \subseteq DOMAIN disk' /\ UNCHANGED <<acked, segs, active, status>>
        /\ writer'.pc = "create_index"
        /\ \A b \in DOMAIN disk : disk'[b] = disk[b]
    BY <1>2 DEF RotateLog
  <2>2. AckedPlaced'  BY <1>a, <2>1 DEF AckedPlaced
  <2>. QED  BY <2>1, <2>2 DEF PlacedInv, DonePlaced, HeadPlaced
<1>3. CASE CreateIndex  BY <1>3, PlacedCreateIndex
<1>4. CASE WriteRecord
  <2>1. /\ writer.base = active /\ segs[active].next \in Nat /\ Head(writer.batch) \in Msgs
    BY <1>4, WriterFacts DEF WriteRecord
  <2>2. disk' = [disk EXCEPT ![active].log =
                  @ \o SubSeq(Encode(segs[active].next, Head(writer.batch)), 1, 2)]
    <3>1. SubSeq(Encode(segs[active].next, Head(writer.batch)), 1, 2) =
             Encode(segs[active].next, Head(writer.batch))
      BY <2>1, WholeRecord
    <3>. QED  BY <1>4, <2>1, <3>1 DEF WriteRecord
  <2>3. writer.pc = "write" /\ UNCHANGED <<acked, segs, active>>  BY <1>4 DEF WriteRecord
  <2>4. 2 \in 0 .. 2  OBVIOUS
  <2>5. /\ \A r \in acked : \E b \in DOMAIN disk' : \E p \in 0 .. disk'[b].synced - 2 :
              /\ Placed(disk'[b].log, p, r)
              /\ b = active => Early(disk'[b].log, p, segs[active].next)
        /\ \A i \in DOMAIN writer.done : \E p \in 0 .. Len(disk'[active].log) - 2 :
              /\ Placed(disk'[active].log, p, writer.done[i])
              /\ Early(disk'[active].log, p, segs[active].next)
        /\ \E p \in 0 .. Len(disk'[active].log) - 2 :
              Placed(disk'[active].log, p,
                     [offset |-> segs[active].next, msg |-> Head(writer.batch)])
    BY ONLY TypeInv, DurableInv, PlacedInv, <2>2, <2>3, <2>4, PlacedWrite
  <2>6. writer'.pc = "index" /\ writer'.done = writer.done /\ writer'.batch = writer.batch
    BY <1>4 DEF WriteRecord, TypeInv, TypeOK
  <2>7. AckedPlaced'  BY <2>3, <2>5 DEF AckedPlaced
  <2>8. DonePlaced'  BY <2>3, <2>5, <2>6 DEF DonePlaced
  <2>9. HeadPlaced'  BY <2>3, <2>5, <2>6 DEF HeadPlaced
  <2>. QED  BY <2>7, <2>8, <2>9 DEF PlacedInv
<1>5. CASE IndexRecord  BY <1>5, PlacedIndexRecord
<1>6. CASE SyncLog  BY <1>6, PlacedSyncLog
<1>7. CASE CreateIndexFails
  <2>1. SameLogs /\ UNCHANGED <<disk, acked, segs, active, status>> /\ writer'.pc = "idle"
    BY <1>7, IdleType DEF CreateIndexFails, Fail, SameLogs
  <2>. QED  BY <1>0, <1>a, <1>b, <1>c, <2>1, AckedQuiet
<1>8. CASE WriteRecordFails
  <2>1. writer.base = active  BY <1>8, WriterFacts DEF WriteRecordFails
  <2>2. PICK k \in 0 .. 1 : disk' = [disk EXCEPT ![active].log =
            @ \o SubSeq(Encode(segs[active].next, Head(writer.batch)), 1, k)]
    BY <1>8, <2>1 DEF WriteRecordFails
  <2>3. writer.pc = "write" /\ UNCHANGED <<acked, segs, active>> /\ writer'.pc = "idle"
    BY <1>8, IdleType DEF WriteRecordFails, Fail
  <2>4. k \in 0 .. 2  OBVIOUS
  <2>5. \A r \in acked : \E b \in DOMAIN disk' : \E p \in 0 .. disk'[b].synced - 2 :
            /\ Placed(disk'[b].log, p, r)
            /\ b = active => Early(disk'[b].log, p, segs[active].next)
    BY ONLY TypeInv, DurableInv, PlacedInv, <2>2, <2>3, <2>4, PlacedWrite
  <2>6. AckedPlaced'  BY <2>3, <2>5 DEF AckedPlaced
  <2>. QED  BY <1>c, <2>3, <2>6
<1>9. CASE IndexRecordFails
  <2>1. /\ writer.base = active /\ active \in DOMAIN disk /\ active \in DOMAIN segs
        /\ segs[active] \in Segment /\ segs[active].next \in Nat /\ status = "up"
    BY <1>9, WriterFacts DEF IndexRecordFails
  <2>2. /\ SameLogs /\ \A b \in DOMAIN disk : disk'[b].synced = disk[b].synced
        /\ segs'[active].next = segs[active].next
    <3>1. CASE UNCHANGED <<disk, segs>>  BY <3>1 DEF SameLogs
    <3>2. CASE /\ disk' = [disk EXCEPT ![active].idx =
                               PutEntry(@, segs[active].cursor, NewEntry(active))]
               /\ segs' = [segs EXCEPT ![active].cursor = @ + 1]
      <4>1. DOMAIN disk' = DOMAIN disk /\ \A b \in DOMAIN disk : b # active => disk'[b] = disk[b]
        BY <3>2
      <4>2. disk'[active].log = disk[active].log /\ disk'[active].synced = disk[active].synced
        BY <1>0, <2>1, <3>2 DEF File
      <4>3. segs'[active].next = segs[active].next
        BY <2>1, <3>2 DEF Segment
      <4>. QED  BY <4>1, <4>2, <4>3 DEF SameLogs
    <3>. QED  BY <1>9, <2>1, <3>1, <3>2 DEF IndexRecordFails
  <2>3. UNCHANGED <<acked, active, status>> /\ writer'.pc = "idle"
    BY <1>9, IdleType DEF IndexRecordFails, Fail
  <2>. QED  BY <1>0, <1>a, <1>b, <1>c, <2>1, <2>2, <2>3, AckedQuiet
<1>10. CASE SyncLogFails
  <2>1. /\ writer.base = active /\ active \in DOMAIN disk /\ active \in DOMAIN segs
        /\ segs[active] \in Segment /\ segs[active].next \in Nat /\ status = "up"
    BY <1>10, WriterFacts DEF SyncLogFails
  <2>2. /\ SameLogs /\ \A b \in DOMAIN disk : disk'[b].synced >= disk[b].synced
        /\ segs'[active].next = segs[active].next
    <3>1. CASE UNCHANGED <<disk, segs>>  BY <1>0, <3>1 DEF SameLogs
    <3>2. CASE /\ disk' = [disk EXCEPT ![active].synced = Len(disk[active].log)]
               /\ segs' = [segs EXCEPT ![active].size = writer.pos]
      <4>1. DOMAIN disk' = DOMAIN disk /\ \A b \in DOMAIN disk : b # active => disk'[b] = disk[b]
        BY <3>2
      <4>2. /\ disk'[active].log = disk[active].log
            /\ disk'[active].synced = Len(disk[active].log)
        BY <1>0, <2>1, <3>2 DEF File
      <4>3. segs'[active].next = segs[active].next
        BY <2>1, <3>2 DEF Segment
      <4>. QED  BY <1>0, <4>1, <4>2, <4>3 DEF SameLogs
    <3>. QED  BY <1>10, <2>1, <3>1, <3>2 DEF SyncLogFails
  <2>3. UNCHANGED <<acked, active, status>> /\ writer'.pc = "idle"
    BY <1>10, IdleType DEF SyncLogFails, Fail
  <2>. QED  BY <1>a, <1>b, <1>c, <2>1, <2>2, <2>3, AckedQuiet
<1>11. CASE Flush
  <2>1. SameLogs /\ \A b \in DOMAIN disk : disk'[b].synced >= disk[b].synced
    BY <1>0, <1>11 DEF Flush, SameLogs, File
  <2>2. UNCHANGED <<segs, active, status, acked, writer>> /\ writer.pc = "idle"
    BY <1>11 DEF Flush
  <2>. QED  BY <1>a, <1>b, <1>c, <2>1, <2>2, AckedQuiet
<1>12. CASE Crash
  <2>1. UNCHANGED acked /\ writer'.pc = "idle" /\ status' # "up"  BY <1>12, IdleType DEF Crash
  <2>2. CASE UNCHANGED disk
    <3>1. SameLogs  BY <2>2 DEF SameLogs
    <3>. QED  BY <1>0, <1>a, <1>c, <2>1, <2>2, <3>1, AckedQuiet
  <2>3. CASE /\ writer.pc = "write"
             /\ disk' = [disk EXCEPT ![writer.base].log =
                  @ \o SubSeq(Encode(segs[writer.base].next, Head(writer.batch)), 1, 1)]
    <3>1. writer.base = active  BY <2>3, WriterFacts
    <3>2. disk' = [disk EXCEPT ![active].log =
                  @ \o SubSeq(Encode(segs[active].next, Head(writer.batch)), 1, 1)]
      BY <2>3, <3>1
    <3>3. 1 \in 0 .. 2  OBVIOUS
    <3>4. \A r \in acked : \E b \in DOMAIN disk' : \E p \in 0 .. disk'[b].synced - 2 :
              /\ Placed(disk'[b].log, p, r)
              /\ b = active => Early(disk'[b].log, p, segs[active].next)
      BY ONLY TypeInv, DurableInv, PlacedInv, <2>3, <3>2, <3>3, PlacedWrite
    <3>5. AckedPlaced'  BY <2>1, <3>4 DEF AckedPlaced
    <3>. QED  BY <1>c, <2>1, <3>5
  <2>. QED  BY <1>12, <2>2, <2>3 DEF Crash
<1>13. CASE Open  BY <1>13, PlacedOpen
<1>14. ASSUME NEW b \in DOMAIN disk, LoseTail(b) PROVE PlacedInv'  BY <1>14, PlacedLoseTail
<1>15. CASE UNCHANGED vars
  BY <1>15 DEF vars, PlacedInv, AckedPlaced, DonePlaced, HeadPlaced
<1>. QED
  BY <1>1, <1>2, <1>3, <1>4, <1>5, <1>6, <1>7, <1>8, <1>9, <1>10, <1>11, <1>12,
     <1>13, <1>14, <1>15 DEF Next

\* In files without a torn record one offset has one acknowledged record.
LEMMA IntactUnique ==
    ASSUME TypeInv, OrderInv, PlacedInv, Intact, NEW r \in acked, NEW s \in acked,
           r.offset = s.offset
    PROVE  r = s
<1>1. /\ DOMAIN disk \subseteq Nat /\ r \in Record /\ s \in Record
      /\ \A b \in DOMAIN disk : /\ disk[b].log \in Seq(Cell) /\ Len(disk[b].log) \in Nat
                                /\ disk[b].synced \in Nat
  BY FileFacts DEF TypeInv, TypeOK
<1>2. ASSUME NEW x \in acked
      PROVE  \E b \in DOMAIN disk : \E k \in 0 .. Len(disk[b].log) :
                InPrefix(disk[b].log, k) /\ Placed(disk[b].log, 2 * k, x)
  <2>1. PICK b \in DOMAIN disk : \E p \in 0 .. disk[b].synced - 2 : Placed(disk[b].log, p, x)
    BY DEF PlacedInv, AckedPlaced
  <2>2. PICK p \in 0 .. disk[b].synced - 2 : Placed(disk[b].log, p, x)
    BY <2>1
  <2>. DEFINE log == disk[b].log
              n == Decodable(log, 0)
  <2>3. 2 * n = Len(log) /\ log \in Seq(Cell) /\ Len(log) \in Nat
    BY <1>1 DEF Intact
  <2>4. n \in 0 .. Len(log) /\ \A i \in 0 .. n - 1 : Decodes(log, 0 + 2 * i)
    BY <2>3, DecodableExists
  <2>5. p \in Nat /\ p + 2 <= Len(log) /\ log[p + 1].part = "head"
    BY <1>1, <2>2 DEF Placed, Decodes
  <2>. HIDE DEF n, log
  <2>6. \A i \in 0 .. n - 1 : Decodes(log, 2 * i) /\ 2 * i \in Nat
    <3>1. \A i \in 0 .. n - 1 : 0 + 2 * i = 2 * i /\ 2 * i \in Nat  BY <2>4
    <3>. QED  BY <2>4, <3>1
  <2>7. PICK k \in Nat : p = 2 * k \/ p = 2 * k + 1
    <3>1. p \div 2 \in Nat /\ (p = 2 * (p \div 2) \/ p = 2 * (p \div 2) + 1)  BY <2>5
    <3>. QED  BY <3>1
  <2>8. k \in 0 .. n - 1 /\ k \in 0 .. Len(log)  BY <2>3, <2>4, <2>5, <2>7
  <2>9. p = 2 * k
    <3>. SUFFICES ASSUME p = 2 * k + 1 PROVE FALSE  BY <2>7
    <3>1. Decodes(log, 2 * k) /\ 2 * k \in Nat  BY <2>6, <2>8
    <3>2. log[2 * k + 1] \in Cell /\ log[2 * k + 2] = [log[2 * k + 1] EXCEPT !.part = "tail"]
      BY <2>3, <3>1, DecodesInside DEF Decodes
    <3>3. log[2 * k + 2].part = "tail"  BY <3>2 DEF Cell
    <3>4. p + 1 = 2 * k + 2  BY <2>8
    <3>. QED  BY <2>5, <3>3, <3>4
  <2>10. InPrefix(log, k)  BY <2>4, <2>6, <2>8 DEF InPrefix
  <2>. QED  BY <2>2, <2>8, <2>9, <2>10 DEF log
<1>3. PICK b \in DOMAIN disk : \E k \in 0 .. Len(disk[b].log) :
          InPrefix(disk[b].log, k) /\ Placed(disk[b].log, 2 * k, r)
  BY <1>2
<1>4. PICK k \in 0 .. Len(disk[b].log) :
          InPrefix(disk[b].log, k) /\ Placed(disk[b].log, 2 * k, r)
  BY <1>3
<1>5. PICK c \in DOMAIN disk : \E m \in 0 .. Len(disk[c].log) :
          InPrefix(disk[c].log, m) /\ Placed(disk[c].log, 2 * m, s)
  BY <1>2
<1>6. PICK m \in 0 .. Len(disk[c].log) :
          InPrefix(disk[c].log, m) /\ Placed(disk[c].log, 2 * m, s)
  BY <1>5
<1>7. /\ disk[b].log[2 * k + 1].offset = r.offset /\ disk[b].log[2 * k + 1].msg = r.msg
      /\ disk[c].log[2 * m + 1].offset = s.offset /\ disk[c].log[2 * m + 1].msg = s.msg
      /\ r.offset \in Nat /\ b \in Nat /\ c \in Nat
  BY <1>1, <1>4, <1>6 DEF Placed, Record
<1>8. b <= r.offset /\ c <= s.offset
  BY <1>4, <1>6, <1>7 DEF OrderInv, DiskOrder, Ordered
<1>9. /\ b < c => r.offset < c
      /\ c < b => s.offset < b
  BY <1>4, <1>6, <1>7 DEF OrderInv, DiskOrder, Below
<1>10. b = c  BY <1>7, <1>8, <1>9
<1>11. k = m
  <2>1. k \in 0 .. Len(disk[b].log) /\ m \in 0 .. Len(disk[b].log) /\ k \in Nat /\ m \in Nat
    BY <1>4, <1>6, <1>10
  <2>2. ~(k < m)
    <3>1. k < m => disk[b].log[2 * k + 1].offset < disk[b].log[2 * m + 1].offset
      BY <1>4, <1>6, <1>10, <2>1 DEF Placed, Final
    <3>. QED  BY <1>7, <1>10, <3>1
  <2>3. ~(m < k)
    <3>1. m < k => disk[b].log[2 * m + 1].offset < disk[b].log[2 * k + 1].offset
      BY <1>4, <1>6, <1>10, <2>1 DEF Placed, Final
    <3>. QED  BY <1>7, <1>10, <3>1
  <2>. QED  BY <2>1, <2>2, <2>3
<1>. QED  BY <1>1, <1>7, <1>10, <1>11 DEF Record

\* Nothing is given at the start.
LEMMA CountedInit == Init => CountedInv
BY DEF Init, Idle, CountedInv

\* Steps that acknowledge nothing and leave next_offset where it was, with the
\* same records written or none.
LEMMA CountedQuiet ==
    ASSUME CountedInv, UNCHANGED <<acked, crashes, status>>,
           crashes = 0 => segs'[active'].next = segs[active].next,
           \/ writer'.pc \in {"idle", "create_index"}
           \/ writer'.done = <<>>
           \/ writer'.done = writer.done /\ writer.pc \in {"write", "index", "sync"}
    PROVE  CountedInv'
<1>1. DOMAIN <<>> = {}  OBVIOUS
<1>. QED  BY <1>1 DEF CountedInv

\* The offset given is next_offset, which then moves past it.
LEMMA CountedIndexRecord ==
    ASSUME TypeInv, TypeInv', CountedInv, IndexRecord
    PROVE  CountedInv'
<1>. USE DEF IndexRecord
<1>. SUFFICES ASSUME crashes = 0 PROVE CountedInv'  BY DEF CountedInv
<1>. DEFINE rec == [offset |-> segs[active].next, msg |-> Head(writer.batch)]
            old == segs[active].next
<1>1. /\ writer.base = active /\ active \in DOMAIN segs /\ segs[active] \in Segment
      /\ old \in Nat /\ Head(writer.batch) \in Msgs /\ writer.done \in Seq(Record)
      /\ status = "up"
  BY WriterFacts
<1>2. UNCHANGED <<active, status, acked>>  OBVIOUS
<1>3. segs'[active].next = old + 1  BY <1>1 DEF Segment
<1>4. writer'.done = Append(writer.done, rec)  BY <1>1 DEF TypeInv, TypeOK
<1>5. rec \in Record /\ rec.offset = old  BY <1>1 DEF Record
<1>6. \A r \in acked : r.offset \in Nat /\ r.offset < old
  BY DEF TypeInv, TypeOK, Record, CountedInv
<1>7. \A r, s \in acked : r.offset = s.offset => r = s  BY DEF CountedInv
<1>8. \A i \in DOMAIN writer.done :
          /\ writer.done[i].offset < old
          /\ \A r \in acked : r.offset < writer.done[i].offset
  BY DEF CountedInv
<1>9. \A i, j \in DOMAIN writer.done :
          writer.done[i].offset = writer.done[j].offset => i = j
  BY DEF CountedInv
<1>. HIDE DEF rec, old
<1>10. PICK n \in Nat : n = Len(writer.done)  BY <1>1, LenProperties
<1>11. DOMAIN writer.done = 1 .. n /\ \A i \in 1 .. n : writer.done[i].offset \in Nat
  <2>1. DOMAIN writer.done = 1 .. n /\ \A i \in 1 .. n : writer.done[i] \in Record
    BY ONLY <1>1, <1>10, LenProperties, ElementOfSeq
  <2>. QED  BY ONLY <2>1 DEF Record
<1>12. /\ DOMAIN writer'.done = 1 .. n + 1
       /\ \A i \in 1 .. n : writer'.done[i] = writer.done[i]
       /\ writer'.done[n + 1] = rec
  BY ONLY <1>1, <1>4, <1>5, <1>10, AppendProperties, LenProperties
<1>13. \A i \in 1 .. n + 1 : i \in 1 .. n \/ i = n + 1  OBVIOUS
<1>14. \A i \in DOMAIN writer'.done :
          /\ writer'.done[i].offset < old + 1
          /\ \A r \in acked : r.offset < writer'.done[i].offset
  <2>. TAKE i \in DOMAIN writer'.done
  <2>1. CASE i \in 1 .. n  BY <1>1, <1>8, <1>11, <1>12, <2>1
  <2>2. CASE i = n + 1  BY <1>1, <1>5, <1>6, <1>12, <2>2
  <2>. QED  BY <1>12, <1>13, <2>1, <2>2
<1>15. \A i, j \in DOMAIN writer'.done :
          writer'.done[i].offset = writer'.done[j].offset => i = j
  <2>1. \A i \in 1 .. n : writer'.done[i].offset = writer.done[i].offset
                          /\ writer'.done[i].offset # old
    BY <1>1, <1>8, <1>11, <1>12
  <2>2. writer'.done[n + 1].offset = old  BY <1>5, <1>12
  <2>. QED  BY <1>9, <1>11, <1>12, <1>13, <2>1, <2>2
<1>16. \A r \in acked : r.offset < old + 1  BY <1>1, <1>6
<1>. QED  BY <1>1, <1>2, <1>3, <1>7, <1>14, <1>15, <1>16 DEF CountedInv

\* What is acknowledged is what was counted.
LEMMA CountedSyncLog ==
    ASSUME TypeInv, CountedInv, SyncLog
    PROVE  CountedInv'
<1>. USE DEF SyncLog
<1>. SUFFICES ASSUME crashes = 0 PROVE CountedInv'  BY DEF CountedInv
<1>1. /\ writer.base = active /\ active \in DOMAIN segs /\ segs[active] \in Segment
      /\ segs[active].next \in Nat /\ writer.done \in Seq(Record) /\ status = "up"
  BY WriterFacts
<1>2. UNCHANGED <<active, status>> /\ writer'.pc = "idle"  BY IdleType
<1>3. segs'[active].next = segs[active].next  BY <1>1 DEF Segment
<1>4. \A r \in acked : r.offset \in Nat /\ r.offset < segs[active].next
  BY DEF TypeInv, TypeOK, Record, CountedInv
<1>5. \A r, s \in acked : r.offset = s.offset => r = s  BY DEF CountedInv
<1>6. \A i \in DOMAIN writer.done :
          /\ writer.done[i].offset < segs[active].next
          /\ \A r \in acked : r.offset < writer.done[i].offset
  BY DEF CountedInv
<1>7. \A i, j \in DOMAIN writer.done :
          writer.done[i].offset = writer.done[j].offset => i = j
  BY DEF CountedInv
<1>8. acked' = acked \cup {writer.done[i] : i \in DOMAIN writer.done}  OBVIOUS
<1>9. \A r \in acked' : r.offset < segs[active].next  BY <1>4, <1>6, <1>8
<1>10. ASSUME NEW r \in acked', NEW s \in acked', r.offset = s.offset PROVE r = s
  <2>1. \A x \in acked' : x \in acked \/ \E i \in DOMAIN writer.done : x = writer.done[i]
    BY <1>8
  <2>2. \A i \in DOMAIN writer.done : writer.done[i].offset \in Nat
    <3>1. \A i \in DOMAIN writer.done : writer.done[i] \in Record
      BY ONLY <1>1, LenProperties, ElementOfSeq
    <3>. QED  BY ONLY <3>1 DEF Record
  <2>3. CASE r \in acked /\ s \in acked  BY <1>5, <1>10, <2>3
  <2>4. CASE r \in acked /\ s \notin acked
    <3>1. PICK i \in DOMAIN writer.done : s = writer.done[i]  BY <2>1, <2>4
    <3>. QED  BY <1>4, <1>6, <1>10, <2>2, <2>4, <3>1
  <2>5. CASE r \notin acked /\ s \in acked
    <3>1. PICK i \in DOMAIN writer.done : r = writer.done[i]  BY <2>1, <2>5
    <3>. QED  BY <1>4, <1>6, <1>10, <2>2, <2>5, <3>1
  <2>6. CASE r \notin acked /\ s \notin acked
    <3>1. PICK i \in DOMAIN writer.done : r = writer.done[i]  BY <2>1, <2>6
    <3>2. PICK j \in DOMAIN writer.done : s = writer.done[j]  BY <2>1, <2>6
    <3>. QED  BY <1>7, <1>10, <3>1, <3>2
  <2>. QED  BY <2>3, <2>4, <2>5, <2>6
<1>. QED  BY <1>1, <1>2, <1>3, <1>9, <1>10 DEF CountedInv

\* Until the broker stops for the first time, next_offset is past what it gave.
LEMMA CountedStep ==
    TypeInv /\ TypeInv' /\ DurableInv /\ CountedInv /\ [Next]_vars => CountedInv'
<1>. SUFFICES ASSUME TypeInv, TypeInv', DurableInv, CountedInv, [Next]_vars
              PROVE  CountedInv'
  OBVIOUS
<1>1. ASSUME NEW batch \in Batches, BeginAppend(batch) PROVE CountedInv'
  BY <1>1, CountedQuiet DEF BeginAppend
<1>2. ASSUME NEW batch \in Batches, RotateLog(batch) PROVE CountedInv'
  BY <1>2, CountedQuiet DEF RotateLog
<1>3. CASE CreateIndex
  <2>1. /\ UNCHANGED <<acked, crashes, status>> /\ active' = writer.base
        /\ writer.base = segs[active].next
    BY <1>3 DEF CreateIndex, TypeInv, Control
  <2>2. segs'[active'].next = writer.base
    BY <1>3 DEF CreateIndex, CreateSegment
  <2>3. writer'.done = <<>>  BY <1>3 DEF CreateIndex, DurableInv, TypeInv, TypeOK
  <2>. QED  BY <2>1, <2>2, <2>3, CountedQuiet
<1>4. CASE WriteRecord
  <2>1. /\ UNCHANGED <<acked, crashes, status, segs, active>>
        /\ writer'.done = writer.done /\ writer.pc \in {"write", "index", "sync"}
    BY <1>4 DEF WriteRecord, TypeInv, TypeOK
  <2>. QED  BY <2>1, CountedQuiet
<1>5. CASE IndexRecord  BY <1>5, CountedIndexRecord
<1>6. CASE SyncLog  BY <1>6, CountedSyncLog
<1>7. CASE CreateIndexFails
  BY <1>7, IdleType, CountedQuiet DEF CreateIndexFails, Fail
<1>8. CASE WriteRecordFails
  <2>1. UNCHANGED <<acked, crashes, status, segs, active>> /\ writer'.pc = "idle"
    BY <1>8, IdleType DEF WriteRecordFails, Fail
  <2>. QED  BY <2>1, CountedQuiet
<1>9. CASE IndexRecordFails
  <2>1. UNCHANGED <<acked, crashes, status, active>> /\ writer'.pc = "idle"
    BY <1>9, IdleType DEF IndexRecordFails, Fail
  <2>2. writer.base = active /\ active \in DOMAIN segs /\ segs[active] \in Segment
    BY <1>9, WriterFacts DEF IndexRecordFails
  <2>3. segs' = segs \/ segs' = [segs EXCEPT ![active].cursor = @ + 1]
    BY <1>9, <2>2 DEF IndexRecordFails
  <2>4. segs'[active].next = segs[active].next  BY <2>2, <2>3 DEF Segment
  <2>. QED  BY <2>1, <2>4, CountedQuiet
<1>10. CASE SyncLogFails
  <2>1. UNCHANGED <<acked, crashes, status, active>> /\ writer'.pc = "idle"
    BY <1>10, IdleType DEF SyncLogFails, Fail
  <2>2. writer.base = active /\ active \in DOMAIN segs /\ segs[active] \in Segment
    BY <1>10, WriterFacts DEF SyncLogFails
  <2>3. segs' = segs \/ segs' = [segs EXCEPT ![active].size = writer.pos]
    BY <1>10, <2>2 DEF SyncLogFails
  <2>4. segs'[active].next = segs[active].next  BY <2>2, <2>3 DEF Segment
  <2>. QED  BY <2>1, <2>4, CountedQuiet
<1>11. CASE Flush
  BY <1>11, CountedQuiet DEF Flush
<1>12. CASE Crash
  <2>1. crashes \in Nat /\ crashes' = crashes + 1  BY <1>12 DEF Crash, TypeInv, TypeOK
  <2>2. crashes' # 0  BY <2>1
  <2>. QED  BY <2>2 DEF CountedInv
<1>13. CASE Open
  BY <1>13 DEF Open, CountedInv
<1>14. ASSUME NEW b \in DOMAIN disk, LoseTail(b) PROVE CountedInv'
  BY <1>14 DEF LoseTail, CountedInv
<1>15. CASE UNCHANGED vars
  BY <1>15 DEF vars, CountedInv
<1>. QED
  BY <1>1, <1>2, <1>3, <1>4, <1>5, <1>6, <1>7, <1>8, <1>9, <1>10, <1>11, <1>12,
     <1>13, <1>14, <1>15 DEF Next

\* However appends fail, two answers never name one offset for two messages,
\* and neither do crashes, power losses and rescans, as long as the files have
\* no torn record that hides the records after it from scan_for_next_offset.
THEOREM OffsetsAreNotReused == Spec => []OffsetsNotReused
<1>1. TypeInv /\ OrderInv /\ PlacedInv /\ CountedInv => OffsetsNotReused
  <2>. SUFFICES ASSUME TypeInv, OrderInv, PlacedInv, CountedInv, crashes = 0 \/ Intact,
                       NEW r \in acked, NEW s \in acked, r.offset = s.offset
                PROVE  r = s
    BY DEF OffsetsNotReused
  <2>1. CASE crashes = 0  BY <2>1 DEF CountedInv
  <2>2. CASE Intact  BY <2>2, IntactUnique
  <2>. QED  BY <2>1, <2>2
<1>. QED
  BY <1>1, TypeInvariance, OrderInit, OrderStep, DurableInit, DurableStep,
     PlacedInit, PlacedStep, CountedInit, CountedStep, PTL DEF Spec

-----------------------------------------------------------------------------
(* The index files, and what a search of them finds.                       *)

\* The entry i of an index file names the position of the record at its offset.
GoodEntry(f, i) ==
    /\ Decodes(f.log, f.idx[i].position)
    /\ f.log[f.idx[i].position + 1].offset = f.idx[i].offset

\* Every entry of an index file is good, and their offsets increase.
Indexed(f) ==
    \A i \in 1 .. Len(f.idx) :
        /\ GoodEntry(f, i)
        /\ \A j \in 1 .. i - 1 : f.idx[j].offset < f.idx[i].offset

\* The position the writer counts is the end of the active file, or the start
\* of the record just written.
EndKnown ==
    /\ writer.pc \in {"idle", "create_index"} => segs[active].size = Len(disk[active].log)
    /\ writer.pc = "create_index" => writer.pos = 0
    /\ writer.pc \in {"write", "sync"} => writer.pos = Len(disk[active].log)
    /\ writer.pc = "index" =>
          /\ writer.pos + 2 = Len(disk[active].log)
          /\ Decodes(disk[active].log, writer.pos)
          /\ disk[active].log[writer.pos + 1].offset = segs[active].next

\* An open index that was not written over since it was opened again is the
\* one on disk; before the first crash every index is written at its end.
OpenIndex(b) ==
    /\ ~Reindexed(b) =>
          /\ Indexed(disk[b])
          /\ segs[b].entries = Len(disk[b].idx)
          /\ segs[b].imapped = Len(disk[b].idx)
          /\ segs[b].cursor = segs[b].entries =>
                \A i \in 1 .. Len(disk[b].idx) : disk[b].idx[i].offset < segs[b].next
    /\ crashes = 0 => segs[b].cursor = segs[b].entries

\* The index files while no call failed and the broker stopped at most once.
IndexFiles ==
    /\ crashes = 0 => status = "up"
    /\ status = "up" => EndKnown
    /\ \A b \in DOMAIN segs : OpenIndex(b)
    /\ \A b \in DOMAIN disk \ DOMAIN segs :
          IF status = "up" THEN disk[b].idx = <<>> ELSE Indexed(disk[b])

IndexInv == failures = 0 /\ crashes <= 1 => IndexFiles

\* An empty index is good.
LEMMA EmptyIndexed == ASSUME NEW f, f.idx = <<>> PROVE Indexed(f)
<1>1. Len(f.idx) = 0  BY EmptySeq
<1>. QED  BY <1>1 DEF Indexed

\* At first the one index file is empty.
LEMMA IndexInit == Init => IndexInv
<1>. SUFFICES ASSUME Init PROVE IndexFiles  BY DEF IndexInv
<1>. USE DEF Init
<1>1. disk[0].idx = <<>> /\ disk[0].log = <<>> /\ DOMAIN disk = {0} /\ DOMAIN segs = {0}
  BY DEF EmptyFile
<1>2. /\ segs[0].entries = 0 /\ segs[0].imapped = 0 /\ segs[0].cursor = 0 /\ segs[0].size = 0
  BY DEF CreateSegment
<1>3. Len(<<>>) = 0  BY EmptySeq
<1>4. Indexed(disk[0])  BY <1>1, EmptyIndexed
<1>5. OpenIndex(0)
  <2>1. \A i \in 1 .. Len(disk[0].idx) : FALSE  BY <1>1, <1>3
  <2>2. segs[0].entries = Len(disk[0].idx) /\ segs[0].imapped = Len(disk[0].idx)
    BY <1>1, <1>2, <1>3
  <2>. QED  BY <1>2, <1>4, <2>1, <2>2 DEF OpenIndex
<1>6. EndKnown  BY <1>1, <1>2, <1>3 DEF EndKnown, Idle
<1>. QED  BY <1>1, <1>5, <1>6 DEF IndexFiles

\* A good index stays good while records are written at the end of the log.
LEMMA IndexedGrows ==
    ASSUME NEW f \in File, NEW g, g.idx = f.idx, Indexed(f),
           NEW o \in Nat, NEW m \in Msgs, NEW k \in 0 .. 2,
           Extended(g.log, f.log, o, m, k)
    PROVE  Indexed(g)
<1>. SUFFICES ASSUME NEW i \in 1 .. Len(f.idx) PROVE GoodEntry(g, i)
  BY DEF Indexed
<1>1. f.log \in Seq(Cell) /\ f.idx \in Seq(Entry)  BY DEF File
<1>2. f.idx[i] \in Entry  BY <1>1, ElementOfSeq
<1>3. f.idx[i].position \in Nat  BY <1>2 DEF Entry
<1>4. GoodEntry(f, i)  BY DEF Indexed
<1>5. Decodes(f.log, f.idx[i].position)  BY <1>4 DEF GoodEntry
<1>6. /\ Decodes(g.log, f.idx[i].position)
      /\ g.log[f.idx[i].position + 1] = f.log[f.idx[i].position + 1]
  BY <1>1, <1>3, <1>5, AppendDecodes
<1>. QED  BY <1>4, <1>6 DEF GoodEntry

\* Whether an index is good depends on the bytes of the two files only.
LEMMA IndexedSame ==
    ASSUME NEW f, NEW g, g.idx = f.idx, g.log = f.log, Indexed(f) PROVE Indexed(g)
BY DEF Indexed, GoodEntry

\* Steps that touch neither the logs nor the indexes nor their counters.
LEMMA IndexQuiet ==
    ASSUME IndexFiles, UNCHANGED <<status, crashes>>, DOMAIN segs' = DOMAIN segs,
           DOMAIN segs \subseteq DOMAIN disk, DOMAIN disk \subseteq DOMAIN disk',
           \A b \in DOMAIN disk : disk'[b].idx = disk[b].idx /\ disk'[b].log = disk[b].log,
           \A b \in DOMAIN disk' \ DOMAIN disk : disk'[b].idx = <<>>,
           \A b \in DOMAIN segs :
              /\ segs'[b].entries = segs[b].entries /\ segs'[b].imapped = segs[b].imapped
              /\ segs'[b].cursor = segs[b].cursor /\ segs'[b].next = segs[b].next,
           status = "up" => EndKnown'
    PROVE  IndexFiles'
<1>1. ASSUME NEW b \in DOMAIN segs PROVE OpenIndex(b)'
  <2>1. OpenIndex(b)  BY DEF IndexFiles
  <2>2. Reindexed(b)' <=> Reindexed(b)  BY DEF Reindexed
  <2>3. Indexed(disk[b]) => Indexed(disk'[b])  BY IndexedSame
  <2>4. disk'[b].idx = disk[b].idx  OBVIOUS
  <2>. QED  BY <2>1, <2>2, <2>3, <2>4 DEF OpenIndex
<1>2. ASSUME NEW b \in DOMAIN disk' \ DOMAIN segs
      PROVE  IF status = "up" THEN disk'[b].idx = <<>> ELSE Indexed(disk'[b])
  <2>1. CASE b \in DOMAIN disk  BY <2>1, IndexedSame DEF IndexFiles
  <2>2. CASE b \notin DOMAIN disk  BY <2>2, EmptyIndexed
  <2>. QED  BY <2>1, <2>2
<1>. QED  BY <1>1, <1>2 DEF IndexFiles

\* The index of the new segment is empty, and so is its log.
LEMMA IndexCreateIndex ==
    ASSUME TypeInv, OrderInv, IndexFiles, CreateIndex PROVE IndexFiles'
<1>. USE DEF CreateIndex
<1>. DEFINE base == writer.base
<1>1. status = "up" /\ base = segs[active].next /\ base \in DOMAIN disk /\ segs[active].size >= MaxSize
  BY DEF TypeInv, TypeOK, Control
<1>2. /\ active \in DOMAIN segs /\ active \in Nat /\ base \in Nat
      /\ DOMAIN disk \subseteq Nat /\ DOMAIN segs \subseteq DOMAIN disk
      /\ disk[base] \in File
      /\ segs[active].size \in Nat /\ MaxSize \in Nat /\ MaxSize > 0
  BY <1>1, OpenFacts
<1>3. base > active  BY <1>1, <1>2 DEF OrderInv, OpenOrder
<1>4. \A b \in DOMAIN segs : b <= active /\ b \in Nat  BY <1>1, <1>2 DEF OrderInv, OpenOrder
<1>5. base \notin DOMAIN segs  BY <1>2, <1>3, <1>4
<1>6. disk[base].log = <<>>  BY <1>1, <1>5 DEF OrderInv, OpenOrder
<1>7. disk[base].idx = <<>>  BY <1>1, <1>5 DEF IndexFiles
<1>8. /\ DOMAIN disk' = DOMAIN disk /\ active' = base /\ UNCHANGED <<status, crashes>>
      /\ \A b \in DOMAIN disk : disk'[b].idx = disk[b].idx /\ disk'[b].log = disk[b].log
      /\ DOMAIN segs' = DOMAIN segs \cup {base}
      /\ \A b \in DOMAIN segs : segs'[b] = segs[b]
      /\ segs'[base] = CreateSegment(base)
  <2>1. \A b \in DOMAIN disk : disk'[b].idx = disk[b].idx /\ disk'[b].log = disk[b].log
    BY <1>1, <1>2 DEF File
  <2>. QED  BY <1>5, <2>1
<1>9. Len(<<>>) = 0  BY EmptySeq
<1>10. ASSUME NEW b \in DOMAIN segs' PROVE OpenIndex(b)'
  <2>1. CASE b = base
    <3>1. Indexed(disk'[b])  BY <1>1, <1>7, <1>8, <2>1, EmptyIndexed
    <3>2. disk'[b].idx = <<>>  BY <1>1, <1>7, <1>8, <2>1
    <3>3. segs'[b].entries = 0 /\ segs'[b].cursor = 0 /\ segs'[b].imapped = 0
      BY <1>8, <2>1 DEF CreateSegment
    <3>4. \A i \in 1 .. Len(disk'[b].idx) : FALSE  BY <1>9, <3>2
    <3>5. Len(disk'[b].idx) = 0  BY <1>9, <3>2
    <3>. QED  BY <3>1, <3>3, <3>4, <3>5 DEF OpenIndex
  <2>2. CASE b \in DOMAIN segs
    <3>1. OpenIndex(b)  BY <2>2 DEF IndexFiles
    <3>2. segs'[b] = segs[b] /\ disk'[b].idx = disk[b].idx /\ disk'[b].log = disk[b].log
      BY <1>2, <1>8, <2>2
    <3>3. Indexed(disk[b]) => Indexed(disk'[b])  BY <3>2, IndexedSame
    <3>. QED  BY <1>8, <3>1, <3>2, <3>3 DEF OpenIndex, Reindexed
  <2>. QED  BY <1>8, <2>1, <2>2
<1>11. EndKnown'
  <2>1. writer.pos = 0  BY <1>1 DEF IndexFiles, EndKnown
  <2>2. writer'.pc = "write" /\ writer'.pos = 0  BY <2>1 DEF TypeInv, TypeOK
  <2>3. disk'[active'].log = <<>>  BY <1>1, <1>6, <1>8
  <2>. QED  BY <1>9, <2>2, <2>3 DEF EndKnown
<1>12. \A b \in DOMAIN disk' \ DOMAIN segs' : disk'[b].idx = <<>>
  BY <1>1, <1>8 DEF IndexFiles
<1>. QED  BY <1>1, <1>8, <1>10, <1>11, <1>12 DEF IndexFiles

\* A record written whole is where the writer says.
LEMMA IndexWriteRecord ==
    ASSUME TypeInv, IndexFiles, WriteRecord PROVE IndexFiles'
<1>. USE DEF WriteRecord
<1>1. /\ writer.base = active /\ status = "up" /\ active \in DOMAIN disk /\ active \in DOMAIN segs
      /\ segs[active].next \in Nat /\ Head(writer.batch) \in Msgs
      /\ disk[active] \in File /\ disk[active].log \in Seq(Cell) /\ Len(disk[active].log) \in Nat
  BY WriterFacts
<1>2. disk' = [disk EXCEPT ![active].log =
                  @ \o SubSeq(Encode(segs[active].next, Head(writer.batch)), 1, 2)]
  BY <1>1, WholeRecord
<1>3. /\ DOMAIN disk' = DOMAIN disk
      /\ Extended(disk'[active].log, disk[active].log,
                  segs[active].next, Head(writer.batch), 2)
  <2>1. 2 \in 0 .. 2 /\ writer.pc = "write"  OBVIOUS
  <2>. QED  BY ONLY TypeInv, <1>2, <2>1, TypeWrite
<1>4. /\ \A b \in DOMAIN disk : disk'[b].idx = disk[b].idx
      /\ \A b \in DOMAIN disk : b # active => disk'[b] = disk[b]
  BY <1>1, <1>2 DEF File
<1>5. UNCHANGED <<status, crashes, segs, active>>  OBVIOUS
<1>6. \A b \in DOMAIN disk : Indexed(disk[b]) => Indexed(disk'[b])
  <2>. TAKE b \in DOMAIN disk
  <2>1. CASE b = active
    <3>1. 2 \in 0 .. 2  OBVIOUS
    <3>. QED  BY ONLY <1>1, <1>3, <1>4, <2>1, <3>1, IndexedGrows
  <2>2. CASE b # active  BY <1>4, <2>2, IndexedSame
  <2>. QED  BY <2>1, <2>2
<1>7. ASSUME NEW b \in DOMAIN segs PROVE OpenIndex(b)'
  <2>1. OpenIndex(b) /\ b \in DOMAIN disk  BY DEF IndexFiles, TypeInv, TypeOK
  <2>2. Reindexed(b)' <=> Reindexed(b)  BY <1>5 DEF Reindexed
  <2>3. disk'[b].idx = disk[b].idx  BY <1>4, <2>1
  <2>4. Indexed(disk[b]) => Indexed(disk'[b])  BY <1>6, <2>1
  <2>. QED  BY <1>5, <2>1, <2>2, <2>3, <2>4 DEF OpenIndex
<1>8. EndKnown'
  <2>1. writer.pos = Len(disk[active].log)  BY <1>1 DEF IndexFiles, EndKnown
  <2>2. writer'.pc = "index" /\ writer'.pos = Len(disk[active].log)
    BY <2>1 DEF TypeInv, TypeOK
  <2>3. /\ Decodes(disk'[active].log, Len(disk[active].log))
        /\ disk'[active].log[Len(disk[active].log) + 1].offset = segs[active].next
    BY <1>1, <1>3, AppendWhole
  <2>4. Len(disk'[active].log) = Len(disk[active].log) + 2  BY <1>3 DEF Extended
  <2>. QED  BY <1>5, <2>2, <2>3, <2>4 DEF EndKnown
<1>9. \A b \in DOMAIN disk' \ DOMAIN segs' : disk'[b].idx = <<>>
  BY <1>1, <1>3, <1>4, <1>5 DEF IndexFiles
<1>. QED  BY <1>1, <1>5, <1>7, <1>8, <1>9 DEF IndexFiles

\* The entry of a record written at the end of the index keeps it good.
LEMMA PutEntryIndexed ==
    ASSUME NEW f \in File, NEW g, NEW e \in Entry, Indexed(f),
           g.log = f.log, g.idx = PutEntry(f.idx, Len(f.idx), e),
           Decodes(f.log, e.position), f.log[e.position + 1].offset = e.offset,
           \A i \in 1 .. Len(f.idx) : f.idx[i].offset < e.offset
    PROVE  /\ Indexed(g) /\ Len(g.idx) = Len(f.idx) + 1
           /\ \A i \in 1 .. Len(g.idx) : g.idx[i].offset <= e.offset
<1>1. f.idx \in Seq(Entry)  BY DEF File
<1>2. PICK n \in Nat : n = Len(f.idx)  BY <1>1, LenProperties
<1>3. g.idx = Append(f.idx, e)  BY <1>2 DEF PutEntry
<1>4. /\ Len(g.idx) = n + 1 /\ g.idx[n + 1] = e
      /\ \A i \in 1 .. n : g.idx[i] = f.idx[i]
  BY <1>1, <1>2, <1>3, AppendProperties
<1>5. \A i \in 1 .. n : f.idx[i].offset \in Nat
  <2>1. \A i \in 1 .. n : f.idx[i] \in Entry  BY <1>1, <1>2, ElementOfSeq
  <2>. QED  BY <2>1 DEF Entry
<1>6. e.offset \in Nat  BY DEF Entry
<1>7. \A i \in 1 .. n + 1 : i \in 1 .. n \/ i = n + 1  OBVIOUS
<1>8. Indexed(g)
  <2>. SUFFICES ASSUME NEW i \in 1 .. n + 1
                PROVE  /\ GoodEntry(g, i)
                       /\ \A j \in 1 .. i - 1 : g.idx[j].offset < g.idx[i].offset
    BY <1>4 DEF Indexed
  <2>1. CASE i = n + 1
    <3>1. GoodEntry(g, i)  BY <1>4, <2>1 DEF GoodEntry
    <3>2. \A j \in 1 .. i - 1 : j \in 1 .. n  BY <2>1
    <3>. QED  BY <1>2, <1>4, <2>1, <3>1, <3>2
  <2>2. CASE i \in 1 .. n
    <3>1. GoodEntry(f, i) /\ \A j \in 1 .. i - 1 : f.idx[j].offset < f.idx[i].offset
      BY <1>2, <2>2 DEF Indexed
    <3>2. GoodEntry(g, i)  BY <1>4, <2>2, <3>1 DEF GoodEntry
    <3>3. \A j \in 1 .. i - 1 : j \in 1 .. n  BY <2>2
    <3>. QED  BY <1>4, <2>2, <3>1, <3>2, <3>3
  <2>. QED  BY <1>7, <2>1, <2>2
<1>9. \A i \in 1 .. n + 1 : g.idx[i].offset <= e.offset
  BY <1>2, <1>4, <1>5, <1>6, <1>7
<1>. QED  BY <1>2, <1>4, <1>8, <1>9

\* The entry is due or not; either way the counters move past the record.
LEMMA IndexIndexRecord ==
    ASSUME TypeInv, IndexFiles, IndexRecord PROVE IndexFiles'
<1>. USE DEF IndexRecord
<1>. DEFINE seg == segs[active]
            idx == IF IndexDue(active)
                   THEN PutEntry(disk[active].idx, seg.cursor, NewEntry(active))
                   ELSE disk[active].idx
            newseg == IF IndexDue(active)
                      THEN [seg EXCEPT !.next = @ + 1, !.since = 1, !.entries = @ + 1,
                                       !.cursor = @ + 1, !.imapped = Len(idx)]
                      ELSE [seg EXCEPT !.next = @ + 1, !.since = @ + 1]
            e == NewEntry(active)
<1>1. /\ writer.base = active /\ status = "up" /\ writer.pos \in Nat
      /\ active \in DOMAIN segs /\ active \in DOMAIN disk /\ active \in Nat
      /\ seg \in Segment /\ disk[active] \in File /\ seg.next \in Nat
      /\ disk[active].log \in Seq(Cell) /\ Len(disk[active].log) \in Nat
  BY WriterFacts
<1>2. disk' = [disk EXCEPT ![active] = [disk[active] EXCEPT !.idx = idx]]  BY <1>1
<1>3. segs' = [segs EXCEPT ![active] = newseg]  BY <1>1
<1>4. UNCHANGED <<status, crashes, active>>  OBVIOUS
<1>5. /\ writer'.pc \in {"sync", "write"} /\ writer'.pos = writer.pos + 2
  BY DEF TypeInv, TypeOK
<1>6. e \in Entry /\ e.offset = seg.next /\ e.position = writer.pos
  BY <1>1 DEF NewEntry, Entry
<1>7. /\ writer.pos + 2 = Len(disk[active].log)
      /\ Decodes(disk[active].log, writer.pos)
      /\ disk[active].log[writer.pos + 1].offset = seg.next
  BY <1>1 DEF IndexFiles, EndKnown
<1>8. /\ disk[active].idx \in Seq(Entry) /\ Len(disk[active].idx) \in Nat
      /\ seg.entries \in Nat /\ seg.cursor \in Nat /\ seg.imapped \in Nat
  <2>1. disk[active].idx \in Seq(Entry)  BY <1>1 DEF File
  <2>. QED  BY <1>1, <2>1, LenProperties DEF Segment
<1>. HIDE DEF idx
<1>9. /\ newseg.next = seg.next + 1
      /\ IndexDue(active) => /\ newseg.entries = seg.entries + 1 /\ newseg.cursor = seg.cursor + 1
                             /\ newseg.imapped = Len(idx)
      /\ ~IndexDue(active) => /\ newseg.entries = seg.entries /\ newseg.cursor = seg.cursor
                              /\ newseg.imapped = seg.imapped
  BY <1>1 DEF Segment
<1>. HIDE DEF newseg
<1>10. /\ DOMAIN disk' = DOMAIN disk /\ DOMAIN segs' = DOMAIN segs
       /\ disk'[active].idx = idx /\ disk'[active].log = disk[active].log
       /\ segs'[active] = newseg
       /\ \A b \in DOMAIN disk : b # active => disk'[b] = disk[b]
       /\ \A b \in DOMAIN segs : b # active => segs'[b] = segs[b]
  BY <1>1, <1>2, <1>3 DEF File
<1>11. OpenIndex(active)  BY <1>1 DEF IndexFiles
<1>12. OpenIndex(active)'
  <2>1. CASE IndexDue(active)
    <3>1. newseg.cursor = seg.cursor + 1 /\ newseg.entries = seg.entries + 1 /\ newseg.imapped = Len(idx)
      BY <1>9, <2>1
    <3>2. crashes' = 0 => newseg.cursor = newseg.entries
      BY <1>4, <1>11, <3>1 DEF OpenIndex
    <3>3. ASSUME newseg.cursor \in {0, newseg.entries}
          PROVE  /\ Indexed(disk'[active]) /\ newseg.entries = Len(idx)
                 /\ \A i \in 1 .. Len(idx) : idx[i].offset < newseg.next
      <4>1. seg.cursor = seg.entries  BY <1>8, <3>1, <3>3
      <4>2. ~Reindexed(active)  BY <4>1 DEF Reindexed
      <4>3. /\ Indexed(disk[active]) /\ seg.entries = Len(disk[active].idx)
            /\ \A i \in 1 .. Len(disk[active].idx) : disk[active].idx[i].offset < e.offset
        BY <1>6, <1>11, <4>1, <4>2 DEF OpenIndex
      <4>4. idx = PutEntry(disk[active].idx, Len(disk[active].idx), e)
        BY <2>1, <4>1, <4>3 DEF idx
      <4>5. /\ Indexed(disk'[active]) /\ Len(disk'[active].idx) = Len(disk[active].idx) + 1
            /\ \A i \in 1 .. Len(disk'[active].idx) : disk'[active].idx[i].offset <= e.offset
        <5>. HIDE DEF e
        <5>1. /\ disk'[active].log = disk[active].log
              /\ disk'[active].idx = PutEntry(disk[active].idx, Len(disk[active].idx), e)
              /\ Decodes(disk[active].log, e.position)
              /\ disk[active].log[e.position + 1].offset = e.offset
          BY <1>6, <1>7, <1>10, <4>4
        <5>. QED  BY ONLY <1>1, <1>6, <4>3, <5>1, PutEntryIndexed
      <4>6. Len(idx) = newseg.entries  BY <1>10, <3>1, <4>3, <4>5
      <4>7. idx \in Seq(Entry)
        BY <1>6, <1>8, <4>4, PutEntryType
      <4>8. ASSUME NEW i \in 1 .. Len(idx) PROVE idx[i].offset < newseg.next
        <5>1. idx[i] \in Entry  BY <4>7, ElementOfSeq
        <5>2. idx[i].offset \in Nat  BY <5>1 DEF Entry
        <5>3. idx[i].offset <= seg.next  BY <1>6, <1>10, <4>5
        <5>. QED  BY <1>1, <1>9, <5>2, <5>3
      <4>. QED  BY <4>5, <4>6, <4>8
    <3>. QED  BY <1>4, <1>10, <3>1, <3>2, <3>3 DEF OpenIndex, Reindexed
  <2>2. CASE ~IndexDue(active)
    <3>1. idx = disk[active].idx  BY <2>2 DEF idx
    <3>2. Indexed(disk[active]) => Indexed(disk'[active])  BY <1>10, <3>1, IndexedSame
    <3>3. newseg.cursor = seg.cursor /\ newseg.entries = seg.entries /\ newseg.imapped = seg.imapped
      BY <1>9, <2>2
    <3>4. ASSUME NEW i \in 1 .. Len(idx), idx[i].offset < seg.next
          PROVE  idx[i].offset < newseg.next
      <4>1. idx[i] \in Entry  BY <1>8, <3>1, ElementOfSeq
      <4>2. idx[i].offset \in Nat  BY <4>1 DEF Entry
      <4>. QED  BY <1>1, <1>9, <3>4, <4>2
    <3>5. Reindexed(active)' <=> Reindexed(active)  BY <1>4, <1>10, <3>3 DEF Reindexed
    <3>6. ASSUME ~Reindexed(active)
          PROVE  /\ Indexed(disk'[active])
                 /\ newseg.entries = Len(idx) /\ newseg.imapped = Len(idx)
                 /\ newseg.cursor = newseg.entries =>
                       \A i \in 1 .. Len(idx) : idx[i].offset < newseg.next
      BY <1>11, <3>1, <3>2, <3>3, <3>4, <3>6 DEF OpenIndex
    <3>7. crashes = 0 => newseg.cursor = newseg.entries  BY <1>11, <3>3 DEF OpenIndex
    <3>. QED  BY <1>4, <1>10, <3>5, <3>6, <3>7 DEF OpenIndex
  <2>. QED  BY <2>1, <2>2
<1>13. ASSUME NEW b \in DOMAIN segs, b # active PROVE OpenIndex(b)'
  <2>1. OpenIndex(b) /\ segs'[b] = segs[b] /\ disk'[b] = disk[b]
    BY <1>10, <1>13 DEF IndexFiles, TypeInv, TypeOK
  <2>. QED  BY <1>4, <2>1 DEF OpenIndex, Reindexed
<1>14. EndKnown'
  BY <1>4, <1>5, <1>7, <1>10 DEF EndKnown
<1>15. \A b \in DOMAIN disk' \ DOMAIN segs' : disk'[b].idx = <<>>
  BY <1>1, <1>10 DEF IndexFiles
<1>. QED  BY <1>1, <1>4, <1>10, <1>12, <1>13, <1>14, <1>15 DEF IndexFiles

\* The first crash leaves good indexes: none was written over before it.
LEMMA IndexCrash ==
    ASSUME TypeInv, crashes = 0, IndexFiles, Crash PROVE IndexFiles'
<1>. USE DEF Crash
<1>1. segs' = <<>> /\ status' = "down" /\ crashes' = 1  BY DEF TypeInv, TypeOK
<1>2. DOMAIN segs' = {}  BY <1>1
<1>3. ASSUME NEW b \in DOMAIN disk PROVE Indexed(disk[b])
  <2>1. CASE b \in DOMAIN segs
    <3>1. OpenIndex(b)  BY <2>1 DEF IndexFiles
    <3>2. segs[b].cursor = segs[b].entries  BY <3>1 DEF OpenIndex
    <3>. QED  BY <3>1, <3>2 DEF OpenIndex, Reindexed
  <2>2. CASE b \notin DOMAIN segs
    BY <2>2, EmptyIndexed DEF IndexFiles
  <2>. QED  BY <2>1, <2>2
<1>4. DOMAIN disk' = DOMAIN disk /\ \A b \in DOMAIN disk : Indexed(disk'[b])
  <2>1. CASE UNCHANGED disk  BY <1>3, <2>1
  <2>2. CASE /\ writer.pc = "write"
             /\ disk' = [disk EXCEPT ![writer.base].log =
                  @ \o SubSeq(Encode(segs[writer.base].next, Head(writer.batch)), 1, 1)]
    <3>1. /\ writer.base = active /\ active \in DOMAIN disk
          /\ segs[active].next \in Nat /\ Head(writer.batch) \in Msgs
          /\ disk[active] \in File
      BY <2>2, WriterFacts
    <3>2. disk' = [disk EXCEPT ![active].log =
                  @ \o SubSeq(Encode(segs[active].next, Head(writer.batch)), 1, 1)]
      BY <2>2, <3>1
    <3>3. /\ DOMAIN disk' = DOMAIN disk
          /\ Extended(disk'[active].log, disk[active].log,
                      segs[active].next, Head(writer.batch), 1)
      <4>1. 1 \in 0 .. 2 /\ writer.pc = "write"  BY <2>2
      <4>. QED  BY ONLY TypeInv, <3>2, <4>1, TypeWrite
    <3>4. /\ disk'[active].idx = disk[active].idx
          /\ \A b \in DOMAIN disk : b # active => disk'[b] = disk[b]
      BY <3>1, <3>2 DEF File
    <3>5. Indexed(disk'[active])
      <4>1. 1 \in 0 .. 2 /\ Indexed(disk[active])  BY <1>3, <3>1
      <4>. QED  BY ONLY <3>1, <3>3, <3>4, <4>1, IndexedGrows
    <3>. QED  BY <1>3, <3>3, <3>4, <3>5
  <2>. QED  BY <2>1, <2>2
<1>. QED  BY <1>1, <1>2, <1>4 DEF IndexFiles

\* The indexes are opened as they are.
LEMMA IndexOpen ==
    ASSUME TypeInv, IndexFiles, Open PROVE IndexFiles'
<1>. USE DEF Open
<1>1. status # "up" /\ segs = <<>> /\ writer.pc = "idle" /\ DOMAIN segs = {}
  BY DEF TypeInv, TypeOK, Control
<1>2. /\ UNCHANGED <<disk, crashes, writer>> /\ crashes # 0
      /\ \A b \in DOMAIN disk : Indexed(disk[b])
  BY <1>1 DEF IndexFiles
<1>3. CASE \A b \in DOMAIN disk : disk[b].hasIdx
  <2>1. /\ segs' = [b \in DOMAIN disk |-> OpenSegment(disk[b], b)] /\ status' = "up"
        /\ active' = CHOOSE b \in DOMAIN disk : \A c \in DOMAIN disk : c <= b
    BY <1>3
  <2>2. active' \in DOMAIN disk
    <3>1. \E b \in DOMAIN disk : \A c \in DOMAIN disk : c <= b  BY DEF TypeInv, Control
    <3>. QED  BY <2>1, <3>1, Zenon
  <2>3. \A b \in DOMAIN disk :
            /\ segs'[b].size = Len(disk[b].log) /\ segs'[b].entries = Len(disk[b].idx)
            /\ segs'[b].imapped = Len(disk[b].idx) /\ segs'[b].cursor = 0
    BY <2>1 DEF OpenSegment
  <2>4. ASSUME NEW b \in DOMAIN disk PROVE OpenIndex(b)'
    <3>1. /\ segs'[b].entries = Len(disk'[b].idx) /\ segs'[b].imapped = Len(disk'[b].idx)
          /\ segs'[b].cursor = 0 /\ Indexed(disk'[b])
      BY <1>2, <2>3
    <3>2. segs'[b].cursor = segs'[b].entries =>
             \A i \in 1 .. Len(disk'[b].idx) : disk'[b].idx[i].offset < segs'[b].next
      BY <3>1
    <3>. QED  BY <1>2, <3>1, <3>2 DEF OpenIndex
  <2>5. EndKnown'  BY <1>1, <1>2, <2>2, <2>3 DEF EndKnown
  <2>6. DOMAIN segs' = DOMAIN disk  BY <2>1
  <2>. QED  BY <1>2, <2>1, <2>4, <2>5, <2>6 DEF IndexFiles
<1>4. CASE ~(\A b \in DOMAIN disk : disk[b].hasIdx)
  <2>1. status' = "failed" /\ UNCHANGED segs  BY <1>4
  <2>. QED  BY <1>1, <1>2, <2>1 DEF IndexFiles
<1>. QED  BY <1>3, <1>4

\* Without power losses every step keeps the index files and their counters.
LEMMA IndexStep ==
    ASSUME ~PowerLoss, TypeInv, TypeInv', OrderInv, IndexInv, [Next]_vars PROVE IndexInv'
<1>. SUFFICES ASSUME failures' = 0, crashes' <= 1 PROVE IndexFiles'  BY DEF IndexInv
<1>0. failures \in Nat /\ crashes \in Nat  BY DEF TypeInv, TypeOK
<1>a. ASSUME UNCHANGED <<failures, crashes>> PROVE IndexFiles
  BY <1>a DEF IndexInv
<1>b. ASSUME Fail PROVE FALSE
  BY <1>0, <1>b DEF Fail
<1>c. /\ DOMAIN segs \subseteq DOMAIN disk
      /\ status = "up" => active \in DOMAIN segs
  BY DEF TypeInv, TypeOK, Control
<1>1. ASSUME NEW batch \in Batches, BeginAppend(batch) PROVE IndexFiles'
  <2>. USE <1>1 DEF BeginAppend, CanAppend
  <2>1. IndexFiles  BY <1>a
  <2>2. EndKnown'
    <3>1. writer.pc = "idle" /\ status = "up"  OBVIOUS
    <3>2. segs[active].size = Len(disk[active].log)  BY <2>1, <3>1 DEF IndexFiles, EndKnown
    <3>3. writer'.pc = "write" /\ writer'.pos = segs[active].size  OBVIOUS
    <3>. QED  BY <3>2, <3>3 DEF EndKnown
  <2>. QED  BY <1>c, <2>1, <2>2, IndexQuiet
<1>2. ASSUME NEW batch \in Batches, RotateLog(batch) PROVE IndexFiles'
  <2>. USE <1>2 DEF RotateLog, CanAppend
  <2>1. IndexFiles  BY <1>a
  <2>2. /\ DOMAIN disk \subseteq DOMAIN disk'
        /\ \A b \in DOMAIN disk : disk'[b] = disk[b]
        /\ \A b \in DOMAIN disk' \ DOMAIN disk : disk'[b].idx = <<>>
    BY DEF EmptyFile
  <2>3. EndKnown'
    <3>1. writer.pc = "idle" /\ status = "up"  OBVIOUS
    <3>2. segs[active].size = Len(disk[active].log)  BY <2>1, <3>1 DEF IndexFiles, EndKnown
    <3>3. writer'.pc = "create_index" /\ writer'.pos = 0  OBVIOUS
    <3>4. disk'[active] = disk[active]  BY <1>c, <2>2, <3>1
    <3>. QED  BY <3>2, <3>3, <3>4 DEF EndKnown
  <2>. QED  BY <1>c, <2>1, <2>2, <2>3, IndexQuiet
<1>3. CASE CreateIndex
  <2>1. IndexFiles  BY <1>3, <1>a DEF CreateIndex
  <2>. QED  BY <1>3, <2>1, IndexCreateIndex
<1>4. CASE WriteRecord
  <2>1. IndexFiles  BY <1>4, <1>a DEF WriteRecord
  <2>. QED  BY <1>4, <2>1, IndexWriteRecord
<1>5. CASE IndexRecord
  <2>1. IndexFiles  BY <1>5, <1>a DEF IndexRecord
  <2>. QED  BY <1>5, <2>1, IndexIndexRecord
<1>6. CASE SyncLog
  <2>. USE <1>6 DEF SyncLog
  <2>1. IndexFiles  BY <1>a
  <2>2. /\ writer.base = active /\ status = "up" /\ active \in DOMAIN segs
        /\ active \in DOMAIN disk /\ segs[active] \in Segment /\ disk[active] \in File
    BY WriterFacts
  <2>3. /\ DOMAIN disk' = DOMAIN disk /\ DOMAIN segs' = DOMAIN segs
        /\ \A b \in DOMAIN disk : disk'[b].idx = disk[b].idx /\ disk'[b].log = disk[b].log
    BY <2>2 DEF File
  <2>4. /\ \A b \in DOMAIN segs :
              /\ segs'[b].entries = segs[b].entries /\ segs'[b].imapped = segs[b].imapped
              /\ segs'[b].cursor = segs[b].cursor /\ segs'[b].next = segs[b].next
        /\ segs'[active].size = writer.pos
    BY <2>2 DEF Segment
  <2>5. writer.pos = Len(disk[active].log)  BY <2>1, <2>2 DEF IndexFiles, EndKnown
  <2>6. EndKnown'
    BY <2>2, <2>3, <2>4, <2>5, IdleType DEF EndKnown
  <2>. QED  BY <1>c, <2>1, <2>3, <2>4, <2>6, IndexQuiet
<1>7. CASE CreateIndexFails  BY <1>7, <1>b DEF CreateIndexFails
<1>8. CASE WriteRecordFails  BY <1>8, <1>b DEF WriteRecordFails
<1>9. CASE IndexRecordFails  BY <1>9, <1>b DEF IndexRecordFails
<1>10. CASE SyncLogFails  BY <1>10, <1>b DEF SyncLogFails
<1>11. CASE Flush
  <2>. USE <1>11 DEF Flush
  <2>1. IndexFiles  BY <1>a
  <2>2. /\ DOMAIN disk' = DOMAIN disk
        /\ \A b \in DOMAIN disk : disk'[b].idx = disk[b].idx /\ disk'[b].log = disk[b].log
    BY FileFacts DEF File
  <2>3. EndKnown'
    BY <1>c, <2>1, <2>2 DEF IndexFiles, EndKnown
  <2>. QED  BY <1>c, <2>1, <2>2, <2>3, IndexQuiet
<1>12. CASE Crash
  <2>1. crashes = 0 /\ failures = 0  BY <1>0, <1>12 DEF Crash
  <2>2. IndexFiles  BY <2>1 DEF IndexInv
  <2>. QED  BY <1>12, <2>1, <2>2, IndexCrash
<1>13. CASE Open
  <2>1. IndexFiles  BY <1>13, <1>a DEF Open
  <2>. QED  BY <1>13, <2>1, IndexOpen
<1>14. ASSUME NEW b \in DOMAIN disk, LoseTail(b) PROVE IndexFiles'
  BY <1>14 DEF LoseTail
<1>15. CASE UNCHANGED vars
  <2>1. IndexFiles  BY <1>15, <1>a DEF vars
  <2>. QED
    BY <1>15, <2>1 DEF vars, IndexFiles, EndKnown, OpenIndex, Reindexed
<1>. QED
  BY <1>1, <1>2, <1>3, <1>4, <1>5, <1>6, <1>7, <1>8, <1>9, <1>10, <1>11, <1>12,
     <1>13, <1>14, <1>15 DEF Next

\* One call of the recursive search of OffsetIndex::lookup, with `s' for the
\* calls it makes.
SearchStep(s, b, target, range) ==
    LET left  == range[1]
        right == range[2]
        mid   == (left + right) \div 2
        later == s[<<mid + 1, right>>]
    IN  IF left >= right THEN Nothing
        ELSE IF mid >= segs[b].imapped THEN Panic
        ELSE IF disk[b].idx[mid + 1].offset > target THEN s[<<left, mid>>]
        ELSE IF later = Nothing THEN At(disk[b].idx[mid + 1].position)
        ELSE later

\* What the search of the entries after the first `left' and up to `right'
\* finds when the first k entries are the ones at or below the target.
Nearest(b, k, left, right) ==
    IF left >= right \/ k <= left THEN Nothing
    ELSE At(disk[b].idx[IF k <= right THEN k ELSE right].position)

\* The n entries of an index are all mapped, and the first k of them are the
\* ones at or below the target.
SplitAt(b, target, n, k) ==
    /\ segs[b].imapped = n
    /\ \A i \in 1 .. n :
          /\ disk[b].idx[i].offset \in Nat
          /\ disk[b].idx[i].offset <= target <=> i <= k

\* The searches of fewer entries than those from left to right give the nearest.
SolvedBelow(s, b, n, k, left, right) ==
    \A l, r \in 0 .. n :
        l <= r /\ r - l < right - left => s[<<l, r>>] = Nearest(b, k, l, r)

\* The offsets of a sorted index that are at or below a target come first.
LEMMA Pivot ==
    ASSUME NEW idx \in Seq(Entry), NEW target \in Nat,
           \A i \in 1 .. Len(idx) : \A j \in 1 .. i - 1 : idx[j].offset < idx[i].offset
    PROVE  \E k \in 0 .. Len(idx) : \A i \in 1 .. Len(idx) : idx[i].offset <= target <=> i <= k
<1>1. PICK n \in Nat : n = Len(idx)  BY LenProperties
<1>2. \A i \in 1 .. n : idx[i].offset \in Nat
  <2>1. \A i \in 1 .. n : idx[i] \in Entry  BY <1>1, ElementOfSeq
  <2>. QED  BY <2>1 DEF Entry
<1>. DEFINE S == {m \in Nat : m >= n \/ idx[m + 1].offset > target}
<1>3. PICK k \in S : \A m \in S : k <= m
  <2>1. n \in S /\ S \in SUBSET Nat  OBVIOUS
  <2>. HIDE DEF S
  <2>. QED  BY <2>1, LeastNatural
<1>4. k \in 0 .. n
  <2>1. n \in S  OBVIOUS
  <2>2. k <= n /\ k \in Nat  BY <1>3, <2>1
  <2>. QED  BY <2>2
<1>5. ASSUME NEW i \in 1 .. n, i <= k PROVE idx[i].offset <= target
  <2>1. i - 1 \in Nat /\ ~(i - 1 >= n) /\ i - 1 + 1 = i /\ ~(k <= i - 1)  BY <1>4, <1>5
  <2>2. ~(idx[i].offset > target)  BY <1>3, <2>1
  <2>. QED  BY <1>2, <2>2
<1>6. ASSUME NEW i \in 1 .. n, ~(i <= k) PROVE ~(idx[i].offset <= target)
  <2>1. k + 1 \in 1 .. n /\ ~(k >= n)  BY <1>4, <1>6
  <2>2. idx[k + 1].offset > target  BY <1>3, <2>1
  <2>3. CASE i = k + 1  BY <1>2, <2>1, <2>2, <2>3
  <2>4. CASE i # k + 1
    <3>1. k + 1 \in 1 .. i - 1  BY <1>4, <1>6, <2>4
    <3>2. idx[k + 1].offset < idx[i].offset  BY <1>1, <3>1
    <3>. QED  BY <1>2, <2>1, <2>2, <3>2
  <2>. QED  BY <2>3, <2>4
<1>. QED  BY <1>1, <1>4, <1>5, <1>6

\* One call gives the nearest entry if the calls it makes do.
LEMMA SearchStepNearest ==
    ASSUME NEW b, NEW target \in Nat, NEW n \in Nat, NEW k \in 0 .. n,
           SplitAt(b, target, n, k), NEW left \in 0 .. n, NEW right \in 0 .. n, NEW s,
           SolvedBelow(s, b, n, k, left, right)
    PROVE  SearchStep(s, b, target, <<left, right>>) = Nearest(b, k, left, right)
<1>. DEFINE mid == (left + right) \div 2
<1>1. SearchStep(s, b, target, <<left, right>>) =
        IF left >= right THEN Nothing
        ELSE IF mid >= n THEN Panic
        ELSE IF disk[b].idx[mid + 1].offset > target THEN s[<<left, mid>>]
        ELSE IF s[<<mid + 1, right>>] = Nothing THEN At(disk[b].idx[mid + 1].position)
        ELSE s[<<mid + 1, right>>]
  <2>1. segs[b].imapped = n  BY DEF SplitAt
  <2>2. <<left, right>>[1] = left /\ <<left, right>>[2] = right  OBVIOUS
  <2>. QED  BY <2>1, <2>2, Zenon DEF SearchStep
<1>2. CASE left >= right
  BY <1>1, <1>2 DEF Nearest
<1>3. CASE left < right
  <2>1. mid \in Nat /\ left <= mid /\ mid < right  BY <1>3
  <2>. HIDE DEF mid
  <2>2. /\ ~(mid >= n) /\ mid + 1 \in 1 .. n /\ mid \in 0 .. n /\ mid + 1 \in 0 .. n
        /\ mid - left < right - left /\ right - (mid + 1) < right - left /\ mid + 1 <= right
    BY <2>1
  <2>3. s[<<left, mid>>] = Nearest(b, k, left, mid)  BY <2>1, <2>2 DEF SolvedBelow
  <2>4. s[<<mid + 1, right>>] = Nearest(b, k, mid + 1, right)  BY <2>1, <2>2 DEF SolvedBelow
  <2>5. disk[b].idx[mid + 1].offset > target <=> ~(mid + 1 <= k)  BY <2>2 DEF SplitAt
  <2>6. CASE ~(mid + 1 <= k)
    <3>1. SearchStep(s, b, target, <<left, right>>) = Nearest(b, k, left, mid)
      BY <1>1, <1>3, <2>2, <2>3, <2>5, <2>6
    <3>2. k <= mid /\ k <= right  BY <2>1, <2>6
    <3>3. left >= mid => k <= left  BY <2>1, <3>2
    <3>4. ~(left >= right)  BY <1>3
    <3>. QED  BY <3>1, <3>2, <3>3, <3>4 DEF Nearest
  <2>7. CASE mid + 1 <= k
    <3>1. \A x : At(x) # Nothing
      <4>1. \A x : At(x).kind = "at"  BY DEF At
      <4>2. Nothing.kind = "none"  BY DEF Nothing
      <4>. QED  BY <4>1, <4>2
    <3>2. SearchStep(s, b, target, <<left, right>>) =
             IF Nearest(b, k, mid + 1, right) = Nothing THEN At(disk[b].idx[mid + 1].position)
             ELSE Nearest(b, k, mid + 1, right)
      BY <1>1, <1>3, <2>2, <2>4, <2>5, <2>7
    <3>3. Nearest(b, k, left, right) = At(disk[b].idx[IF k <= right THEN k ELSE right].position)
      <4>1. ~(left >= right) /\ ~(k <= left)  BY <1>3, <2>1, <2>7
      <4>. QED  BY <4>1 DEF Nearest
    <3>4. CASE mid + 1 >= right \/ k <= mid + 1
      <4>1. Nearest(b, k, mid + 1, right) = Nothing  BY <3>4 DEF Nearest
      <4>2. (IF k <= right THEN k ELSE right) = mid + 1  BY <2>1, <2>7, <3>4
      <4>. QED  BY <3>2, <3>3, <4>1, <4>2
    <3>5. CASE ~(mid + 1 >= right \/ k <= mid + 1)
      <4>1. Nearest(b, k, mid + 1, right) = At(disk[b].idx[IF k <= right THEN k ELSE right].position)
        BY <3>5 DEF Nearest
      <4>. QED  BY <3>1, <3>2, <3>3, <4>1
    <3>. QED  BY <3>4, <3>5
  <2>. QED  BY <2>6, <2>7
<1>. QED  BY <1>2, <1>3

\* OffsetIndex::lookup finds the last entry at or below the target.
LEMMA LookupNearest ==
    ASSUME NEW b, NEW target \in Nat, NEW n \in Nat, NEW k \in 0 .. n,
           segs[b].entries = n, SplitAt(b, target, n, k)
    PROVE  Lookup(b, target) = Nearest(b, k, 0, n)
<1>. DEFINE D == (0 .. segs[b].entries) \X (0 .. segs[b].entries)
            P(s) == s = [range \in D |-> SearchStep(s, b, target, range)]
<1>1. Lookup(b, target) = IF segs[b].entries = 0 \/ segs[b].imapped = 0 THEN Nothing
                          ELSE (CHOOSE s : P(s))[<<0, segs[b].entries>>]
  BY Zenon DEF Lookup, SearchStep
<1>a. segs[b].imapped = n  BY DEF SplitAt
<1>0. D = (0 .. n) \X (0 .. n)  OBVIOUS
<1>. HIDE DEF D
<1>b. PICK g : g = [range \in D |-> Nearest(b, k, range[1], range[2])]  OBVIOUS
<1>2. \A l, r \in 0 .. n : g[<<l, r>>] = Nearest(b, k, l, r)  BY <1>0, <1>b
<1>3. ASSUME NEW range \in D PROVE SearchStep(g, b, target, range) = Nearest(b, k, range[1], range[2])
  <2>1. PICK l \in 0 .. n : \E r \in 0 .. n : range = <<l, r>>  BY <1>0
  <2>2. PICK r \in 0 .. n : range = <<l, r>>  BY <2>1
  <2>3. SolvedBelow(g, b, n, k, l, r)  BY <1>2 DEF SolvedBelow
  <2>4. SearchStep(g, b, target, <<l, r>>) = Nearest(b, k, l, r)
    <3>. HIDE DEF P
    <3>1. /\ n \in Nat /\ k \in 0 .. n /\ l \in 0 .. n /\ r \in 0 .. n /\ target \in Nat
          /\ SplitAt(b, target, n, k)
      OBVIOUS
    <3>. QED  BY ONLY <2>3, <3>1, SearchStepNearest
  <2>5. range[1] = l /\ range[2] = r  BY <2>2
  <2>. QED  BY <2>2, <2>4, <2>5
<1>4. P(g)  BY <1>b, <1>3, Zenon
<1>5. PICK f : f = (CHOOSE s : P(s)) /\ P(f)
  <2>. HIDE DEF P
  <2>. QED  BY <1>4, Zenon
<1>6. \A l, r \in 0 .. n : f[<<l, r>>] = SearchStep(f, b, target, <<l, r>>)
  <2>1. \A l, r \in 0 .. n : <<l, r>> \in D  BY <1>0
  <2>. QED  BY <1>5, <2>1, Zenon
<1>. DEFINE S == {m \in Nat : \E l, r \in 0 .. n : l <= r /\ r - l = m /\ f[<<l, r>>] # Nearest(b, k, l, r)}
<1>7. S = {}
  <2>. SUFFICES ASSUME S # {} PROVE FALSE  OBVIOUS
  <2>1. PICK m \in S : \A x \in S : m <= x
    <3>1. S \in SUBSET Nat  OBVIOUS
    <3>. HIDE DEF S
    <3>. QED  BY <3>1, LeastNatural
  <2>2. PICK l \in 0 .. n : \E r \in 0 .. n : l <= r /\ r - l = m /\ f[<<l, r>>] # Nearest(b, k, l, r)
    BY <2>1
  <2>3. PICK r \in 0 .. n : l <= r /\ r - l = m /\ f[<<l, r>>] # Nearest(b, k, l, r)
    BY <2>2
  <2>4. ASSUME NEW x \in 0 .. n, NEW y \in 0 .. n, x <= y, y - x < r - l
        PROVE  f[<<x, y>>] = Nearest(b, k, x, y)
    <3>1. y - x \in Nat /\ ~(m <= y - x)  BY <2>1, <2>3, <2>4
    <3>2. y - x \notin S  BY <2>1, <3>1
    <3>. QED  BY <2>4, <3>1, <3>2
  <2>5. SolvedBelow(f, b, n, k, l, r)  BY <2>4 DEF SolvedBelow
  <2>6. SearchStep(f, b, target, <<l, r>>) = Nearest(b, k, l, r)
    <3>. HIDE DEF P, S
    <3>1. /\ n \in Nat /\ k \in 0 .. n /\ l \in 0 .. n /\ r \in 0 .. n /\ target \in Nat
          /\ SplitAt(b, target, n, k)
      OBVIOUS
    <3>. QED  BY ONLY <2>5, <3>1, SearchStepNearest
  <2>. QED  BY <1>6, <2>3, <2>6
<1>8. f[<<0, n>>] = Nearest(b, k, 0, n)
  <2>1. n - 0 \in Nat /\ 0 \in 0 .. n /\ n \in 0 .. n /\ 0 <= n  OBVIOUS
  <2>. QED  BY <1>7, <2>1
<1>9. n = 0 => Nearest(b, k, 0, n) = Nothing  BY DEF Nearest
<1>. QED  BY <1>1, <1>5, <1>8, <1>9, <1>a

\* In a sorted index the greatest offset of the first k entries is the last.
LEMMA NearestChosen ==
    ASSUME NEW idx \in Seq(Entry), NEW k \in 1 .. Len(idx),
           \A i \in 1 .. Len(idx) : \A j \in 1 .. i - 1 : idx[j].offset < idx[i].offset
    PROVE  (CHOOSE i \in 1 .. k : \A j \in 1 .. k : idx[j].offset <= idx[i].offset) = k
<1>1. Len(idx) \in Nat  BY LenProperties
<1>2. \A i \in 1 .. k : idx[i].offset \in Nat
  <2>1. \A i \in 1 .. k : i \in 1 .. Len(idx)  BY <1>1
  <2>2. \A i \in 1 .. k : idx[i] \in Entry  BY <2>1, ElementOfSeq
  <2>. QED  BY <2>2 DEF Entry
<1>3. \A j \in 1 .. k : idx[j].offset <= idx[k].offset
  <2>. TAKE j \in 1 .. k
  <2>1. CASE j = k  BY <1>2, <2>1
  <2>2. CASE j # k
    <3>1. j \in 1 .. k - 1 /\ k \in 1 .. Len(idx)  BY <1>1, <2>2
    <3>2. idx[j].offset < idx[k].offset  BY <3>1
    <3>. QED  BY <1>1, <1>2, <3>2
  <2>. QED  BY <2>1, <2>2
<1>4. ASSUME NEW i \in 1 .. k, \A j \in 1 .. k : idx[j].offset <= idx[i].offset PROVE i = k
  <2>. SUFFICES ASSUME i # k PROVE FALSE  OBVIOUS
  <2>1. i \in 1 .. k - 1 /\ k \in 1 .. k /\ k \in 1 .. Len(idx)  BY <1>1
  <2>2. idx[i].offset < idx[k].offset  BY <2>1
  <2>3. idx[k].offset <= idx[i].offset  BY <1>4, <2>1
  <2>. QED  BY <1>2, <2>1, <2>2, <2>3
<1>5. k \in 1 .. k  BY <1>1
<1>6. \A i \in 1 .. k : (\A j \in 1 .. k : idx[j].offset <= idx[i].offset) => i = k  BY <1>4
<1>. QED  BY <1>3, <1>5, <1>6, Zenon

\* The exhaustive search of a sorted index, in the same terms.
LEMMA NearestEntryIs ==
    ASSUME NEW idx \in Seq(Entry), NEW target \in Nat, NEW k \in 0 .. Len(idx),
           \A i \in 1 .. Len(idx) : \A j \in 1 .. i - 1 : idx[j].offset < idx[i].offset,
           \A i \in 1 .. Len(idx) : idx[i].offset <= target <=> i <= k
    PROVE  NearestEntry(idx, Len(idx), target) = IF k = 0 THEN Nothing ELSE At(idx[k].position)
<1>. DEFINE below == {i \in 1 .. Len(idx) : idx[i].offset <= target}
<1>1. Len(idx) \in Nat  BY LenProperties
<1>2. below = 1 .. k  BY <1>1
<1>3. NearestEntry(idx, Len(idx), target) =
        IF below = {} THEN Nothing
        ELSE At(idx[CHOOSE i \in below : \A j \in below : idx[j].offset <= idx[i].offset].position)
  BY Zenon DEF NearestEntry
<1>. HIDE DEF below
<1>4. CASE k = 0
  <2>1. below = {}  BY <1>2, <1>4
  <2>. QED  BY <1>3, <1>4, <2>1
<1>5. CASE k # 0
  <2>1. k \in 1 .. Len(idx) /\ k \in 1 .. k  BY <1>1, <1>5
  <2>2. below # {}  BY <1>2, <2>1
  <2>3. (CHOOSE i \in 1 .. k : \A j \in 1 .. k : idx[j].offset <= idx[i].offset) = k
    BY <2>1, NearestChosen
  <2>4. (CHOOSE i \in below : \A j \in below : idx[j].offset <= idx[i].offset) = k
    BY <1>2, <2>3, Zenon
  <2>. QED  BY <1>3, <1>5, <2>2, <2>4, Zenon
<1>. QED  BY <1>4, <1>5

\* What an open segment's search gives, when its index was not written over.
LEMMA LookupIs ==
    ASSUME TypeInv, IndexFiles, NEW b \in DOMAIN segs, ~Reindexed(b)
    PROVE  /\ segs[b].entries = Len(disk[b].idx) /\ disk[b].idx \in Seq(Entry)
           /\ \A i \in 1 .. Len(disk[b].idx) : GoodEntry(disk[b], i)
           /\ \A target \in Nat :
                 \E k \in 0 .. Len(disk[b].idx) :
                    /\ \A i \in 1 .. Len(disk[b].idx) : disk[b].idx[i].offset <= target <=> i <= k
                    /\ Lookup(b, target) = IF k = 0 THEN Nothing ELSE At(disk[b].idx[k].position)
                    /\ Lookup(b, target) = NearestEntry(disk[b].idx, segs[b].entries, target)
<1>1. OpenIndex(b)  BY DEF IndexFiles
<1>2. b \in Nat /\ disk[b] \in File  BY DEF TypeInv, TypeOK
<1>3. PICK idx \in Seq(Entry) : idx = disk[b].idx  BY <1>2 DEF File
<1>4. PICK n \in Nat : n = Len(idx)  BY <1>3, LenProperties
<1>5. segs[b].entries = n /\ segs[b].imapped = n /\ Indexed(disk[b])
  BY <1>1, <1>3, <1>4 DEF OpenIndex
<1>6. \A i \in 1 .. Len(idx) : GoodEntry(disk[b], i)
  BY <1>3, <1>5 DEF Indexed
<1>7. \A i \in 1 .. Len(idx) : \A j \in 1 .. i - 1 : idx[j].offset < idx[i].offset
  BY <1>3, <1>5 DEF Indexed
<1>8. \A i \in 1 .. n : idx[i].offset \in Nat
  <2>1. \A i \in 1 .. n : idx[i] \in Entry  BY <1>3, <1>4, ElementOfSeq
  <2>. QED  BY <2>1 DEF Entry
<1>9. ASSUME NEW target \in Nat
      PROVE  \E k \in 0 .. n :
                /\ \A i \in 1 .. n : idx[i].offset <= target <=> i <= k
                /\ Lookup(b, target) = IF k = 0 THEN Nothing ELSE At(idx[k].position)
                /\ Lookup(b, target) = NearestEntry(idx, n, target)
  <2>1. PICK k \in 0 .. Len(idx) : \A i \in 1 .. Len(idx) : idx[i].offset <= target <=> i <= k
    BY <1>3, <1>7, Pivot
  <2>2. k \in 0 .. n /\ \A i \in 1 .. n : idx[i].offset <= target <=> i <= k
    BY <1>4, <2>1
  <2>3. SplitAt(b, target, n, k)  BY <1>3, <1>5, <1>8, <2>2 DEF SplitAt
  <2>4. Lookup(b, target) = Nearest(b, k, 0, n)
    BY <1>4, <1>5, <2>2, <2>3, LookupNearest
  <2>5. Nearest(b, k, 0, n) = IF k = 0 THEN Nothing ELSE At(idx[k].position)
    <3>1. (0 >= n \/ k <= 0) <=> k = 0  BY <1>4, <2>2
    <3>2. k <= n  BY <1>4, <2>2
    <3>. QED  BY <1>3, <3>1, <3>2 DEF Nearest
  <2>6. NearestEntry(idx, n, target) = IF k = 0 THEN Nothing ELSE At(idx[k].position)
    BY ONLY <1>3, <1>4, <1>7, <2>1, target \in Nat, NearestEntryIs
  <2>. QED  BY <2>2, <2>4, <2>5, <2>6
<1>. QED  BY <1>3, <1>4, <1>5, <1>6, <1>9

\* As long as no I/O call failed and no index was written over after a restart,
\* every counted entry names its record and OffsetIndex::lookup finds the
\* nearest one, in every segment, before and after the first restart of the
\* broker, wherever it stopped.  A power loss can take the record of an entry.
THEOREM IndexStaysSound == ~PowerLoss => (Spec => []IndexSound)
<1>. SUFFICES ASSUME ~PowerLoss PROVE Spec => []IndexSound  OBVIOUS
<1>1. TypeInv /\ IndexInv => IndexSound
  <2>. SUFFICES ASSUME TypeInv, IndexInv, Serving, IndexKept, NEW b \in DOMAIN segs
                PROVE  /\ segs[b].entries <= Len(disk[b].idx)
                       /\ \A i \in 1 .. segs[b].entries : GoodEntry(disk[b], i)
                       /\ \A target \in b .. MaxOffset :
                             Lookup(b, target) = NearestEntry(disk[b].idx, segs[b].entries, target)
    BY DEF IndexSound, GoodEntry
  <2>1. IndexFiles /\ ~Reindexed(b)  BY DEF IndexInv, IndexKept
  <2>2. /\ segs[b].entries = Len(disk[b].idx) /\ disk[b].idx \in Seq(Entry)
        /\ \A i \in 1 .. Len(disk[b].idx) : GoodEntry(disk[b], i)
        /\ \A target \in Nat :
              Lookup(b, target) = NearestEntry(disk[b].idx, segs[b].entries, target)
    BY <2>1, LookupIs
  <2>3. Len(disk[b].idx) \in Nat  BY <2>2, LenProperties
  <2>4. \A target \in b .. MaxOffset : target \in Nat  BY DEF TypeInv, TypeOK
  <2>. QED  BY <2>2, <2>3, <2>4
<1>2. Init => IndexInv  BY IndexInit
<1>3. TypeInv /\ TypeInv' /\ OrderInv /\ IndexInv /\ [Next]_vars => IndexInv'  BY IndexStep
<1>. QED
  BY <1>1, <1>2, <1>3, TypeInvariance, OrderInit, OrderStep, PTL DEF Spec

-----------------------------------------------------------------------------
(***************************************************************************)
(* The files as one log.  While no I/O call fails, the broker never stops  *)
(* in the middle of a record and no power loss cuts a file, every file is  *)
(* a run of whole records with consecutive offsets, each file but the last *)
(* ends where the next one starts, and the open segments know them as they *)
(* are: LogInv is kept by every step.                                      *)
(***************************************************************************)

\* The number of records of a file of whole records.
Count(log) == Len(log) \div 2

\* The file of base offset b holds whole records only, one for each offset from
\* b on.
Neat(log, b) ==
    /\ Len(log) = 2 * Count(log)
    /\ \A i \in 0 .. Count(log) - 1 : Decodes(log, 2 * i) /\ log[2 * i + 1].offset = b + i

\* The offset after the last record of a file.
End(b) == b + Count(disk[b].log)

\* The files make up one log from offset 0 on: each one but the last is
\* followed by the file whose base is its end.
Chained ==
    /\ 0 \in DOMAIN disk
    /\ \A b \in DOMAIN disk : Neat(disk[b].log, b)
    /\ \A b \in DOMAIN disk :
          \/ \A c \in DOMAIN disk : c <= b
          \/ b < End(b) /\ End(b) \in DOMAIN disk
    /\ \A b, c \in DOMAIN disk : b < c => End(b) <= c

\* The open segments are the files, and know and map all of them but for what
\* the append in progress has written.
Listed ==
    /\ DOMAIN disk = IF writer.pc = "create_index" THEN DOMAIN segs \cup {writer.base}
                                                   ELSE DOMAIN segs
    /\ \A b \in DOMAIN segs : b # active \/ writer.pc \in {"idle", "create_index"} =>
          segs[b].next = End(b) /\ segs[b].mapped = Len(disk[b].log)
    /\ writer.pc \in {"write", "sync"} => segs[active].next = End(active)
    /\ writer.pc = "index" => segs[active].next + 1 = End(active)

\* What is kept while no I/O call fails.
LogInv == failures = 0 => Chained /\ (status = "up" => Listed)

\* A file of whole records has half as many records as cells.
LEMMA CountIs ==
    ASSUME NEW log, NEW k \in Nat, Len(log) = 2 * k PROVE Count(log) = k
<1>1. (2 * k) \div 2 = k  OBVIOUS
<1>. QED  BY <1>1 DEF Count

\* The types of the numbers involved.
LEMMA CountType ==
    ASSUME NEW log \in Seq(Cell) PROVE Len(log) \in Nat /\ Count(log) \in Nat
<1>1. Len(log) \in Nat  BY LenProperties
<1>. QED  BY <1>1 DEF Count

\* A new file is neat.
LEMMA NeatEmpty ==
    ASSUME NEW log, log = <<>>, NEW b PROVE Neat(log, b) /\ Count(log) = 0
<1>1. Len(log) = 2 * 0  BY EmptySeq
<1>2. Count(log) = 0  BY <1>1, CountIs
<1>. QED  BY <1>1, <1>2 DEF Neat

\* A whole record written at the end of a neat file, with the next offset,
\* keeps it neat.
LEMMA NeatGrows ==
    ASSUME NEW log \in Seq(Cell), NEW new, NEW b \in Nat, NEW m \in Msgs, Neat(log, b),
           NEW o, o = b + Count(log), Extended(new, log, o, m, 2)
    PROVE  /\ Neat(new, b) /\ Count(new) = Count(log) + 1
           /\ new[2 * Count(log) + 1].msg = m
           /\ \A i \in 1 .. Len(log) : new[i] = log[i]
<1>1. Count(log) \in Nat /\ Len(log) \in Nat /\ Len(log) = 2 * Count(log)
  BY CountType DEF Neat
<1>2. Len(new) = 2 * (Count(log) + 1) /\ \A i \in 1 .. Len(log) : new[i] = log[i]
  BY <1>1 DEF Extended
<1>3. Count(new) = Count(log) + 1
  <2>1. Count(log) + 1 \in Nat  BY <1>1
  <2>. QED  BY ONLY <1>2, <2>1, CountIs
<1>4. /\ Decodes(new, Len(log)) /\ new[Len(log) + 1].offset = b + Count(log)
      /\ new[Len(log) + 1].msg = m
  <2>1. o \in Nat /\ o = b + Count(log)  BY <1>1
  <2>. QED  BY <2>1, AppendWhole
<1>5. ASSUME NEW i \in 0 .. Count(new) - 1
      PROVE  Decodes(new, 2 * i) /\ new[2 * i + 1].offset = b + i
  <2>1. CASE i = Count(log)  BY <1>1, <1>4, <2>1
  <2>2. CASE i # Count(log)
    <3>1. i \in 0 .. Count(log) - 1  BY <1>1, <1>3, <2>2
    <3>2. Decodes(log, 2 * i) /\ log[2 * i + 1].offset = b + i /\ 2 * i \in Nat
      BY <3>1 DEF Neat
    <3>3. 2 \in 0 .. 2 /\ b + Count(log) \in Nat  BY <1>1
    <3>4. Decodes(new, 2 * i) /\ new[2 * i + 1] = log[2 * i + 1]
      BY ONLY <3>2, <3>3, log \in Seq(Cell), m \in Msgs,
              Extended(new, log, b + Count(log), m, 2), AppendDecodes
    <3>. QED  BY <3>2, <3>4
  <2>. QED  BY <2>1, <2>2
<1>. QED  BY <1>1, <1>2, <1>3, <1>4, <1>5 DEF Neat

\* Every record of a neat file can be decoded from any of its records on.
LEMMA NeatDecodable ==
    ASSUME NEW log \in Seq(Cell), NEW b \in Nat, Neat(log, b), NEW j \in 0 .. Count(log)
    PROVE  Decodable(log, 2 * j) = Count(log) - j
<1>1. Count(log) \in Nat /\ Len(log) \in Nat /\ Len(log) = 2 * Count(log)
  BY CountType DEF Neat
<1>2. PICK n : n = Decodable(log, 2 * j)  OBVIOUS
<1>3. /\ n \in 0 .. Len(log) /\ ~Decodes(log, 2 * j + 2 * n)
      /\ \A i \in 0 .. n - 1 : Decodes(log, 2 * j + 2 * i)
  <2>1. 2 * j \in Nat  BY <1>1
  <2>. QED  BY <1>2, <2>1, DecodableExists
<1>4. ~(n < Count(log) - j)
  <2>. SUFFICES ASSUME n < Count(log) - j PROVE FALSE  OBVIOUS
  <2>1. j + n \in 0 .. Count(log) - 1 /\ 2 * (j + n) = 2 * j + 2 * n  BY <1>1, <1>3
  <2>2. Decodes(log, 2 * (j + n))  BY <2>1 DEF Neat
  <2>. QED  BY <1>3, <2>1, <2>2
<1>5. ~(n > Count(log) - j)
  <2>. SUFFICES ASSUME n > Count(log) - j PROVE FALSE  OBVIOUS
  <2>1. n - 1 \in 0 .. n - 1 /\ 2 * j + 2 * (n - 1) >= Len(log)  BY <1>1, <1>3
  <2>2. Decodes(log, 2 * j + 2 * (n - 1))  BY <1>3, <2>1
  <2>. QED  BY <1>1, <1>3, <2>1, <2>2 DEF Decodes
<1>. QED  BY <1>1, <1>2, <1>3, <1>4, <1>5

\* scan_for_next_offset of a neat file gives its end.
LEMMA NeatScan ==
    ASSUME NEW log \in Seq(Cell), NEW b \in Nat, Neat(log, b)
    PROVE  ScanForNextOffset(log, b) = b + Count(log)
<1>1. Count(log) \in Nat /\ Len(log) \in Nat /\ Len(log) = 2 * Count(log)
  BY CountType DEF Neat
<1>2. Decodable(log, 0) = Count(log)
  <2>1. 0 \in 0 .. Count(log) /\ 2 * 0 = 0 /\ Count(log) - 0 = Count(log)  BY <1>1
  <2>. QED  BY <2>1, NeatDecodable
<1>3. CASE log = <<>>
  <2>1. Count(log) = 0  BY <1>3, NeatEmpty
  <2>. QED  BY <1>3, <2>1 DEF ScanForNextOffset
<1>4. CASE log # <<>>
  <2>1. Len(log) # 0  BY <1>4, EmptySeq
  <2>2. Count(log) - 1 \in 0 .. Count(log) - 1 /\ 2 * (Count(log) - 1) \in Nat
        /\ 2 * (Count(log) - 1) + 2 = 2 * Count(log)
    BY <1>1, <2>1
  <2>3. Decodes(log, 2 * (Count(log) - 1)) /\ log[2 * (Count(log) - 1) + 1].offset = b + (Count(log) - 1)
    BY <2>2 DEF Neat
  <2>4. log[2 * Count(log)].offset = b + (Count(log) - 1)
    BY <2>2, <2>3, DecodesInside
  <2>5. ScanForNextOffset(log, b) = log[2 * Count(log)].offset + 1
    BY <1>1, <1>2, <1>4, <2>1 DEF ScanForNextOffset
  <2>. QED  BY <1>1, <2>4, <2>5
<1>. QED  BY <1>3, <1>4

\* In a neat file records are decoded at even positions only.
LEMMA NeatAligned ==
    ASSUME NEW log \in Seq(Cell), NEW b \in Nat, Neat(log, b), NEW p \in Nat, Decodes(log, p)
    PROVE  \E j \in 0 .. Count(log) - 1 : p = 2 * j
<1>1. Count(log) \in Nat /\ Len(log) \in Nat /\ Len(log) = 2 * Count(log)
  BY CountType DEF Neat
<1>2. p + 2 <= Len(log) /\ log[p + 1].part = "head"  BY DEF Decodes
<1>3. PICK j \in Nat : p = 2 * j \/ p = 2 * j + 1
  <2>1. p \div 2 \in Nat /\ (p = 2 * (p \div 2) \/ p = 2 * (p \div 2) + 1)  OBVIOUS
  <2>. QED  BY <2>1
<1>4. CASE p = 2 * j + 1
  <2>1. j \in 0 .. Count(log) - 1 /\ 2 * j \in Nat /\ p + 1 = 2 * j + 2  BY <1>1, <1>2, <1>3, <1>4
  <2>2. Decodes(log, 2 * j)  BY <2>1 DEF Neat
  <2>3. log[2 * j + 1] \in Cell /\ log[2 * j + 2] = [log[2 * j + 1] EXCEPT !.part = "tail"]
    BY <2>1, <2>2, DecodesInside DEF Decodes
  <2>4. log[2 * j + 2].part = "tail"  BY <2>3 DEF Cell
  <2>. QED  BY <1>2, <2>1, <2>4
<1>5. CASE p = 2 * j
  <2>1. j \in 0 .. Count(log) - 1  BY <1>1, <1>2, <1>3, <1>5
  <2>. QED  BY <1>5, <2>1
<1>. QED  BY <1>3, <1>4, <1>5

\* One empty file.
LEMMA LogInit == Init => LogInv
<1>. SUFFICES ASSUME Init PROVE Chained /\ Listed  BY DEF LogInv
<1>. USE DEF Init
<1>1. DOMAIN disk = {0} /\ DOMAIN segs = {0} /\ disk[0].log = <<>>  BY DEF EmptyFile
<1>2. Neat(disk[0].log, 0) /\ Count(disk[0].log) = 0  BY <1>1, NeatEmpty
<1>3. End(0) = 0  BY ONLY <1>2 DEF End
<1>4. segs[0].next = 0 /\ segs[0].mapped = 0  BY DEF CreateSegment
<1>5. writer.pc = "idle" /\ active = 0  BY DEF Idle
<1>6. Len(disk[0].log) = 0  BY <1>1, EmptySeq
<1>7. Chained  BY <1>1, <1>2, <1>3 DEF Chained
<1>8. Listed
  <2>1. DOMAIN disk = DOMAIN segs  BY <1>1
  <2>2. \A b \in DOMAIN segs : segs[b].next = End(b) /\ segs[b].mapped = Len(disk[b].log)
    BY <1>1, <1>3, <1>4, <1>6
  <2>. QED  BY ONLY <1>5, <2>1, <2>2 DEF Listed
<1>. QED  BY <1>7, <1>8

\* The chain is about the log files only.
LEMMA ChainedSame == ASSUME Chained, SameLogs PROVE Chained'
<1>1. \A b \in DOMAIN disk : End(b)' = End(b)  BY DEF SameLogs, End
<1>. QED  BY <1>1 DEF Chained, SameLogs

\* Steps that write no record and move no counter of an open segment's.
LEMMA ListedSame ==
    ASSUME Listed, SameLogs, UNCHANGED <<segs, active>>, writer.pc # "create_index",
           writer'.pc \in {"write", "sync"} => writer.pc \in {"idle", "write", "sync"},
           writer'.pc = "idle" => writer.pc = "idle",
           writer'.pc \in {"idle", "write", "sync"}, active \in DOMAIN segs
    PROVE  Listed'
<1>1. \A b \in DOMAIN disk : End(b)' = End(b) /\ disk'[b].log = disk[b].log  BY DEF SameLogs, End
<1>2. DOMAIN disk = DOMAIN segs /\ DOMAIN disk' = DOMAIN disk  BY DEF Listed, SameLogs
<1>. QED  BY <1>1, <1>2 DEF Listed

\* A rotation adds the file at the end of the active one.
LEMMA LogRotate ==
    ASSUME TypeInv, OrderInv, Chained, Listed, NEW batch \in Batches, RotateLog(batch)
    PROVE  Chained' /\ Listed'
<1>. USE DEF RotateLog, CanAppend, ShouldRotate
<1>0. PICK base : base = segs[active].next  OBVIOUS
<1>. USE <1>0
<1>1. status = "up" /\ writer.pc = "idle" /\ segs[active].size >= MaxSize  OBVIOUS
<1>2. /\ active \in DOMAIN segs /\ active \in Nat /\ base \in Nat
      /\ DOMAIN disk \subseteq Nat /\ DOMAIN segs \subseteq DOMAIN disk
      /\ segs[active].size \in Nat /\ MaxSize \in Nat /\ MaxSize > 0
      /\ \A b \in DOMAIN disk : disk[b].log \in Seq(Cell)
  BY <1>1, OpenFacts
<1>3. base > active  BY <1>1, <1>2 DEF OrderInv, OpenOrder
<1>4. DOMAIN segs = DOMAIN disk  BY <1>1 DEF Listed
<1>5. \A b \in DOMAIN disk : b <= active /\ b \in Nat  BY <1>1, <1>2, <1>4 DEF OrderInv, OpenOrder
<1>6. base \notin DOMAIN disk  BY <1>2, <1>3, <1>5
<1>7. /\ DOMAIN disk' = DOMAIN disk \cup {base} /\ \A b \in DOMAIN disk : disk'[b] = disk[b]
      /\ disk'[base].log = <<>> /\ UNCHANGED <<segs, active>>
      /\ writer'.pc = "create_index" /\ writer'.base = base
  BY <1>6 DEF EmptyFile
<1>8. Neat(disk'[base].log, base) /\ Count(disk'[base].log) = 0
  BY <1>7, NeatEmpty
<1>9. /\ \A b \in DOMAIN disk : End(b)' = End(b)
      /\ End(base)' = base
  <2>1. \A b \in DOMAIN disk : End(b)' = End(b)  BY ONLY <1>7 DEF End
  <2>2. base \in Nat  BY <1>2
  <2>3. End(base)' = base  BY ONLY <1>8, <2>2 DEF End
  <2>. QED  BY <2>1, <2>3
<1>10. End(active) = base  BY <1>1, <1>2 DEF Listed
<1>11. \A b \in DOMAIN disk : End(b) \in Nat
  <2>1. \A b \in DOMAIN disk : b \in Nat /\ Count(disk[b].log) \in Nat  BY <1>2, CountType
  <2>. QED  BY ONLY <2>1 DEF End
<1>12. \A b \in DOMAIN disk : End(b) <= base
  <2>. TAKE b \in DOMAIN disk
  <2>1. CASE b = active  BY <1>2, <1>10, <2>1
  <2>2. CASE b # active
    <3>1. b < active  BY <1>2, <1>5, <2>2
    <3>2. End(b) <= active  BY <1>2, <3>1 DEF Chained
    <3>. QED  BY <1>2, <1>3, <1>11, <3>2
  <2>. QED  BY <2>1, <2>2
<1>13. Chained'
  <2>1. 0 \in DOMAIN disk'  BY <1>7 DEF Chained
  <2>2. \A b \in DOMAIN disk' : Neat(disk'[b].log, b)  BY <1>7, <1>8 DEF Chained
  <2>3. ASSUME NEW b \in DOMAIN disk'
        PROVE  \/ \A c \in DOMAIN disk' : c <= b
               \/ b < End(b)' /\ End(b)' \in DOMAIN disk'
    <3>1. CASE b = base
      <4>1. \A c \in DOMAIN disk' : c <= base  BY <1>2, <1>3, <1>5, <1>7
      <4>. QED  BY <3>1, <4>1
    <3>2. CASE b = active
      BY <1>2, <1>3, <1>7, <1>9, <1>10, <3>2
    <3>3. CASE b # base /\ b # active
      <4>1. b \in DOMAIN disk /\ ~(\A c \in DOMAIN disk : c <= b)
        BY <1>2, <1>5, <1>7, <3>3
      <4>. QED  BY <1>7, <1>9, <4>1 DEF Chained
    <3>. QED  BY <3>1, <3>2, <3>3
  <2>4. ASSUME NEW b \in DOMAIN disk', NEW c \in DOMAIN disk', b < c PROVE End(b)' <= c
    <3>1. CASE b = base
      BY <1>2, <1>3, <1>5, <1>7, <2>4, <3>1
    <3>2. CASE b # base /\ c = base  BY <1>7, <1>9, <1>12, <3>2
    <3>3. CASE b # base /\ c # base  BY <1>7, <1>9, <2>4, <3>3 DEF Chained
    <3>. QED  BY <3>1, <3>2, <3>3
  <2>. QED  BY <2>1, <2>2, <2>3, <2>4 DEF Chained
<1>14. Listed'
  <2>1. DOMAIN disk' = DOMAIN segs' \cup {writer'.base}  BY <1>4, <1>7
  <2>2. \A b \in DOMAIN segs : segs[b].next = End(b) /\ segs[b].mapped = Len(disk[b].log)
    BY <1>1 DEF Listed
  <2>3. \A b \in DOMAIN segs : End(b)' = End(b) /\ disk'[b] = disk[b]  BY <1>4, <1>7, <1>9
  <2>. QED  BY ONLY <1>7, <2>1, <2>2, <2>3 DEF Listed
<1>. QED  BY <1>13, <1>14

\* The new file is listed, empty.
LEMMA LogCreateIndex ==
    ASSUME TypeInv, OrderInv, Chained, Listed, CreateIndex
    PROVE  Chained' /\ Listed'
<1>. USE DEF CreateIndex
<1>0. PICK base : base = writer.base  OBVIOUS
<1>. USE <1>0
<1>1. status = "up" /\ base = segs[active].next /\ base \in DOMAIN disk /\ segs[active].size >= MaxSize
  BY DEF TypeInv, TypeOK, Control
<1>2. /\ active \in DOMAIN segs /\ active \in Nat /\ base \in Nat
      /\ DOMAIN disk \subseteq Nat /\ DOMAIN segs \subseteq DOMAIN disk
      /\ disk[base] \in File
      /\ segs[active].size \in Nat /\ MaxSize \in Nat /\ MaxSize > 0
  BY <1>1, OpenFacts
<1>3. base > active  BY <1>1, <1>2 DEF OrderInv, OpenOrder
<1>4. \A b \in DOMAIN segs : b <= active /\ b \in Nat  BY <1>1, <1>2 DEF OrderInv, OpenOrder
<1>5. base \notin DOMAIN segs  BY <1>2, <1>3, <1>4
<1>6. disk[base].log = <<>>  BY <1>1, <1>5 DEF OrderInv, OpenOrder
<1>7. /\ SameLogs /\ active' = base /\ DOMAIN disk' = DOMAIN disk
      /\ \A b \in DOMAIN disk : disk'[b].log = disk[b].log
      /\ DOMAIN segs' = DOMAIN segs \cup {base}
      /\ \A b \in DOMAIN segs : segs'[b] = segs[b]
      /\ segs'[base] = CreateSegment(base)
  <2>1. \A b \in DOMAIN disk : disk'[b].log = disk[b].log
    BY <1>1, <1>2 DEF File
  <2>. QED  BY <1>5, <2>1 DEF SameLogs
<1>8. Chained'  BY <1>7, ChainedSame
<1>9. End(base)' = base
  <2>1. Count(disk'[base].log) = 0  BY <1>1, <1>6, <1>7, NeatEmpty
  <2>. QED  BY <1>2, <2>1 DEF End
<1>10. segs'[base].next = base  BY <1>7 DEF CreateSegment
<1>11. writer'.pc = "write"  BY DEF TypeInv, TypeOK
<1>12. DOMAIN disk' = DOMAIN segs'  BY <1>7 DEF Listed
<1>13. ASSUME NEW b \in DOMAIN segs', b # base
       PROVE  segs'[b].next = End(b)' /\ segs'[b].mapped = Len(disk'[b].log)
  <2>1. b \in DOMAIN segs /\ b \in DOMAIN disk  BY <1>2, <1>7, <1>13
  <2>2. segs[b].next = End(b) /\ segs[b].mapped = Len(disk[b].log)  BY <2>1 DEF Listed
  <2>3. End(b)' = End(b)  BY <1>7, <2>1 DEF End
  <2>. QED  BY <1>7, <2>1, <2>2, <2>3
<1>14. Listed'
  BY <1>7, <1>9, <1>10, <1>11, <1>12, <1>13 DEF Listed
<1>. QED  BY <1>8, <1>14

\* A record is written at the end of the last file.
LEMMA LogWriteRecord ==
    ASSUME TypeInv, OrderInv, Chained, Listed, WriteRecord
    PROVE  Chained' /\ Listed'
<1>1. /\ writer.base = active /\ status = "up" /\ active \in DOMAIN disk /\ active \in DOMAIN segs
      /\ segs[active].next \in Nat /\ Head(writer.batch) \in Msgs /\ active \in Nat
      /\ disk[active] \in File /\ disk[active].log \in Seq(Cell) /\ Len(disk[active].log) \in Nat
      /\ writer.pc = "write"
  BY WriterFacts DEF WriteRecord
<1>2. disk' = [disk EXCEPT ![active].log =
                  @ \o SubSeq(Encode(segs[active].next, Head(writer.batch)), 1, 2)]
  BY <1>1, WholeRecord DEF WriteRecord
<1>3. /\ DOMAIN disk' = DOMAIN disk
      /\ Extended(disk'[active].log, disk[active].log,
                  segs[active].next, Head(writer.batch), 2)
  <2>1. 2 \in 0 .. 2 /\ writer.pc = "write"  BY <1>1
  <2>. QED  BY ONLY TypeInv, <1>2, <2>1, TypeWrite
<1>4. \A b \in DOMAIN disk : b # active => disk'[b] = disk[b]
  BY <1>1, <1>2
<1>5. UNCHANGED <<segs, active>> /\ writer'.pc = "index"  BY DEF WriteRecord, TypeInv, TypeOK
<1>6. DOMAIN segs = DOMAIN disk /\ segs[active].next = active + Count(disk[active].log)
  BY <1>1 DEF Listed, End
<1>7. \A b \in DOMAIN disk : b <= active /\ b \in Nat
  BY <1>1, <1>6, OpenFacts DEF OrderInv, OpenOrder
<1>8. Neat(disk[active].log, active)  BY <1>1 DEF Chained
<1>9. /\ Neat(disk'[active].log, active)
      /\ Count(disk'[active].log) = Count(disk[active].log) + 1
  <2>1. PICK log : log = disk[active].log  OBVIOUS
  <2>2. PICK new : new = disk'[active].log  OBVIOUS
  <2>3. PICK b, m, o : b = active /\ m = Head(writer.batch) /\ o = segs[active].next
    OBVIOUS
  <2>4. /\ log \in Seq(Cell) /\ b \in Nat /\ m \in Msgs /\ Neat(log, b)
        /\ o = b + Count(log) /\ Extended(new, log, o, m, 2)
    BY ONLY <1>1, <1>3, <1>6, <1>8, <2>1, <2>2, <2>3
  <2>5. Neat(new, b) /\ Count(new) = Count(log) + 1  BY ONLY <2>4, NeatGrows
  <2>. QED  BY ONLY <2>1, <2>2, <2>3, <2>5
<1>10. Count(disk[active].log) \in Nat  BY <1>1, CountType
<1>11. End(active)' = segs[active].next + 1
  <2>1. active' = active  BY <1>5
  <2>2. End(active)' = active + Count(disk'[active].log)  BY ONLY <2>1 DEF End
  <2>. QED  BY ONLY <1>1, <1>6, <1>9, <1>10, <2>2
<1>12. \A b \in DOMAIN disk : b # active => End(b)' = End(b)
  BY <1>4 DEF End
<1>13. Chained'
  <2>1. 0 \in DOMAIN disk'  BY <1>3 DEF Chained
  <2>2. \A b \in DOMAIN disk' : Neat(disk'[b].log, b)  BY <1>3, <1>4, <1>9 DEF Chained
  <2>3. ASSUME NEW b \in DOMAIN disk'
        PROVE  \/ \A c \in DOMAIN disk' : c <= b
               \/ b < End(b)' /\ End(b)' \in DOMAIN disk'
    BY <1>3, <1>7, <1>12 DEF Chained
  <2>4. ASSUME NEW b \in DOMAIN disk', NEW c \in DOMAIN disk', b < c PROVE End(b)' <= c
    <3>1. b # active  BY <1>1, <1>3, <1>7, <2>4
    <3>. QED  BY <1>3, <1>12, <2>4, <3>1 DEF Chained
  <2>. QED  BY <2>1, <2>2, <2>3, <2>4 DEF Chained
<1>14. Listed'
  <2>1. DOMAIN disk' = DOMAIN segs'  BY <1>3, <1>5, <1>6
  <2>2. \A b \in DOMAIN segs : b # active => segs[b].next = End(b) /\ segs[b].mapped = Len(disk[b].log)
    BY DEF Listed
  <2>3. \A b \in DOMAIN segs : b # active => End(b)' = End(b) /\ disk'[b] = disk[b]
    BY <1>4, <1>6, <1>12
  <2>. QED  BY <1>5, <1>11, <2>1, <2>2, <2>3 DEF Listed
<1>. QED  BY <1>13, <1>14

\* next_offset moves past the record.
LEMMA LogIndexRecord ==
    ASSUME TypeInv, Chained, Listed, IndexRecord
    PROVE  Chained' /\ Listed'
<1>. USE DEF IndexRecord
<1>1. /\ writer.base = active /\ status = "up" /\ active \in DOMAIN disk /\ active \in DOMAIN segs
      /\ segs[active].next \in Nat /\ disk[active] \in File /\ segs[active] \in Segment
  BY WriterFacts
<1>2. /\ DOMAIN disk' = DOMAIN disk /\ DOMAIN segs' = DOMAIN segs
      /\ \A b \in DOMAIN disk : disk'[b].log = disk[b].log
      /\ \A b \in DOMAIN segs : b # active => segs'[b] = segs[b]
      /\ UNCHANGED active
  BY <1>1 DEF File
<1>3. segs'[active].next = segs[active].next + 1  BY <1>1 DEF Segment
<1>4. writer'.pc \in {"write", "sync"}  BY DEF TypeInv, TypeOK
<1>5. SameLogs  BY <1>2 DEF SameLogs
<1>6. \A b \in DOMAIN disk : End(b)' = End(b)  BY <1>2 DEF End
<1>7. Chained'  BY <1>5, ChainedSame
<1>8. DOMAIN disk = DOMAIN segs /\ segs[active].next + 1 = End(active)
      /\ \A b \in DOMAIN segs : b # active => segs[b].next = End(b) /\ segs[b].mapped = Len(disk[b].log)
  BY DEF Listed
<1>9. Listed'
  BY ONLY <1>1, <1>2, <1>3, <1>4, <1>6, <1>8 DEF Listed
<1>. QED  BY <1>7, <1>9

\* The whole file is mapped again.
LEMMA LogSyncLog ==
    ASSUME TypeInv, Chained, Listed, SyncLog
    PROVE  Chained' /\ Listed'
<1>. USE DEF SyncLog
<1>1. /\ writer.base = active /\ status = "up" /\ active \in DOMAIN disk /\ active \in DOMAIN segs
      /\ segs[active].next \in Nat /\ disk[active] \in File /\ segs[active] \in Segment
  BY WriterFacts
<1>2. /\ DOMAIN disk' = DOMAIN disk /\ DOMAIN segs' = DOMAIN segs
      /\ \A b \in DOMAIN disk : disk'[b].log = disk[b].log
      /\ \A b \in DOMAIN segs : b # active => segs'[b] = segs[b]
      /\ UNCHANGED active
  BY <1>1 DEF File
<1>3. segs'[active].next = segs[active].next /\ segs'[active].mapped = Len(disk[active].log)
  BY <1>1 DEF Segment
<1>4. writer'.pc = "idle"  BY IdleType
<1>5. SameLogs  BY <1>2 DEF SameLogs
<1>6. \A b \in DOMAIN disk : End(b)' = End(b)  BY <1>2 DEF End
<1>7. Chained'  BY <1>5, ChainedSame
<1>8. DOMAIN disk = DOMAIN segs /\ segs[active].next = End(active)
      /\ \A b \in DOMAIN segs : b # active => segs[b].next = End(b) /\ segs[b].mapped = Len(disk[b].log)
  BY DEF Listed
<1>9. \A b \in DOMAIN segs' : segs'[b].next = End(b)' /\ segs'[b].mapped = Len(disk'[b].log)
  BY ONLY <1>1, <1>2, <1>3, <1>6, <1>8
<1>10. Listed'
  BY ONLY <1>2, <1>4, <1>8, <1>9 DEF Listed
<1>. QED  BY <1>7, <1>10

\* The files are scanned and mapped whole.
LEMMA LogOpen ==
    ASSUME TypeInv, Chained, Open
    PROVE  Chained' /\ (status' = "up" => Listed')
<1>. USE DEF Open
<1>1. SameLogs /\ disk' = disk /\ writer' = writer /\ writer.pc = "idle"
  BY DEF SameLogs, TypeInv, TypeOK, Control
<1>2. Chained'  BY <1>1, ChainedSame
<1>3. ASSUME status' = "up" PROVE Listed'
  <2>1. segs' = [b \in DOMAIN disk |-> OpenSegment(disk[b], b)]  BY <1>3
  <2>2. \A b \in DOMAIN disk :
            /\ segs'[b].mapped = Len(disk[b].log)
            /\ segs'[b].next = ScanForNextOffset(disk[b].log, b)
    BY <2>1 DEF OpenSegment
  <2>3. \A b \in DOMAIN disk : b \in Nat /\ disk[b].log \in Seq(Cell) /\ Neat(disk[b].log, b)
    BY FileFacts DEF Chained, TypeInv, TypeOK
  <2>4. \A b \in DOMAIN disk : ScanForNextOffset(disk[b].log, b) = End(b)
    BY <2>3, NeatScan DEF End
  <2>5. \A b \in DOMAIN disk : End(b)' = End(b)  BY <1>1 DEF End
  <2>6. DOMAIN segs' = DOMAIN disk'  BY <1>1, <2>1
  <2>7. \A b \in DOMAIN segs' : segs'[b].next = End(b)' /\ segs'[b].mapped = Len(disk'[b].log)
    BY <1>1, <2>2, <2>4, <2>5, <2>6
  <2>. QED  BY ONLY <1>1, <2>6, <2>7 DEF Listed
<1>. QED  BY <1>2, <1>3

\* Unless a call fails, the machine loses power or the broker stops in the
\* middle of a write, the files and the open segments make up one log.
LEMMA LogStep ==
    ASSUME ~PowerLoss, "write" \notin CrashPoints,
           TypeInv, OrderInv, LogInv, [Next]_vars
    PROVE  LogInv'
<1>. SUFFICES ASSUME failures' = 0 PROVE Chained' /\ (status' = "up" => Listed')
  BY DEF LogInv
<1>a. ASSUME failures' = failures PROVE Chained /\ (status = "up" => Listed)
  BY <1>a DEF LogInv
<1>b. ASSUME Fail PROVE FALSE
  BY <1>b DEF Fail, TypeInv, TypeOK
<1>c. status = "up" => active \in DOMAIN segs
  BY DEF TypeInv, TypeOK, Control
<1>1. ASSUME NEW batch \in Batches, BeginAppend(batch) PROVE Chained' /\ (status' = "up" => Listed')
  <2>1. /\ SameLogs /\ UNCHANGED <<segs, active, status>> /\ writer.pc = "idle" /\ status = "up"
        /\ writer'.pc = "write"
    BY <1>1 DEF BeginAppend, CanAppend, SameLogs
  <2>2. Chained /\ Listed  BY <1>1, <1>a, <2>1 DEF BeginAppend
  <2>. QED  BY <1>c, <2>1, <2>2, ChainedSame, ListedSame
<1>2. ASSUME NEW batch \in Batches, RotateLog(batch) PROVE Chained' /\ (status' = "up" => Listed')
  <2>1. Chained /\ Listed  BY <1>2, <1>a DEF RotateLog, CanAppend
  <2>. QED  BY <1>2, <2>1, LogRotate
<1>3. CASE CreateIndex
  <2>1. status = "up"  BY <1>3 DEF CreateIndex, TypeInv, TypeOK, Control
  <2>2. Chained /\ Listed  BY <1>3, <1>a, <2>1 DEF CreateIndex
  <2>. QED  BY <1>3, <2>2, LogCreateIndex
<1>4. CASE WriteRecord
  <2>1. status = "up"  BY <1>4, WriterFacts DEF WriteRecord
  <2>2. Chained /\ Listed  BY <1>4, <1>a, <2>1 DEF WriteRecord
  <2>. QED  BY <1>4, <2>2, LogWriteRecord
<1>5. CASE IndexRecord
  <2>1. status = "up"  BY <1>5, WriterFacts DEF IndexRecord
  <2>2. Chained /\ Listed  BY <1>5, <1>a, <2>1 DEF IndexRecord
  <2>. QED  BY <1>5, <2>2, LogIndexRecord
<1>6. CASE SyncLog
  <2>1. status = "up"  BY <1>6, WriterFacts DEF SyncLog
  <2>2. Chained /\ Listed  BY <1>6, <1>a, <2>1 DEF SyncLog
  <2>. QED  BY <1>6, <2>2, LogSyncLog
<1>7. CASE CreateIndexFails  BY <1>7, <1>b DEF CreateIndexFails
<1>8. CASE WriteRecordFails  BY <1>8, <1>b DEF WriteRecordFails
<1>9. CASE IndexRecordFails  BY <1>9, <1>b DEF IndexRecordFails
<1>10. CASE SyncLogFails  BY <1>10, <1>b DEF SyncLogFails
<1>11. CASE Flush
  <2>1. DOMAIN disk' = DOMAIN disk /\ \A b \in DOMAIN disk : disk'[b].log = disk[b].log
    BY <1>11, FileFacts DEF Flush, File
  <2>2. /\ SameLogs /\ UNCHANGED <<segs, active, status>> /\ writer.pc = "idle" /\ status = "up"
        /\ writer'.pc = "idle"
    BY <1>11, <2>1 DEF Flush, SameLogs
  <2>3. Chained /\ Listed  BY <1>11, <1>a, <2>2 DEF Flush
  <2>. QED  BY <1>c, <2>2, <2>3, ChainedSame, ListedSame
<1>12. CASE Crash
  <2>1. status' = "down" /\ disk' = disk /\ failures' = failures  BY <1>12 DEF Crash
  <2>2. Chained'  BY <1>a, <2>1, ChainedSame DEF SameLogs
  <2>. QED  BY <2>1, <2>2
<1>13. CASE Open
  <2>1. Chained  BY <1>13, <1>a DEF Open
  <2>. QED  BY <1>13, <2>1, LogOpen
<1>14. ASSUME NEW b \in DOMAIN disk, LoseTail(b) PROVE Chained' /\ (status' = "up" => Listed')
  BY <1>14 DEF LoseTail
<1>15. CASE UNCHANGED vars
  <2>1. SameLogs /\ UNCHANGED <<disk, segs, active, status, writer>> /\ failures' = failures
    BY <1>15 DEF vars, SameLogs
  <2>2. Chained'  BY <1>a, <2>1, ChainedSame
  <2>3. Listed => Listed'  BY <2>1 DEF Listed, End
  <2>. QED  BY <1>a, <2>1, <2>2, <2>3
<1>. QED
  BY <1>1, <1>2, <1>3, <1>4, <1>5, <1>6, <1>7, <1>8, <1>9, <1>10, <1>11, <1>12,
     <1>13, <1>14, <1>15 DEF Next

-----------------------------------------------------------------------------
(***************************************************************************)
(* What a fetch answers.  The loop of read_batch keeps a slice of the      *)
(* records it decodes, from whatever entry of the index it starts; the     *)
(* loop of fetch joins the slices of successive segments.  Both loops are  *)
(* recursive functions: that each has the values claimed for it is shown   *)
(* with the least argument that is a counterexample.                       *)
(***************************************************************************)

\* The m records after the first d.
Slice(recs, d, m) == [x \in 1 .. m |-> recs[d + x]]

\* The type and the elements of a slice.
LEMMA SliceSeq ==
    ASSUME NEW recs \in Seq(Record), NEW d \in Nat, NEW m \in Nat, d + m <= Len(recs)
    PROVE  /\ Slice(recs, d, m) \in Seq(Record) /\ Len(Slice(recs, d, m)) = m
           /\ \A x \in 1 .. m : Slice(recs, d, m)[x] = recs[d + x] /\ recs[d + x] \in Record
<1>1. Len(recs) \in Nat  BY LenProperties
<1>2. \A x \in 1 .. m : d + x \in 1 .. Len(recs)  BY <1>1
<1>3. \A x \in 1 .. m : recs[d + x] \in Record  BY <1>2, ElementOfSeq
<1>4. Slice(recs, d, m) \in [1 .. m -> Record]  BY <1>3 DEF Slice
<1>5. Slice(recs, d, m) \in Seq(Record)  BY <1>4, IsASeq
<1>6. DOMAIN Slice(recs, d, m) = 1 .. m  BY DEF Slice
<1>7. Len(Slice(recs, d, m)) = m  BY <1>5, <1>6, LenProperties
<1>8. \A x \in 1 .. m : Slice(recs, d, m)[x] = recs[d + x]  BY DEF Slice
<1>. QED  BY <1>3, <1>5, <1>7, <1>8

\* A slice and the record after it make up the slice that is one longer.
LEMMA SliceAppend ==
    ASSUME NEW recs \in Seq(Record), NEW d \in Nat, NEW m \in Nat, d + m + 1 <= Len(recs)
    PROVE  Append(Slice(recs, d, m), recs[d + (m + 1)]) = Slice(recs, d, m + 1)
<1>1. Len(recs) \in Nat  BY LenProperties
<1>2. m + 1 \in Nat /\ d + (m + 1) <= Len(recs) /\ d + m <= Len(recs)  BY <1>1
<1>3. d + (m + 1) \in 1 .. Len(recs)  BY <1>1, <1>2
<1>4. recs[d + (m + 1)] \in Record  BY <1>3, ElementOfSeq
<1>. DEFINE s == Slice(recs, d, m)
            t == Slice(recs, d, m + 1)
            a == Append(s, recs[d + (m + 1)])
<1>5. s \in Seq(Record) /\ Len(s) = m /\ \A x \in 1 .. m : s[x] = recs[d + x]
  BY <1>2, SliceSeq
<1>6. t \in Seq(Record) /\ Len(t) = m + 1 /\ \A x \in 1 .. m + 1 : t[x] = recs[d + x]
  BY <1>2, SliceSeq
<1>. HIDE DEF s, t
<1>7. /\ a \in Seq(Record) /\ Len(a) = m + 1 /\ a[m + 1] = recs[d + (m + 1)]
      /\ \A x \in 1 .. m : a[x] = s[x]
  BY <1>4, <1>5, AppendProperties
<1>. HIDE DEF a
<1>8. \A x \in 1 .. m + 1 : a[x] = t[x]
  <2>. TAKE x \in 1 .. m + 1
  <2>1. CASE x = m + 1  BY <1>6, <1>7, <2>1
  <2>2. CASE x # m + 1
    <3>1. x \in 1 .. m  BY <2>2
    <3>. QED  BY <1>5, <1>6, <1>7, <3>1
  <2>. QED  BY <2>1, <2>2
<1>9. a = t  BY <1>6, <1>7, <1>8, SeqEqual
<1>. QED  BY <1>9 DEF a, s, t

\* One turn of the loop of read_batch, with `kept' for the turns before.
KeepStep(kept, recs, start, max, i) ==
    LET before == kept[i - 1]
    IN  IF i = 0 THEN <<>>
        ELSE IF Len(before) < max /\ recs[i].offset >= start
        THEN Append(before, recs[i])
        ELSE before

\* How many records are kept of the first i when the first d are skipped.
Taken(i, d, max) == IF i <= d THEN 0 ELSE IF i - d <= max THEN i - d ELSE max

\* The first d records are the ones below the start.
Skips(recs, start, d) ==
    \A i \in 1 .. Len(recs) : recs[i].offset >= start <=> d < i

\* What is kept of the first i records, and that the turn before the i-th kept
\* that.
Kept(recs, d, max, i) == Slice(recs, d, Taken(i, d, max))
KeptBefore(kept, recs, d, max, i) == i # 0 => kept[i - 1] = Kept(recs, d, max, i - 1)

\* A turn keeps the next record when there is room for it.
LEMMA KeepStepSlice ==
    ASSUME NEW recs \in Seq(Record), NEW start \in Nat, NEW max \in Nat,
           NEW d \in 0 .. Len(recs), Skips(recs, start, d), NEW i \in 0 .. Len(recs), NEW kept,
           KeptBefore(kept, recs, d, max, i)
    PROVE  KeepStep(kept, recs, start, max, i) = Kept(recs, d, max, i)
<1>. USE DEF Kept, KeptBefore
<1>1. Len(recs) \in Nat  BY LenProperties
<1>2. CASE i = 0
  <2>1. Taken(i, d, max) = 0  BY <1>1, <1>2 DEF Taken
  <2>2. Slice(recs, d, 0) = <<>>
    <3>1. d + 0 <= Len(recs) /\ d \in Nat  BY <1>1
    <3>2. Slice(recs, d, 0) \in Seq(Record) /\ Len(Slice(recs, d, 0)) = 0
      BY <3>1, SliceSeq
    <3>. QED  BY <3>2, EmptySeq
  <2>. QED  BY <1>2, <2>1, <2>2 DEF KeepStep
<1>3. CASE i # 0
  <2>1. PICK m : m = Taken(i - 1, d, max)  OBVIOUS
  <2>2. m \in Nat /\ d \in Nat /\ d + m <= Len(recs) /\ i \in 1 .. Len(recs)
    BY <1>1, <1>3, <2>1 DEF Taken
  <2>3. Len(Slice(recs, d, m)) = m  BY <2>2, SliceSeq
  <2>4. KeepStep(kept, recs, start, max, i) =
          IF m < max /\ d < i THEN Append(Slice(recs, d, m), recs[i]) ELSE Slice(recs, d, m)
    <3>1. kept[i - 1] = Slice(recs, d, m)  BY <1>3, <2>1
    <3>2. recs[i].offset >= start <=> d < i  BY <2>2 DEF Skips
    <3>. QED  BY <1>3, <2>3, <3>1, <3>2, Zenon DEF KeepStep
  <2>5. CASE m < max /\ d < i
    <3>1. Taken(i, d, max) = m + 1 /\ i = d + (m + 1) /\ d + m + 1 <= Len(recs)
      BY <1>1, <2>1, <2>2, <2>5 DEF Taken
    <3>2. Append(Slice(recs, d, m), recs[d + (m + 1)]) = Slice(recs, d, m + 1)
      BY <2>2, <3>1, SliceAppend
    <3>. QED  BY <2>4, <2>5, <3>1, <3>2
  <2>6. CASE ~(m < max /\ d < i)
    <3>1. Taken(i, d, max) = m  BY <1>1, <2>1, <2>2, <2>6 DEF Taken
    <3>. QED  BY <2>4, <2>6, <3>1
  <2>. QED  BY <2>5, <2>6
<1>. QED  BY <1>2, <1>3

\* The loop of read_batch returns the records after the ones below the start,
\* up to max of them.
LEMMA KeepSlice ==
    ASSUME NEW recs \in Seq(Record), NEW start \in Nat, NEW max \in Nat,
           NEW d \in 0 .. Len(recs), Skips(recs, start, d)
    PROVE  Keep(recs, start, max) = Slice(recs, d, Taken(Len(recs), d, max))
<1>. DEFINE n == Len(recs)
            P(s) == s = [i \in 0 .. n |-> KeepStep(s, recs, start, max, i)]
            Value(i) == Kept(recs, d, max, i)
<1>1. Keep(recs, start, max) = (CHOOSE s : P(s))[n]
  BY Zenon DEF Keep, KeepStep
<1>2. n \in Nat  BY LenProperties
<1>. HIDE DEF n
<1>3. PICK g : g = [i \in 0 .. n |-> Value(i)]  OBVIOUS
<1>4. ASSUME NEW s, NEW i \in 0 .. n, i # 0 => s[i - 1] = Value(i - 1)
      PROVE  KeepStep(s, recs, start, max, i) = Value(i)
  <2>. HIDE DEF P
  <2>1. /\ recs \in Seq(Record) /\ start \in Nat /\ max \in Nat /\ i \in 0 .. Len(recs)
        /\ d \in 0 .. Len(recs) /\ Skips(recs, start, d)
        /\ KeptBefore(s, recs, d, max, i)
    BY <1>4 DEF n, KeptBefore
  <2>2. KeepStep(s, recs, start, max, i) = Kept(recs, d, max, i)
    BY ONLY <2>1, KeepStepSlice
  <2>. QED  BY ONLY <2>2 DEF Value
<1>. HIDE DEF Value
<1>5. \A i \in 0 .. n : KeepStep(g, recs, start, max, i) = Value(i)
  <2>. TAKE i \in 0 .. n
  <2>1. i # 0 => g[i - 1] = Value(i - 1)  BY <1>2, <1>3
  <2>. QED  BY <1>4, <2>1
<1>6. P(g)  BY <1>3, <1>5, Zenon
<1>7. PICK f : f = (CHOOSE s : P(s)) /\ P(f)
  <2>. HIDE DEF P
  <2>. QED  BY <1>6, Zenon
<1>8. \A i \in 0 .. n : f[i] = KeepStep(f, recs, start, max, i)  BY <1>7, Zenon
<1>. DEFINE S == {i \in Nat : i <= n /\ f[i] # Value(i)}
<1>9. S = {}
  <2>. SUFFICES ASSUME S # {} PROVE FALSE  OBVIOUS
  <2>1. PICK i \in S : \A x \in S : i <= x
    <3>1. S \in SUBSET Nat  OBVIOUS
    <3>. HIDE DEF S
    <3>. QED  BY <3>1, LeastNatural
  <2>2. i \in 0 .. n /\ f[i] # Value(i)  BY <1>2, <2>1
  <2>3. i # 0 => f[i - 1] = Value(i - 1)  BY <1>2, <2>1, <2>2
  <2>4. KeepStep(f, recs, start, max, i) = Value(i)  BY <1>4, <2>2, <2>3
  <2>. QED  BY <1>8, <2>2, <2>4
<1>10. f[n] = Value(n)  BY <1>2, <1>9
<1>. QED  BY <1>1, <1>7, <1>10 DEF Value, Kept, n

\* The record of offset o in a neat file of base offset b, and m records from
\* there on.
RecordIn(log, b, o) == [offset |-> o, msg |-> log[2 * (o - b) + 1].msg]
RecordsOf(log, b, o, m) == [i \in 1 .. m |-> RecordIn(log, b, o + i - 1)]

\* How many records there are from one offset up to an end, max at most.
UpTo(from, end, max) == IF end - from <= max THEN end - from ELSE max

\* The record of an offset is where its number says.
LEMMA RecordInType ==
    ASSUME NEW log \in Seq(Cell), NEW b \in Nat, Neat(log, b), NEW o \in Nat,
           b <= o, o < b + Count(log)
    PROVE  /\ RecordIn(log, b, o) \in Record
           /\ 2 * (o - b) + 1 \in 1 .. Len(log)
           /\ log[2 * (o - b) + 1].offset = o
           /\ Decodes(log, 2 * (o - b)) /\ 2 * (o - b) \in 0 .. Len(log) - 2
<1>1. Count(log) \in Nat /\ Len(log) \in Nat /\ Len(log) = 2 * Count(log)
  BY CountType DEF Neat
<1>2. o - b \in 0 .. Count(log) - 1 /\ 2 * (o - b) \in Nat  BY <1>1
<1>3. Decodes(log, 2 * (o - b)) /\ log[2 * (o - b) + 1].offset = b + (o - b)
  BY <1>2 DEF Neat
<1>4. log[2 * (o - b) + 1] \in Cell /\ 2 * (o - b) + 1 \in 1 .. Len(log)
  BY <1>2, <1>3, DecodesInside
<1>5. log[2 * (o - b) + 1].msg \in Msgs  BY <1>4 DEF Cell
<1>6. RecordIn(log, b, o) \in Record  BY <1>5 DEF RecordIn, Record
<1>. QED  BY <1>1, <1>2, <1>3, <1>4, <1>6

\* What a cursor at the j-th record of a neat file yields.
LEMMA NeatRecords ==
    ASSUME NEW log \in Seq(Cell), NEW b \in Nat, Neat(log, b), NEW j \in 0 .. Count(log)
    PROVE  /\ RecordsFrom(log, 2 * j) \in Seq(Record)
           /\ Len(RecordsFrom(log, 2 * j)) = Count(log) - j
           /\ \A i \in 1 .. Count(log) - j :
                 RecordsFrom(log, 2 * j)[i] = RecordIn(log, b, b + j + i - 1)
<1>1. Count(log) \in Nat  BY CountType
<1>2. PICK n \in Nat : n = Count(log) - j  BY <1>1
<1>3. PICK recs : recs = RecordsFrom(log, 2 * j)  OBVIOUS
<1>4. recs = [i \in 1 .. n |-> [offset |-> log[2 * j + 2 * i - 1].offset,
                                msg |-> log[2 * j + 2 * i - 1].msg]]
  <2>1. Decodable(log, 2 * j) = n  BY <1>2, NeatDecodable
  <2>. QED  BY <1>3, <2>1, Zenon DEF RecordsFrom
<1>5. ASSUME NEW i \in 1 .. n
      PROVE  recs[i] = RecordIn(log, b, b + j + i - 1) /\ recs[i] \in Record
  <2>1. PICK o \in Nat : o = b + j + i - 1  BY <1>1
  <2>2. b <= o /\ o < b + Count(log) /\ 2 * (o - b) + 1 = 2 * j + 2 * i - 1
    BY <1>1, <1>2, <2>1
  <2>3. RecordIn(log, b, o) \in Record /\ log[2 * (o - b) + 1].offset = o
    BY <2>2, RecordInType
  <2>4. recs[i] = RecordIn(log, b, o)  BY <1>4, <2>2, <2>3 DEF RecordIn
  <2>. QED  BY <2>1, <2>3, <2>4
<1>6. recs \in [1 .. n -> Record]  BY <1>4, <1>5
<1>7. recs \in Seq(Record)  BY <1>6, IsASeq
<1>8. Len(recs) = n  BY <1>4, <1>7, LenProperties
<1>. QED  BY <1>2, <1>3, <1>5, <1>7, <1>8

\* Where a read of an open segment starts: at a record at or below the start.
LEMMA ReadPosition ==
    ASSUME TypeInv, IndexFiles, NEW b \in DOMAIN segs, ~Reindexed(b),
           Neat(disk[b].log, b), NEW start \in Nat, b <= start, start < End(b)
    PROVE  /\ Lookup(b, start) # Panic
           /\ \E j \in 0 .. Count(disk[b].log) - 1 :
                 /\ b + j <= start
                 /\ (IF Lookup(b, start).kind = "at" THEN Lookup(b, start).position ELSE 0) = 2 * j
<1>1. b \in Nat /\ b \in DOMAIN disk /\ disk[b].log \in Seq(Cell)
  BY FileFacts DEF TypeInv, TypeOK
<1>2. PICK log \in Seq(Cell) : log = disk[b].log  BY <1>1
<1>3. Count(log) \in Nat /\ start < b + Count(log) /\ Neat(log, b)
  BY <1>2, CountType DEF End
<1>4. PICK idx \in Seq(Entry) :
          /\ idx = disk[b].idx
          /\ \A i \in 1 .. Len(idx) : Decodes(log, idx[i].position) /\ log[idx[i].position + 1].offset = idx[i].offset
          /\ \E k \in 0 .. Len(idx) :
                /\ \A i \in 1 .. Len(idx) : idx[i].offset <= start <=> i <= k
                /\ Lookup(b, start) = IF k = 0 THEN Nothing ELSE At(idx[k].position)
  BY <1>2, LookupIs DEF GoodEntry
<1>5. PICK k \in 0 .. Len(idx) :
                /\ \A i \in 1 .. Len(idx) : idx[i].offset <= start <=> i <= k
                /\ Lookup(b, start) = IF k = 0 THEN Nothing ELSE At(idx[k].position)
  BY <1>4
<1>6. CASE k = 0
  <2>1. Lookup(b, start) = Nothing  BY <1>5, <1>6
  <2>2. Nothing.kind = "none" /\ Panic.kind = "panic"  BY DEF Nothing, Panic
  <2>3. 0 \in 0 .. Count(log) - 1 /\ b + 0 <= start /\ 0 = 2 * 0  BY <1>1, <1>3
  <2>. QED  BY <1>2, <2>1, <2>2, <2>3
<1>7. CASE k # 0
  <2>1. Len(idx) \in Nat  BY LenProperties
  <2>2. k \in 1 .. Len(idx)  BY <1>7, <2>1
  <2>3. PICK p : p = idx[k].position  OBVIOUS
  <2>4. idx[k] \in Entry  BY <2>2, ElementOfSeq
  <2>5. p \in Nat  BY <2>3, <2>4 DEF Entry
  <2>6. Decodes(log, p) /\ log[p + 1].offset = idx[k].offset  BY <1>4, <2>2, <2>3
  <2>7. idx[k].offset <= start  BY <1>5, <2>1, <2>2
  <2>8. PICK j \in 0 .. Count(log) - 1 : p = 2 * j
    BY <1>1, <1>3, <2>5, <2>6, NeatAligned
  <2>9. log[p + 1].offset = b + j  BY <1>3, <2>8 DEF Neat
  <2>10. Lookup(b, start) = At(p)  BY <1>5, <1>7, <2>3
  <2>11. At(p).kind = "at" /\ At(p).position = p /\ Panic.kind = "panic"  BY DEF At, Panic
  <2>12. b + j <= start  BY <2>6, <2>7, <2>9
  <2>. QED  BY <1>2, <2>8, <2>10, <2>11, <2>12
<1>. QED  BY <1>6, <1>7

\* What LogSegment::read_batch answers while no append is in progress.
ReadAnswer(b, start, max) ==
    IF start < b THEN Error
    ELSE IF start >= End(b) THEN Found(<<>>)
    ELSE Found(RecordsOf(disk[b].log, b, start, UpTo(start, End(b), max)))

\* LogSegment::read_batch answers with the records of its file from the start on.
LEMMA ReadNeat ==
    ASSUME TypeInv, IndexFiles, NEW b \in DOMAIN segs, ~Reindexed(b),
           Neat(disk[b].log, b), segs[b].next = End(b), segs[b].mapped = Len(disk[b].log),
           NEW start \in Nat, NEW max \in Nat
    PROVE  ReadBatch(b, start, max) = ReadAnswer(b, start, max)
<1>1. b \in Nat /\ b \in DOMAIN disk /\ disk[b].log \in Seq(Cell)
  BY FileFacts DEF TypeInv, TypeOK
<1>2. PICK log \in Seq(Cell) : log = disk[b].log  BY <1>1
<1>3. /\ Count(log) \in Nat /\ Len(log) \in Nat /\ Neat(log, b) /\ Len(log) = 2 * Count(log)
      /\ End(b) = b + Count(log)
  BY <1>2, CountType DEF End, Neat
<1>4. PICK pos : pos = IF Lookup(b, start).kind = "at" THEN Lookup(b, start).position ELSE 0
  OBVIOUS
<1>5. ReadBatch(b, start, max) =
        IF start < b THEN Error
        ELSE IF start >= End(b) THEN Found(<<>>)
        ELSE IF Len(log) = 0 \/ Lookup(b, start) = Panic \/ pos > Len(log) THEN Error
        ELSE Found(Keep(RecordsFrom(SubSeq(log, 1, Len(log)), pos), start, max))
  BY <1>2, <1>4, Zenon DEF ReadBatch
<1>6. CASE start < b  BY <1>5, <1>6 DEF ReadAnswer
<1>7. CASE ~(start < b) /\ start >= End(b)  BY <1>5, <1>7 DEF ReadAnswer
<1>8. CASE ~(start < b) /\ ~(start >= End(b))
  <2>1. b <= start /\ start < End(b) /\ start < b + Count(log)  BY <1>1, <1>3, <1>8
  <2>2. /\ Lookup(b, start) # Panic
        /\ \E j \in 0 .. Count(log) - 1 : b + j <= start /\ pos = 2 * j
    BY <1>2, <1>4, <2>1, ReadPosition
  <2>3. PICK j \in 0 .. Count(log) - 1 : b + j <= start /\ pos = 2 * j  BY <2>2
  <2>4. Len(log) # 0 /\ ~(pos > Len(log))  BY <1>3, <2>3
  <2>5. SubSeq(log, 1, Len(log)) = log  BY SubSeqFull
  <2>6. PICK recs : recs = RecordsFrom(log, 2 * j)  OBVIOUS
  <2>7. ReadBatch(b, start, max) = Found(Keep(recs, start, max))
    BY <1>5, <1>8, <2>2, <2>3, <2>4, <2>5, <2>6
  <2>8. PICK n \in Nat : n = Count(log) - j  BY <1>3, <2>3
  <2>9. /\ recs \in Seq(Record) /\ Len(recs) = n
        /\ \A i \in 1 .. n : recs[i] = RecordIn(log, b, b + j + i - 1)
    <3>1. j \in 0 .. Count(log)  BY <1>3
    <3>. QED  BY <1>1, <1>3, <2>6, <2>8, <3>1, NeatRecords
  <2>10. PICK d \in 0 .. n : d = start - b - j  BY <1>1, <1>3, <2>1, <2>3, <2>8
  <2>11. /\ b \in Nat /\ j \in Nat /\ d \in Nat /\ n \in Nat /\ max \in Nat
         /\ start = b + j + d /\ End(b) = b + j + n /\ d < n
    <3>1. j \in Nat /\ j <= Count(log) - 1 /\ d \in Nat  BY <1>3
    <3>2. start = b + j + d  BY ONLY <1>1, <2>10, <3>1, start \in Nat
    <3>3. Count(log) = n + j  BY ONLY <1>3, <2>8, <3>1, n \in Nat
    <3>4. start = b + j + d /\ End(b) = b + Count(log) /\ Count(log) = n + j
      BY ONLY <1>3, <3>2, <3>3
    <3>5. b + j + d < b + (n + j)  BY ONLY <2>1, <3>4
    <3>6. d < n  BY ONLY <1>1, <3>1, <3>5, n \in Nat
    <3>. QED  BY ONLY <1>1, <3>1, <3>4, <3>6, max \in Nat, n \in Nat
  <2>12. Skips(recs, start, d)
    <3>. SUFFICES ASSUME NEW i \in 1 .. n PROVE recs[i].offset >= start <=> d < i
      BY <2>9 DEF Skips
    <3>1. recs[i].offset = b + j + i - 1  BY <2>9 DEF RecordIn
    <3>2. i \in Nat /\ i >= 1  BY <2>11
    <3>. QED  BY ONLY <2>11, <3>1, <3>2
  <2>13. PICK m : m = UpTo(start, End(b), max)  OBVIOUS
  <2>14. m = Taken(n, d, max) /\ m \in Nat /\ d + m <= n
    <3>1. End(b) - start = n - d /\ ~(n <= d)  BY ONLY <2>11
    <3>2. m = IF n - d <= max THEN n - d ELSE max  BY ONLY <2>13, <3>1 DEF UpTo
    <3>3. Taken(n, d, max) = IF n - d <= max THEN n - d ELSE max  BY ONLY <3>1 DEF Taken
    <3>4. m \in Nat /\ d + m <= n  BY ONLY <2>11, <3>2
    <3>. QED  BY ONLY <3>2, <3>3, <3>4
  <2>15. Keep(recs, start, max) = Slice(recs, d, m)
    BY <2>9, <2>10, <2>12, <2>14, KeepSlice
  <2>16. Slice(recs, d, m) = RecordsOf(log, b, start, m)
    <3>1. ASSUME NEW x \in 1 .. m PROVE recs[d + x] = RecordIn(log, b, start + x - 1)
      <4>1. d + x \in 1 .. n /\ b + j + (d + x) - 1 = start + x - 1
        BY ONLY <2>14, <2>11, x \in 1 .. m
      <4>. QED  BY <2>9, <4>1
    <3>. QED  BY <3>1, Zenon DEF Slice, RecordsOf
  <2>17. ReadAnswer(b, start, max) = Found(RecordsOf(log, b, start, m))
    BY <1>2, <1>8, <2>13 DEF ReadAnswer
  <2>. QED  BY <2>7, <2>15, <2>16, <2>17
<1>. QED  BY <1>6, <1>7, <1>8

\* No append is in progress, the files make up one log that the open segments
\* know, and every index is the one that was written.
Readable ==
    /\ TypeInv /\ OrderInv /\ Chained /\ Listed /\ IndexFiles
    /\ Serving
    /\ \A b \in DOMAIN segs : ~Reindexed(b)

\* What the invariants say of the segments of a readable partition.
LEMMA ReadableFacts ==
    ASSUME Readable
    PROVE  /\ 0 \in DOMAIN segs /\ active \in DOMAIN segs /\ DOMAIN segs \subseteq Nat
           /\ DOMAIN segs = DOMAIN disk
           /\ \A b \in DOMAIN segs :
                 /\ disk[b].log \in Seq(Cell) /\ Neat(disk[b].log, b)
                 /\ b <= active /\ segs[b].next = End(b) /\ segs[b].mapped = Len(disk[b].log)
                 /\ End(b) \in Nat /\ b <= End(b) /\ End(b) <= End(active)
                 /\ b # active => b < End(b) /\ End(b) \in DOMAIN segs
           /\ \A b, c \in DOMAIN segs : b < c => End(b) <= c
<1>. USE DEF Readable
<1>1. status = "up" /\ writer.pc = "idle"  BY DEF Serving
<1>2. DOMAIN segs = DOMAIN disk  BY <1>1 DEF Listed
<1>3. /\ active \in DOMAIN segs /\ DOMAIN segs \subseteq Nat
      /\ \A b \in DOMAIN segs : disk[b].log \in Seq(Cell)
  BY <1>1, <1>2, OpenFacts
<1>4. \A b \in DOMAIN segs : segs[b].next = End(b) /\ segs[b].mapped = Len(disk[b].log)
  BY <1>1 DEF Listed
<1>5. \A b \in DOMAIN segs : b <= active  BY <1>1 DEF OrderInv, OpenOrder
<1>6. \A b \in DOMAIN segs : End(b) \in Nat /\ b <= End(b)
  <2>1. \A b \in DOMAIN segs : b \in Nat /\ Count(disk[b].log) \in Nat  BY <1>3, CountType
  <2>. QED  BY ONLY <2>1 DEF End
<1>7. /\ 0 \in DOMAIN segs /\ \A b \in DOMAIN segs : Neat(disk[b].log, b)
      /\ \A b, c \in DOMAIN segs : b < c => End(b) <= c
  BY <1>2 DEF Chained
<1>8. ASSUME NEW b \in DOMAIN segs, b # active PROVE b < End(b) /\ End(b) \in DOMAIN segs
  <2>1. b < active  BY <1>3, <1>5, <1>8
  <2>2. ~(\A c \in DOMAIN disk : c <= b)  BY <1>2, <1>3, <2>1
  <2>. QED  BY <1>2, <2>2 DEF Chained
<1>9. ASSUME NEW b \in DOMAIN segs PROVE End(b) <= End(active)
  <2>1. CASE b = active  BY <1>3, <1>6, <2>1
  <2>2. CASE b # active
    <3>1. b < active  BY <1>3, <1>5, <2>2
    <3>2. End(b) <= active  BY <1>3, <1>7, <3>1
    <3>. QED  BY <1>3, <1>6, <3>2
  <2>. QED  BY <2>1, <2>2
<1>. QED  BY <1>2, <1>3, <1>4, <1>5, <1>6, <1>7, <1>8, <1>9

\* find_segment_index finds the segment an offset is in.
LEMMA FindIs ==
    ASSUME Readable, NEW b \in DOMAIN segs, NEW o \in Nat, b <= o, o < End(b) \/ b = active
    PROVE  FindSegment(o) = b
<1>1. \A c \in DOMAIN segs : c <= o => c <= b
  <2>. SUFFICES ASSUME NEW c \in DOMAIN segs, c <= o, ~(c <= b) PROVE FALSE  OBVIOUS
  <2>1. b \in Nat /\ c \in Nat /\ b < c /\ c <= active /\ active \in Nat  BY ReadableFacts
  <2>2. b # active  BY <2>1
  <2>3. o < End(b) /\ End(b) <= c /\ End(b) \in Nat  BY <2>1, <2>2, ReadableFacts
  <2>. QED  BY <2>1, <2>3
<1>2. \A c \in DOMAIN segs : c \in Nat  BY ReadableFacts
<1>3. ASSUME NEW c \in DOMAIN segs, c <= o, \A d \in DOMAIN segs : d <= o => d <= c PROVE c = b
  <2>1. c <= b /\ b <= c  BY <1>1, <1>3
  <2>. QED  BY <1>2, <2>1
<1>. QED  BY <1>1, <1>3, Zenon DEF FindSegment

\* Every offset is in one segment or past the end of the active one.
LEMMA FindExists ==
    ASSUME Readable, NEW o \in Nat
    PROVE  \E b \in DOMAIN segs : b <= o /\ (o < End(b) \/ b = active)
<1>1. PICK D \in SUBSET Nat : D = DOMAIN segs  BY ReadableFacts
<1>. DEFINE S == {x \in Nat : \E b \in D : b <= o /\ x = o - b}
<1>2. PICK x \in S : \A y \in S : x <= y
  <2>1. S \in SUBSET Nat  OBVIOUS
  <2>2. o - 0 \in Nat /\ 0 <= o /\ 0 \in D  BY <1>1, ReadableFacts
  <2>3. S # {}  BY <2>2
  <2>. HIDE DEF S
  <2>. QED  BY <2>1, <2>3, LeastNatural
<1>3. PICK b \in D : b <= o /\ x = o - b  BY <1>2
<1>4. ASSUME b # active, ~(o < End(b)) PROVE FALSE
  <2>1. End(b) \in D /\ b < End(b) /\ End(b) \in Nat /\ b \in Nat
    BY <1>1, <1>4, ReadableFacts
  <2>2. PICK e \in D : e = End(b)  BY <2>1
  <2>3. e <= o /\ o - e \in Nat  BY <1>4, <2>1, <2>2
  <2>4. o - e \in S  BY <2>3
  <2>5. x <= o - e  BY <1>2, <2>4
  <2>. QED  BY <1>3, <2>1, <2>2, <2>3, <2>5
<1>. QED  BY <1>1, <1>3, <1>4

\* The segment after b on the list starts where b ends.
LEMMA LaterIs ==
    ASSUME Readable, NEW b \in DOMAIN segs
    PROVE  /\ Later(b) = {} <=> b = active
           /\ b # active => First(Later(b)) = End(b)
<1>1. ASSUME b = active PROVE Later(b) = {}
  <2>1. \A c \in DOMAIN segs : c <= active /\ c \in Nat /\ active \in Nat  BY ReadableFacts
  <2>. QED  BY <1>1, <2>1 DEF Later
<1>2. ASSUME b # active PROVE Later(b) # {} /\ First(Later(b)) = End(b)
  <2>1. End(b) \in Later(b)  BY <1>2, ReadableFacts DEF Later
  <2>2. \A c \in Later(b) : End(b) <= c /\ c \in Nat  BY ReadableFacts DEF Later
  <2>3. End(b) \in Nat  BY ReadableFacts
  <2>4. ASSUME NEW c \in Later(b), \A d \in Later(b) : c <= d PROVE c = End(b)
    BY <2>1, <2>2, <2>3, <2>4
  <2>. QED  BY <2>1, <2>2, <2>4, Zenon DEF First
<1>. QED  BY <1>1, <1>2

\* The record at offset o of the log, and the m records from there on.
LogRecord(o) == RecordIn(disk[FindSegment(o)].log, FindSegment(o), o)
Served(o, m) == [i \in 1 .. m |-> LogRecord(o + i - 1)]

\* Every offset below the end has its record, in one of the files.
LEMMA LogRecordHeld ==
    ASSUME Readable, NEW o \in Nat, o < End(active)
    PROVE  /\ LogRecord(o) \in Record /\ LogRecord(o).offset = o
           /\ \E b \in DOMAIN disk : Holds(disk[b].log, Len(disk[b].log), LogRecord(o))
<1>1. PICK b \in DOMAIN segs : b <= o /\ (o < End(b) \/ b = active)  BY FindExists
<1>2. FindSegment(o) = b  BY <1>1, FindIs
<1>3. o < End(b) /\ b \in Nat /\ b \in DOMAIN disk /\ disk[b].log \in Seq(Cell)
      /\ Neat(disk[b].log, b)
  BY <1>1, ReadableFacts
<1>4. PICK log \in Seq(Cell) : log = disk[b].log  BY <1>3
<1>5. /\ RecordIn(log, b, o) \in Record
      /\ 2 * (o - b) + 1 \in 1 .. Len(log)
      /\ log[2 * (o - b) + 1].offset = o
      /\ Decodes(log, 2 * (o - b)) /\ 2 * (o - b) \in 0 .. Len(log) - 2
  <2>1. o < b + Count(log)  BY <1>3, <1>4 DEF End
  <2>. QED  BY <1>1, <1>3, <1>4, <2>1, RecordInType
<1>6. LogRecord(o) = RecordIn(log, b, o)  BY <1>2, <1>4 DEF LogRecord
<1>7. Holds(log, Len(log), RecordIn(log, b, o))
  <2>1. Len(log) \in Nat  BY LenProperties
  <2>2. PICK p \in 0 .. Len(log) - 2 : p = 2 * (o - b)  BY <1>5
  <2>. QED  BY <1>5, <2>1, <2>2 DEF Holds, RecordIn
<1>8. RecordIn(log, b, o).offset = o  BY DEF RecordIn
<1>. QED  BY <1>3, <1>4, <1>5, <1>6, <1>7, <1>8

\* The type of the records served.
LEMMA ServedSeq ==
    ASSUME Readable, NEW o \in Nat, NEW m \in Nat, o + m <= End(active)
    PROVE  /\ Served(o, m) \in Seq(Record) /\ Len(Served(o, m)) = m
           /\ \A i \in 1 .. m : Served(o, m)[i] = LogRecord(o + i - 1)
<1>1. End(active) \in Nat  BY ReadableFacts
<1>2. ASSUME NEW i \in 1 .. m PROVE LogRecord(o + i - 1) \in Record
  <2>1. PICK x \in Nat : x = o + i - 1  OBVIOUS
  <2>2. x < End(active)  BY <1>1, <2>1
  <2>. QED  BY <2>1, <2>2, LogRecordHeld
<1>3. Served(o, m) \in [1 .. m -> Record]  BY <1>2 DEF Served
<1>4. Served(o, m) \in Seq(Record)  BY <1>3, IsASeq
<1>5. DOMAIN Served(o, m) = 1 .. m  BY DEF Served
<1>6. Len(Served(o, m)) = m  BY <1>4, <1>5, LenProperties
<1>. QED  BY <1>4, <1>6 DEF Served

\* What is served from one offset on, followed by what is served from where it
\* ended.
LEMMA ServedJoin ==
    ASSUME Readable, NEW o \in Nat, NEW m \in Nat, NEW k \in Nat, o + m + k <= End(active)
    PROVE  Served(o, m) \o Served(o + m, k) = Served(o, m + k)
<1>1. End(active) \in Nat  BY ReadableFacts
<1>2. PICK p \in Nat : p = o + m  OBVIOUS
<1>3. PICK n \in Nat : n = m + k  OBVIOUS
<1>4. o + m <= End(active) /\ p + k <= End(active) /\ o + n <= End(active)
  BY <1>1, <1>2, <1>3
<1>5. PICK s \in Seq(Record) : s = Served(o, m) /\ Len(s) = m
      /\ \A i \in 1 .. m : s[i] = LogRecord(o + i - 1)
  BY <1>4, ServedSeq
<1>6. PICK t \in Seq(Record) : t = Served(p, k) /\ Len(t) = k
      /\ \A i \in 1 .. k : t[i] = LogRecord(p + i - 1)
  BY <1>4, ServedSeq
<1>7. PICK u \in Seq(Record) : u = Served(o, n) /\ Len(u) = n
      /\ \A i \in 1 .. n : u[i] = LogRecord(o + i - 1)
  BY <1>4, ServedSeq
<1>8. /\ s \o t \in Seq(Record) /\ Len(s \o t) = m + k
      /\ \A i \in 1 .. m + k : (s \o t)[i] = IF i <= m THEN s[i] ELSE t[i - m]
  <2>1. /\ s \o t \in Seq(Record) /\ Len(s \o t) = Len(s) + Len(t)
        /\ \A i \in 1 .. Len(s) + Len(t) :
              (s \o t)[i] = IF i <= Len(s) THEN s[i] ELSE t[i - Len(s)]
    BY ONLY s \in Seq(Record), t \in Seq(Record), ConcatProperties
  <2>. QED  BY ONLY <1>5, <1>6, <2>1
<1>9. ASSUME NEW i \in 1 .. n PROVE (s \o t)[i] = u[i]
  <2>1. (s \o t)[i] = IF i <= m THEN s[i] ELSE t[i - m]  BY <1>3, <1>8
  <2>2. u[i] = LogRecord(o + i - 1)  BY <1>7
  <2>3. CASE i <= m
    <3>1. i \in 1 .. m  BY <2>3
    <3>. QED  BY <1>5, <2>1, <2>2, <2>3, <3>1
  <2>4. CASE ~(i <= m)
    <3>1. i - m \in 1 .. k /\ p + (i - m) - 1 = o + i - 1  BY <1>2, <1>3, <2>4
    <3>2. t[i - m] = LogRecord(p + (i - m) - 1)  BY <1>6, <3>1
    <3>. QED  BY <2>1, <2>2, <2>4, <3>1, <3>2
  <2>. QED  BY <2>3, <2>4
<1>10. s \o t = u
  <2>1. PICK v \in Seq(Record) : v = s \o t  BY <1>8
  <2>2. Len(v) = Len(u) /\ \A i \in 1 .. Len(v) : v[i] = u[i]  BY <1>3, <1>7, <1>8, <1>9, <2>1
  <2>. QED  BY <2>1, <2>2, SeqEqual
<1>. QED  BY <1>2, <1>3, <1>5, <1>6, <1>7, <1>10

\* The records of one segment are those of the log.
LEMMA ServedOf ==
    ASSUME Readable, NEW b \in DOMAIN segs, NEW o \in Nat, NEW m \in Nat,
           b <= o, o + m <= End(b)
    PROVE  RecordsOf(disk[b].log, b, o, m) = Served(o, m)
<1>1. End(b) \in Nat /\ b \in Nat  BY ReadableFacts
<1>2. ASSUME NEW i \in 1 .. m
      PROVE  RecordIn(disk[b].log, b, o + i - 1) = LogRecord(o + i - 1)
  <2>1. PICK x \in Nat : x = o + i - 1  OBVIOUS
  <2>2. b <= x /\ x < End(b)  BY <1>1, <2>1
  <2>3. FindSegment(x) = b  BY <2>2, FindIs
  <2>. QED  BY <2>1, <2>3 DEF LogRecord
<1>. QED  BY <1>2, Zenon DEF RecordsOf, Served

\* What Partition::fetch answers from segment b on while no append is in
\* progress.
FetchAnswer(b, from, remaining) ==
    IF remaining = 0 THEN Found(<<>>)
    ELSE IF from < b THEN Error
    ELSE IF from >= End(b) THEN Found(<<>>)
    ELSE Found(Served(from, UpTo(from, End(active), remaining)))

\* One turn of the loop of Partition::fetch, with `loop' for the turns after.
FetchStep(loop, call) ==
    LET b         == call[1]
        remaining == call[3]
        got       == ReadBatch(b, call[2], remaining)
        n         == Len(got.recs)
        rest      == loop[<<First(Later(b)), got.recs[n].offset + 1, remaining - n>>]
    IN  IF remaining = 0 THEN Found(<<>>)
        ELSE IF ~got.ok \/ n = 0 \/ Later(b) = {} THEN got
        ELSE IF rest.ok THEN Found(got.recs \o rest.recs)
        ELSE Error

\* The turns for the segments after b give their answers.
AnsweredAfter(loop, b, max) ==
    \A c \in DOMAIN segs : b < c =>
        \A f \in Nat, r \in 0 .. max : loop[<<c, f, r>>] = FetchAnswer(c, f, r)

\* The number m of records of a turn leaves r to read from f on: either none,
\* or those from the end e of the segment.
Turn(from, e, end, remaining, m) ==
    /\ m \in Nat /\ m # 0
    /\ \E f \in Nat, r \in Nat :
          /\ f = from + m /\ r = remaining - m /\ f <= e
          /\ r # 0 => f = e
          /\ \E n \in Nat : /\ n = UpTo(from, end, remaining) /\ from + n <= end
                            /\ \E k \in Nat : k = UpTo(f, end, r) /\ n = m + k

\* The numbers of records of a turn and of the turns after it.
LEMMA UpToSplit ==
    ASSUME NEW from \in Nat, NEW e \in Nat, NEW end \in Nat, NEW remaining \in Nat,
           from < e, e <= end, remaining # 0, NEW m, m = UpTo(from, e, remaining)
    PROVE  Turn(from, e, end, remaining, m)
<1>1. m \in Nat /\ m # 0 /\ m <= remaining /\ from + m <= e  BY DEF UpTo
<1>2. PICK f \in Nat, r \in Nat : f = from + m /\ r = remaining - m  BY <1>1
<1>3. r # 0 => f = e  BY <1>2 DEF UpTo
<1>4. PICK n \in Nat : n = UpTo(from, end, remaining) /\ from + n <= end  BY DEF UpTo
<1>5. PICK k \in Nat : k = UpTo(f, end, r)  BY <1>1, <1>2 DEF UpTo
<1>6. n = m + k
  <2>1. CASE r = 0  BY <1>1, <1>2, <1>4, <1>5, <2>1 DEF UpTo
  <2>2. CASE r # 0  BY <1>2, <1>3, <1>4, <1>5, <2>2 DEF UpTo
  <2>. QED  BY <2>1, <2>2
<1>. QED  BY <1>1, <1>2, <1>3, <1>4, <1>5, <1>6 DEF Turn

\* What the segment after b answers when b gave all it has, or enough.
LEMMA RestAnswer ==
    ASSUME Readable, NEW b \in DOMAIN segs, NEW f \in Nat, NEW r \in Nat,
           End(b) \in DOMAIN segs, f <= End(b), r # 0 => f = End(b)
    PROVE  FetchAnswer(End(b), f, r) = Found(Served(f, UpTo(f, End(active), r)))
<1>1. PICK e \in Nat, end \in Nat : e = End(b) /\ end = End(active) /\ e <= end
  BY ReadableFacts
<1>2. End(e) \in Nat /\ e <= End(e) /\ (e # active => e < End(e))
  BY <1>1, ReadableFacts
<1>3. \A x : Served(x, 0) = <<>>
  <2>1. \A x : Served(x, 0) = [i \in {} |-> LogRecord(x + i - 1)]  BY DEF Served
  <2>. QED  BY <2>1
<1>4. CASE r = 0
  <2>1. UpTo(f, end, r) = 0  BY <1>1, <1>4 DEF UpTo
  <2>. QED  BY <1>1, <1>3, <1>4, <2>1 DEF FetchAnswer
<1>5. CASE r # 0 /\ e < End(e)
  <2>1. FetchAnswer(e, f, r) = Found(Served(f, UpTo(f, End(active), r)))
    BY <1>1, <1>2, <1>5 DEF FetchAnswer
  <2>. QED  BY <1>1, <2>1
<1>6. CASE r # 0 /\ ~(e < End(e))
  <2>1. f = e /\ e = active /\ End(e) = e  BY <1>1, <1>2, <1>6
  <2>2. FetchAnswer(e, f, r) = Found(<<>>)
    BY <1>2, <1>6, <2>1 DEF FetchAnswer
  <2>3. end - f = 0  BY <1>1, <2>1
  <2>4. UpTo(f, end, r) = 0  BY <1>6, <2>3 DEF UpTo
  <2>. QED  BY <1>1, <1>3, <2>2, <2>4
<1>. QED  BY <1>4, <1>5, <1>6

\* A turn answers for its segment when the turns after it do.
LEMMA FetchStepAnswer ==
    ASSUME Readable, NEW max \in Nat, NEW b \in DOMAIN segs, NEW from \in Nat,
           NEW remaining \in 0 .. max, NEW loop, AnsweredAfter(loop, b, max)
    PROVE  FetchStep(loop, <<b, from, remaining>>) = FetchAnswer(b, from, remaining)
<1>1. b \in Nat /\ End(b) \in Nat /\ End(active) \in Nat /\ End(b) <= End(active)
      /\ remaining \in Nat
  BY ReadableFacts
<1>2. CASE remaining = 0  BY <1>2 DEF FetchStep, FetchAnswer
<1>3. ASSUME remaining # 0
      PROVE  FetchStep(loop, <<b, from, remaining>>) = FetchAnswer(b, from, remaining)
  <2>1. PICK got : got = ReadBatch(b, from, remaining)  OBVIOUS
  <2>2. FetchStep(loop, <<b, from, remaining>>) =
          IF ~got.ok \/ Len(got.recs) = 0 \/ Later(b) = {} THEN got
          ELSE LET rest == loop[<<First(Later(b)), got.recs[Len(got.recs)].offset + 1,
                                  remaining - Len(got.recs)>>]
               IN  IF rest.ok THEN Found(got.recs \o rest.recs) ELSE Error
    BY <1>3, <2>1 DEF FetchStep
  <2>3. got = ReadAnswer(b, from, remaining)
    <3>1. TypeInv /\ IndexFiles /\ ~Reindexed(b)  BY DEF Readable
    <3>2. Neat(disk[b].log, b) /\ segs[b].next = End(b) /\ segs[b].mapped = Len(disk[b].log)
      BY ReadableFacts
    <3>. QED  BY <1>1, <2>1, <3>1, <3>2, ReadNeat
  <2>4. CASE from < b
    <3>1. got = Error /\ ~got.ok  BY <2>3, <2>4 DEF ReadAnswer, Error
    <3>. QED  BY <1>3, <2>2, <2>4, <3>1 DEF FetchAnswer
  <2>5. CASE ~(from < b) /\ from >= End(b)
    <3>1. got = Found(<<>>)  BY <2>3, <2>5 DEF ReadAnswer
    <3>2. Len(got.recs) = 0  BY <3>1 DEF Found
    <3>. QED  BY <1>3, <2>2, <2>5, <3>1, <3>2 DEF FetchAnswer
  <2>6. CASE ~(from < b) /\ ~(from >= End(b))
    <3>1. b <= from /\ from < End(b)  BY <1>1, <2>6
    <3>2. PICK e \in Nat, end \in Nat : e = End(b) /\ end = End(active) /\ e <= end
      BY <1>1
    <3>3. PICK m : m = UpTo(from, e, remaining)  OBVIOUS
    <3>4. Turn(from, e, end, remaining, m) /\ m \in Nat /\ m # 0
      <4>1. /\ from \in Nat /\ e \in Nat /\ end \in Nat /\ remaining \in Nat
            /\ from < e /\ e <= end /\ remaining # 0 /\ m = UpTo(from, e, remaining)
        BY <1>1, <1>3, <3>1, <3>2, <3>3
      <4>2. Turn(from, e, end, remaining, m)  BY ONLY <4>1, UpToSplit
      <4>. QED  BY <4>2 DEF Turn
    <3>5. PICK f \in Nat, r \in Nat, n \in Nat, k \in Nat :
             /\ f = from + m /\ r = remaining - m /\ f <= e
             /\ r # 0 => f = e
             /\ n = UpTo(from, end, remaining) /\ from + n <= end
             /\ k = UpTo(f, end, r) /\ n = m + k
      BY <3>4 DEF Turn
    <3>6. got = Found(Served(from, m))
      <4>1. got = Found(RecordsOf(disk[b].log, b, from, m))
        BY <2>3, <2>6, <3>2, <3>3 DEF ReadAnswer
      <4>2. RecordsOf(disk[b].log, b, from, m) = Served(from, m)
        BY <3>1, <3>2, <3>4, <3>5, ServedOf
      <4>. QED  BY <4>1, <4>2
    <3>7. FetchAnswer(b, from, remaining) = Found(Served(from, n))
      BY <1>3, <2>6, <3>2, <3>5 DEF FetchAnswer
    <3>8. CASE b = active
      <4>1. Later(b) = {}  BY <3>8, LaterIs
      <4>2. m = n  BY <3>2, <3>3, <3>5, <3>8
      <4>. QED  BY <2>2, <3>6, <3>7, <4>1, <4>2
    <3>9. CASE b # active
      <4>1. f <= end /\ m \in 1 .. m  BY <3>2, <3>4, <3>5
      <4>2. PICK recs \in Seq(Record) : recs = Served(from, m) /\ Len(recs) = m
            /\ recs[m] = LogRecord(from + m - 1)
        BY <3>2, <3>4, <3>5, <4>1, ServedSeq
      <4>3. got.ok /\ got.recs = recs  BY <3>6, <4>2 DEF Found
      <4>4. recs[m].offset + 1 = f
        <5>1. PICK x \in Nat : x = from + m - 1  BY <3>4
        <5>2. x < End(active) /\ x + 1 = f  BY <3>2, <3>4, <3>5, <4>1, <5>1
        <5>. QED  BY <4>2, <5>1, <5>2, LogRecordHeld
      <4>5. Later(b) # {} /\ First(Later(b)) = e  BY <3>2, <3>9, LaterIs
      <4>6. PICK rest : rest = loop[<<e, f, r>>]  OBVIOUS
      <4>7. FetchStep(loop, <<b, from, remaining>>) =
              IF rest.ok THEN Found(recs \o rest.recs) ELSE Error
        BY <2>2, <3>4, <3>5, <4>2, <4>3, <4>4, <4>5, <4>6
      <4>8. e \in DOMAIN segs /\ b < e  BY <3>2, <3>9, ReadableFacts
      <4>9. rest = FetchAnswer(e, f, r)
        <5>1. r \in 0 .. max  BY <3>4, <3>5
        <5>. QED  BY <4>6, <4>8, <5>1 DEF AnsweredAfter
      <4>10. rest = Found(Served(f, k))
        <5>1. FetchAnswer(End(b), f, r) = Found(Served(f, UpTo(f, End(active), r)))
          BY <3>2, <3>5, <4>8, RestAnswer
        <5>. QED  BY <3>2, <3>5, <4>9, <5>1
      <4>11. Served(from, m) \o Served(from + m, k) = Served(from, m + k)
        <5>1. from + m + k <= End(active)  BY ONLY <3>2, <3>4, <3>5, from \in Nat, k \in Nat, n \in Nat
        <5>. QED  BY <3>4, <5>1, ServedJoin
      <4>12. rest.ok /\ rest.recs = Served(f, k)  BY <4>10 DEF Found
      <4>. QED  BY <3>5, <3>7, <4>2, <4>7, <4>11, <4>12
    <3>. QED  BY <3>8, <3>9
  <2>. QED  BY <2>4, <2>5, <2>6
<1>. QED  BY <1>2, <1>3

\* Partition::fetch answers from the segment the offset is in.
LEMMA FetchIs ==
    ASSUME Readable, NEW o \in Nat, NEW max \in Nat
    PROVE  Fetch(o, max) = FetchAnswer(FindSegment(o), o, max)
<1>. DEFINE Calls == (DOMAIN segs) \X Nat \X (0 .. max)
            P(s) == s = [call \in Calls |-> FetchStep(s, call)]
            Value(call) == FetchAnswer(call[1], call[2], call[3])
<1>1. Fetch(o, max) = (CHOOSE s : P(s))[<<FindSegment(o), o, max>>]
  BY Zenon DEF Fetch, FetchStep
<1>2. ASSUME NEW s, NEW b \in DOMAIN segs, AnsweredAfter(s, b, max),
             NEW f \in Nat, NEW r \in 0 .. max
      PROVE  FetchStep(s, <<b, f, r>>) = FetchAnswer(b, f, r)
  <2>. HIDE DEF P, Value, Calls
  <2>. QED  BY <1>2, FetchStepAnswer
<1>3. PICK g : g = [call \in Calls |-> Value(call)]  OBVIOUS
<1>4. \A call \in Calls : /\ call = <<call[1], call[2], call[3]>>
                          /\ call[1] \in DOMAIN segs /\ call[2] \in Nat /\ call[3] \in 0 .. max
  OBVIOUS
<1>5. \A c \in DOMAIN segs, f \in Nat, r \in 0 .. max : <<c, f, r>> \in Calls
  BY Zenon
<1>6. \A c, f, r : Value(<<c, f, r>>) = FetchAnswer(c, f, r)  OBVIOUS
<1>. HIDE DEF Calls, Value
<1>7. \A b \in DOMAIN segs : AnsweredAfter(g, b, max)
  BY <1>3, <1>5, <1>6 DEF AnsweredAfter
<1>8. \A call \in Calls : FetchStep(g, call) = Value(call)
  <2>. TAKE call \in Calls
  <2>1. PICK c \in DOMAIN segs, f \in Nat, r \in 0 .. max : call = <<c, f, r>>  BY <1>4
  <2>2. FetchStep(g, <<c, f, r>>) = FetchAnswer(c, f, r)  BY <1>2, <1>7
  <2>. QED  BY <1>6, <2>1, <2>2
<1>9. P(g)  BY <1>3, <1>8, Zenon
<1>10. PICK h : h = (CHOOSE s : P(s)) /\ P(h)
  <2>. HIDE DEF P
  <2>. QED  BY <1>9, Zenon
<1>11. \A call \in Calls : h[call] = FetchStep(h, call)  BY <1>10, Zenon
<1>12. PICK a \in Nat : a = active  BY ReadableFacts
<1>13. \A b \in DOMAIN segs : b \in Nat /\ b <= a  BY <1>12, ReadableFacts
<1>. HIDE DEF P
<1>. DEFINE Wrong(b) == \E f \in Nat, r \in 0 .. max : h[<<b, f, r>>] # FetchAnswer(b, f, r)
            S == {x \in Nat : \E b \in DOMAIN segs : Wrong(b) /\ x = a - b}
<1>14. S = {}
  <2>. SUFFICES ASSUME S # {} PROVE FALSE  OBVIOUS
  <2>1. PICK x \in S : \A y \in S : x <= y
    <3>1. S \in SUBSET Nat  OBVIOUS
    <3>2. PICK T \in SUBSET Nat : T = S  BY <3>1
    <3>. HIDE DEF S
    <3>. QED  BY <3>2, LeastNatural
  <2>. HIDE DEF Wrong
  <2>2. PICK b \in DOMAIN segs : Wrong(b) /\ x = a - b  BY <2>1
  <2>3. ASSUME NEW c \in DOMAIN segs, b < c PROVE ~Wrong(c)
    <3>1. b \in Nat /\ c \in Nat /\ c <= a  BY <1>13
    <3>2. PICK y \in Nat : y = a - c  BY <3>1
    <3>3. y < x  BY <2>2, <2>3, <3>1, <3>2
    <3>4. y \notin S  BY <2>1, <3>3
    <3>. QED  BY <3>2, <3>4
  <2>. HIDE DEF S
  <2>4. AnsweredAfter(h, b, max)  BY <2>3 DEF AnsweredAfter, Wrong
  <2>5. PICK f \in Nat, r \in 0 .. max : h[<<b, f, r>>] # FetchAnswer(b, f, r)
    BY <2>2 DEF Wrong
  <2>6. FetchStep(h, <<b, f, r>>) = FetchAnswer(b, f, r)  BY <1>2, <2>4
  <2>7. h[<<b, f, r>>] = FetchStep(h, <<b, f, r>>)  BY <1>5, <1>11
  <2>. QED  BY <2>5, <2>6, <2>7
<1>15. PICK b \in DOMAIN segs : b = FindSegment(o)
  <2>1. PICK b \in DOMAIN segs : b <= o /\ (o < End(b) \/ b = active)  BY FindExists
  <2>. QED  BY <2>1, FindIs
<1>16. ~Wrong(b)
  <2>1. PICK y \in Nat : y = a - b  BY <1>13
  <2>. HIDE DEF Wrong
  <2>. QED  BY <1>14, <2>1
<1>17. max \in 0 .. max  OBVIOUS
<1>18. h[<<b, o, max>>] = FetchAnswer(b, o, max)  BY <1>16, <1>17
<1>. QED  BY <1>1, <1>10, <1>15, <1>18

\* The records a fetch must give.
LEMMA FetchServes ==
    ASSUME Readable, NEW o \in Nat, NEW max \in Nat, max # 0
    PROVE  LET got  == Fetch(o, max)
               next == segs[active].next
               left == IF o < next THEN next - o ELSE 0
           IN  /\ got.ok
               /\ Len(got.recs) = IF left < max THEN left ELSE max
               /\ \A i \in DOMAIN got.recs :
                     /\ got.recs[i].offset = o + i - 1
                     /\ \E b \in DOMAIN disk :
                           Holds(disk[b].log, Len(disk[b].log), got.recs[i])
<1>1. PICK next \in Nat : next = segs[active].next /\ next = End(active)  BY ReadableFacts
<1>2. PICK b \in DOMAIN segs : b <= o /\ (o < End(b) \/ b = active)  BY FindExists
<1>3. FindSegment(o) = b  BY <1>2, FindIs
<1>4. PICK got : got = Fetch(o, max) /\ got = FetchAnswer(b, o, max)  BY <1>3, FetchIs
<1>5. b \in Nat /\ End(b) \in Nat /\ End(b) <= next  BY <1>1, ReadableFacts
<1>6. CASE o >= next
  <2>1. o >= End(b) /\ ~(o < b) /\ ~(o < next)  BY <1>2, <1>5, <1>6
  <2>2. got = Found(<<>>)  BY <1>4, <2>1 DEF FetchAnswer
  <2>3. got.ok /\ got.recs = <<>>  BY <2>2 DEF Found
  <2>4. Len(<<>>) = 0 /\ DOMAIN <<>> = {}  OBVIOUS
  <2>. QED  BY <1>1, <1>4, <2>1, <2>3, <2>4
<1>7. CASE ~(o >= next)
  <2>1. ~(o >= End(b)) /\ ~(o < b) /\ o < next  BY <1>1, <1>2, <1>5, <1>7
  <2>2. PICK n \in Nat : n = UpTo(o, next, max) /\ o + n <= next
    BY <2>1 DEF UpTo
  <2>3. got = Found(Served(o, n))  BY <1>1, <1>4, <2>1, <2>2 DEF FetchAnswer
  <2>4. got.ok /\ got.recs = Served(o, n)  BY <2>3 DEF Found
  <2>5. PICK recs \in Seq(Record) : /\ recs = Served(o, n) /\ Len(recs) = n
                                    /\ \A i \in 1 .. n : recs[i] = LogRecord(o + i - 1)
    BY <1>1, <2>2, ServedSeq
  <2>6. DOMAIN recs = 1 .. n  BY <2>5, LenProperties
  <2>7. ASSUME NEW i \in 1 .. n
        PROVE  /\ recs[i].offset = o + i - 1
               /\ \E c \in DOMAIN disk : Holds(disk[c].log, Len(disk[c].log), recs[i])
    <3>1. PICK x \in Nat : x = o + i - 1  OBVIOUS
    <3>2. x < End(active)  BY <1>1, <2>2, <3>1
    <3>. QED  BY <2>5, <3>1, <3>2, LogRecordHeld
  <2>8. n = IF next - o < max THEN next - o ELSE max  BY <2>1, <2>2 DEF UpTo
  <2>. QED  BY <1>1, <1>4, <2>1, <2>4, <2>5, <2>6, <2>7, <2>8
<1>. QED  BY <1>1, <1>6, <1>7

\* As long as no I/O call failed and no index was written over after a restart,
\* Partition::fetch answers with exactly the records of the log from the offset
\* on, max at most, for every offset, every max and any division of the log into
\* segments.  A stop of the broker in the middle of a record, or a power loss,
\* leaves bytes that no fetch gets past.
THEOREM FetchFollowsLog ==
    (~PowerLoss /\ "write" \notin CrashPoints) => (Spec => []FetchMatchesLog)
<1>. SUFFICES ASSUME ~PowerLoss, "write" \notin CrashPoints
              PROVE  Spec => []FetchMatchesLog
  OBVIOUS
<1>1. TypeInv /\ OrderInv /\ IndexInv /\ LogInv => FetchMatchesLog
  <2>. SUFFICES ASSUME TypeInv, OrderInv, IndexInv, LogInv, Serving, IndexKept
                PROVE  FetchMatchesLog
    BY DEF FetchMatchesLog
  <2>1. Readable
    BY DEF Readable, IndexInv, LogInv, IndexKept, Serving
  <2>2. \A o \in 0 .. MaxOffset : o \in Nat  OBVIOUS
  <2>3. \A max \in 1 .. MaxOffset : max \in Nat /\ max # 0  OBVIOUS
  <2>. QED  BY <2>1, <2>2, <2>3, FetchServes DEF FetchMatchesLog
<1>2. Init => IndexInv /\ LogInv  BY IndexInit, LogInit
<1>3. TypeInv /\ TypeInv' /\ OrderInv /\ IndexInv /\ [Next]_vars => IndexInv'  BY IndexStep
<1>4. TypeInv /\ OrderInv /\ LogInv /\ [Next]_vars => LogInv'  BY LogStep
<1>. QED
  BY <1>1, <1>2, <1>3, <1>4, TypeInvariance, OrderInit, OrderStep, PTL DEF Spec

-----------------------------------------------------------------------------
(* PartitionLog implements AbstractLog.                                    *)

\* The append in progress: its records are the last ones before next_offset in
\* the file of base offset b, and what was there before them is mapped.
Progress(log, b, next, mapped, done) ==
    /\ b + Len(done) <= next
    /\ mapped = 2 * (next - Len(done) - b)
    /\ \A i \in 1 .. Len(done) : done[i] = RecordIn(log, b, next - Len(done) + (i - 1))

\* How far the append in progress is.
Written ==
    /\ writer.pc \in {"write", "index", "sync"} =>
          /\ Progress(disk[active].log, active, segs[active].next, segs[active].mapped,
                      writer.done)
          /\ Len(writer.done) + Len(writer.batch) <= MaxBatch
    /\ writer.pc = "index" =>
          disk[active].log[2 * (segs[active].next - active) + 1].msg = Head(writer.batch)
    /\ writer.pc = "sync" => writer.done # <<>>
    /\ writer.pc = "create_index" =>
          writer.done = <<>> /\ Len(writer.batch) <= MaxBatch

\* What is kept while no I/O call fails.
WrittenInv == failures = 0 => Written

\* An append that has written nothing yet.
LEMMA ProgressNone ==
    ASSUME NEW log, NEW b \in Nat, NEW next \in Nat, b <= next, NEW mapped,
           mapped = 2 * (next - b), NEW done, done = <<>>
    PROVE  Progress(log, b, next, mapped, done)
<1>1. Len(done) = 0  BY EmptySeq
<1>2. 1 .. Len(done) = {}  BY <1>1
<1>. QED  BY <1>1, <1>2 DEF Progress

\* A file that only grows keeps the records written so far.
LEMMA ProgressGrows ==
    ASSUME NEW log \in Seq(Cell), NEW new, NEW b \in Nat, NEW next \in Nat, NEW mapped,
           NEW done \in Seq(Record), Progress(log, b, next, mapped, done),
           2 * (next - b) <= Len(log),
           \A i \in 1 .. Len(log) : new[i] = log[i]
    PROVE  Progress(new, b, next, mapped, done)
<1>1. PICK n \in Nat : n = Len(done)  BY LenProperties
<1>2. Len(log) \in Nat  BY LenProperties
<1>3. b + n <= next  BY <1>1 DEF Progress
<1>4. ASSUME NEW i \in 1 .. n
      PROVE  RecordIn(new, b, next - n + (i - 1)) = RecordIn(log, b, next - n + (i - 1))
  <2>1. PICK o \in Nat : o = next - n + (i - 1)  BY <1>3
  <2>2. b <= o /\ o < next  BY <1>3, <2>1
  <2>3. PICK k : k = 2 * (o - b) + 1  OBVIOUS
  <2>4. k \in 1 .. Len(log)  BY <1>2, <2>2, <2>3
  <2>5. new[k] = log[k]  BY <2>4
  <2>6. RecordIn(new, b, o) = RecordIn(log, b, o)  BY <2>3, <2>5 DEF RecordIn
  <2>. QED  BY <2>1, <2>6
<1>5. \A i \in 1 .. n : done[i] = RecordIn(log, b, next - n + (i - 1))
  BY <1>1 DEF Progress
<1>6. \A i \in 1 .. n : done[i] = RecordIn(new, b, next - n + (i - 1))
  BY ONLY <1>4, <1>5
<1>. QED  BY <1>1, <1>6 DEF Progress

\* The next record is counted.
LEMMA ProgressMore ==
    ASSUME NEW log, NEW b \in Nat, NEW next \in Nat, NEW mapped,
           NEW done \in Seq(Record), Progress(log, b, next, mapped, done),
           NEW rec \in Record, rec = RecordIn(log, b, next)
    PROVE  Progress(log, b, next + 1, mapped, Append(done, rec))
<1>1. PICK n \in Nat : n = Len(done)  BY LenProperties
<1>2. b + n <= next /\ mapped = 2 * (next - n - b)  BY <1>1 DEF Progress
<1>3. PICK new : new = Append(done, rec)  OBVIOUS
<1>4. Len(new) = n + 1 /\ new[n + 1] = rec /\ \A i \in 1 .. n : new[i] = done[i]
  BY <1>1, <1>3, AppendProperties
<1>5. b + (n + 1) <= next + 1 /\ mapped = 2 * (next + 1 - (n + 1) - b)  BY <1>2
<1>6. ASSUME NEW i \in 1 .. n + 1
      PROVE  new[i] = RecordIn(log, b, next + 1 - (n + 1) + (i - 1))
  <2>1. CASE i = n + 1
    <3>1. next + 1 - (n + 1) + (i - 1) = next  BY <2>1
    <3>. QED  BY <1>4, <2>1, <3>1
  <2>2. CASE i # n + 1
    <3>1. i \in 1 .. n /\ next + 1 - (n + 1) + (i - 1) = next - n + (i - 1)  BY <2>2
    <3>2. done[i] = RecordIn(log, b, next - n + (i - 1))  BY <1>1, <3>1 DEF Progress
    <3>. QED  BY <1>4, <3>1, <3>2
  <2>. QED  BY <2>1, <2>2
<1>7. Progress(log, b, next + 1, mapped, new)  BY ONLY <1>4, <1>5, <1>6 DEF Progress
<1>. QED  BY ONLY <1>3, <1>7

\* The length of a batch.
LEMMA BatchLength ==
    ASSUME NEW batch \in Batches
    PROVE  batch \in Seq(Msgs) /\ Len(batch) \in 1 .. MaxBatch
<1>1. PICK n \in 1 .. MaxBatch : batch \in [1 .. n -> Msgs]  BY DEF Batches
<1>2. n \in Nat  OBVIOUS
<1>3. batch \in Seq(Msgs)  BY <1>1, <1>2, IsASeq
<1>4. Len(batch) = n  BY <1>1, <1>2, <1>3, LenProperties
<1>. QED  BY <1>3, <1>4

\* Nothing is written before the lock of the active segment is taken.
LEMMA WrittenBegin ==
    ASSUME TypeInv, Chained, Listed, NEW batch \in Batches, BeginAppend(batch)
    PROVE  Written'
<1>. USE DEF BeginAppend, CanAppend
<1>1. status = "up" /\ writer.pc = "idle" /\ UNCHANGED <<disk, segs, active>>
  OBVIOUS
<1>2. active \in DOMAIN segs /\ active \in DOMAIN disk /\ active \in Nat
      /\ disk[active].log \in Seq(Cell)
  BY <1>1, OpenFacts
<1>3. segs[active].next = End(active) /\ segs[active].mapped = Len(disk[active].log)
  BY <1>1, <1>2 DEF Listed
<1>4. Neat(disk[active].log, active)  BY <1>2 DEF Chained
<1>5. PICK log, b, next, mapped :
          /\ log = disk[active].log /\ b = active /\ next = segs[active].next
          /\ mapped = segs[active].mapped
  OBVIOUS
<1>6. /\ b \in Nat /\ Count(log) \in Nat /\ next = b + Count(log) /\ mapped = 2 * Count(log)
  BY <1>2, <1>3, <1>4, <1>5, CountType DEF End, Neat
<1>7. next \in Nat /\ b <= next /\ mapped = 2 * (next - b)  BY ONLY <1>6
<1>8. writer'.done = <<>> /\ writer'.pc = "write" /\ writer'.batch = batch  OBVIOUS
<1>9. PICK done : done = <<>> /\ writer'.done = done  BY <1>8
<1>10. Progress(log, b, next, mapped, done)
  BY ONLY <1>6, <1>7, <1>9, ProgressNone
<1>11. Len(writer'.done) + Len(writer'.batch) <= MaxBatch
  <2>1. Len(writer'.done) = 0  BY <1>8, EmptySeq
  <2>. QED  BY <1>8, <2>1, BatchLength
<1>. QED  BY ONLY <1>1, <1>5, <1>8, <1>9, <1>10, <1>11 DEF Written

\* Nothing is written while a new segment is created.
LEMMA WrittenRotate ==
    ASSUME NEW batch \in Batches, RotateLog(batch) PROVE Written'
<1>1. writer'.done = <<>> /\ writer'.pc = "create_index" /\ writer'.batch = batch
  BY DEF RotateLog
<1>2. Len(batch) <= MaxBatch  BY BatchLength
<1>. QED  BY ONLY <1>1, <1>2 DEF Written

\* The new segment is empty.
LEMMA WrittenCreateIndex ==
    ASSUME TypeInv, Written, CreateIndex PROVE Written'
<1>. USE DEF CreateIndex
<1>1. status = "up" /\ writer.base \in DOMAIN disk /\ DOMAIN disk \subseteq Nat
  BY DEF TypeInv, TypeOK, Control
<1>2. PICK b \in Nat : b = writer.base  BY <1>1
<1>3. active' = b /\ segs'[b] = CreateSegment(b)  BY <1>2
<1>4. segs'[b].next = b /\ segs'[b].mapped = 0  BY <1>3 DEF CreateSegment
<1>5. /\ writer'.done = <<>> /\ writer'.pc = "write" /\ writer'.batch = writer.batch
      /\ Len(writer.batch) <= MaxBatch /\ writer.batch \in Seq(Msgs)
  BY DEF Written, TypeInv, TypeOK
<1>6. PICK log, mapped, done : log = disk'[b].log /\ mapped = 0 /\ done = <<>>  OBVIOUS
<1>7. b <= b /\ mapped = 2 * (b - b)  BY <1>6
<1>8. Progress(log, b, b, mapped, done)  BY ONLY <1>6, <1>7, b \in Nat, ProgressNone
<1>9. Len(writer'.done) + Len(writer'.batch) <= MaxBatch
  <2>1. Len(writer'.done) = 0 /\ Len(writer.batch) \in Nat  BY <1>5, EmptySeq, LenProperties
  <2>2. 0 + Len(writer.batch) = Len(writer.batch)  BY <2>1
  <2>. QED  BY ONLY <1>5, <2>1, <2>2
<1>. QED  BY ONLY <1>3, <1>4, <1>5, <1>6, <1>8, <1>9 DEF Written

\* The record is written where next_offset says.
LEMMA WrittenWriteRecord ==
    ASSUME TypeInv, Chained, Listed, Written, WriteRecord PROVE Written'
<1>1. /\ writer.base = active /\ status = "up" /\ active \in DOMAIN disk /\ active \in DOMAIN segs
      /\ segs[active].next \in Nat /\ Head(writer.batch) \in Msgs /\ active \in Nat
      /\ disk[active] \in File /\ disk[active].log \in Seq(Cell) /\ Len(disk[active].log) \in Nat
      /\ writer.pc = "write" /\ writer.done \in Seq(Record)
  BY WriterFacts DEF WriteRecord
<1>2. disk' = [disk EXCEPT ![active].log =
                  @ \o SubSeq(Encode(segs[active].next, Head(writer.batch)), 1, 2)]
  BY <1>1, WholeRecord DEF WriteRecord
<1>3. Extended(disk'[active].log, disk[active].log, segs[active].next, Head(writer.batch), 2)
  <2>1. 2 \in 0 .. 2 /\ writer.pc = "write"  BY <1>1
  <2>. QED  BY ONLY TypeInv, <1>2, <2>1, TypeWrite
<1>4. /\ UNCHANGED <<segs, active>> /\ writer'.pc = "index"
      /\ writer'.batch = writer.batch /\ writer'.done = writer.done
  BY DEF WriteRecord, TypeInv, TypeOK
<1>5. PICK log : log = disk[active].log  OBVIOUS
<1>6. PICK new : new = disk'[active].log  OBVIOUS
<1>7. PICK b, m, next : b = active /\ m = Head(writer.batch) /\ next = segs[active].next
  OBVIOUS
<1>8. PICK mapped, done : mapped = segs[active].mapped /\ done = writer.done  OBVIOUS
<1>9. /\ log \in Seq(Cell) /\ b \in Nat /\ m \in Msgs /\ next \in Nat /\ done \in Seq(Record)
      /\ Neat(log, b) /\ next = b + Count(log) /\ Extended(new, log, next, m, 2)
      /\ Progress(log, b, next, mapped, done)
  <2>1. Neat(log, b) /\ next = b + Count(log)
    BY <1>1, <1>5, <1>7 DEF Chained, Listed, End
  <2>2. Progress(log, b, next, mapped, done)
    BY <1>1, <1>5, <1>7, <1>8 DEF Written
  <2>. QED  BY ONLY <1>1, <1>3, <1>5, <1>6, <1>7, <1>8, <2>1, <2>2
<1>10. /\ new[2 * Count(log) + 1].msg = m
       /\ \A i \in 1 .. Len(log) : new[i] = log[i]
  BY ONLY <1>9, NeatGrows
<1>11. Count(log) \in Nat /\ Len(log) = 2 * Count(log)  BY <1>9, CountType DEF Neat
<1>12. next - b = Count(log) /\ 2 * (next - b) <= Len(log)
  <2>1. next - b = Count(log)  BY ONLY <1>9, <1>11
  <2>. QED  BY ONLY <1>11, <2>1
<1>13. Progress(new, b, next, mapped, done)
  BY ONLY <1>9, <1>10, <1>12, ProgressGrows
<1>14. new[2 * (next - b) + 1].msg = m  BY ONLY <1>10, <1>12
<1>15. Len(writer.done) + Len(writer.batch) <= MaxBatch  BY <1>1 DEF Written
<1>. QED  BY ONLY <1>4, <1>6, <1>7, <1>8, <1>13, <1>14, <1>15 DEF Written

\* The record is counted.
LEMMA WrittenIndexRecord ==
    ASSUME TypeInv, Written, IndexRecord PROVE Written'
<1>. USE DEF IndexRecord
<1>1. /\ writer.base = active /\ status = "up" /\ active \in DOMAIN disk /\ active \in DOMAIN segs
      /\ segs[active].next \in Nat /\ disk[active] \in File /\ segs[active] \in Segment
      /\ active \in Nat /\ writer.batch \in Seq(Msgs) /\ writer.done \in Seq(Record)
      /\ Head(writer.batch) \in Msgs /\ Len(writer.batch) >= 1 /\ writer.pc = "index"
  BY WriterFacts
<1>2. disk'[active].log = disk[active].log /\ UNCHANGED active  BY <1>1 DEF File
<1>3. segs'[active].next = segs[active].next + 1 /\ segs'[active].mapped = segs[active].mapped
  BY <1>1 DEF Segment
<1>4. PICK rec : rec = [offset |-> segs[active].next, msg |-> Head(writer.batch)]  OBVIOUS
<1>5. /\ writer'.pc \in {"write", "sync"} /\ writer'.batch = Tail(writer.batch)
      /\ writer'.done = Append(writer.done, rec)
  BY <1>1, <1>4 DEF TypeInv, TypeOK
<1>6. PICK log, b, next, mapped, done :
          /\ log = disk[active].log /\ b = active /\ next = segs[active].next
          /\ mapped = segs[active].mapped /\ done = writer.done
  OBVIOUS
<1>7. /\ b \in Nat /\ next \in Nat /\ done \in Seq(Record) /\ rec \in Record
      /\ Progress(log, b, next, mapped, done)
  BY <1>1, <1>4, <1>6 DEF Written, Record
<1>8. rec = RecordIn(log, b, next)
  BY <1>1, <1>4, <1>6 DEF Written, RecordIn
<1>9. Progress(log, b, next + 1, mapped, Append(done, rec))
  BY ONLY <1>7, <1>8, ProgressMore
<1>10. /\ Len(writer'.done) + Len(writer'.batch) <= MaxBatch /\ writer'.done # <<>>
  <2>1. PICK d \in Nat, k \in Nat : d = Len(done) /\ k = Len(writer.batch) /\ k >= 1
    BY <1>1, <1>7, LenProperties
  <2>2. Len(writer'.done) = d + 1  BY <1>5, <1>6, <1>7, <2>1, AppendProperties
  <2>3. Len(writer'.batch) = k - 1
    <3>1. writer.batch # <<>>  BY <1>1, EmptySeq
    <3>. QED  BY <1>1, <1>5, <2>1, <3>1, HeadTailProperties
  <2>4. d + k <= MaxBatch  BY <1>1, <1>6, <2>1 DEF Written
  <2>5. Len(<<>>) = 0  OBVIOUS
  <2>6. d + 1 + (k - 1) = d + k /\ d + 1 # 0  OBVIOUS
  <2>. QED  BY ONLY <2>2, <2>3, <2>4, <2>5, <2>6
<1>. QED  BY ONLY <1>2, <1>3, <1>5, <1>6, <1>9, <1>10 DEF Written

\* What an append has written is where its progress says, after every step.
LEMMA WrittenStep ==
    ASSUME TypeInv, LogInv, WrittenInv, [Next]_vars
    PROVE  WrittenInv'
<1>. SUFFICES ASSUME failures' = 0 PROVE Written'  BY DEF WrittenInv
<1>1. ASSUME failures' = failures PROVE Written /\ Chained /\ (status = "up" => Listed)
  BY <1>1 DEF LogInv, WrittenInv
<1>2. ASSUME Fail PROVE FALSE
  BY <1>2 DEF Fail, TypeInv, TypeOK
<1>3. ASSUME writer'.pc = "idle" PROVE Written'  BY <1>3 DEF Written
<1>4. ASSUME NEW batch \in Batches, BeginAppend(batch) PROVE Written'
  <2>1. Chained /\ Listed  BY <1>1, <1>4 DEF BeginAppend, CanAppend
  <2>. QED  BY <1>4, <2>1, WrittenBegin
<1>5. ASSUME NEW batch \in Batches, RotateLog(batch) PROVE Written'
  BY <1>5, WrittenRotate
<1>6. CASE CreateIndex
  <2>1. Written  BY <1>1, <1>6 DEF CreateIndex
  <2>. QED  BY <1>6, <2>1, WrittenCreateIndex
<1>7. CASE WriteRecord
  <2>1. status = "up"  BY <1>7, WriterFacts DEF WriteRecord
  <2>2. Written /\ Chained /\ Listed  BY <1>1, <1>7, <2>1 DEF WriteRecord
  <2>. QED  BY <1>7, <2>2, WrittenWriteRecord
<1>8. CASE IndexRecord
  <2>1. Written  BY <1>1, <1>8 DEF IndexRecord
  <2>. QED  BY <1>8, <2>1, WrittenIndexRecord
<1>9. CASE SyncLog
  <2>1. writer'.pc = "idle"  BY <1>9, IdleType DEF SyncLog
  <2>. QED  BY <1>3, <2>1
<1>10. CASE CreateIndexFails \/ WriteRecordFails \/ IndexRecordFails \/ SyncLogFails
  BY <1>2, <1>10 DEF CreateIndexFails, WriteRecordFails, IndexRecordFails, SyncLogFails
<1>11. CASE Flush
  <2>1. writer'.pc = "idle"  BY <1>11 DEF Flush
  <2>. QED  BY <1>3, <2>1
<1>12. CASE Crash
  <2>1. writer'.pc = "idle"  BY <1>12, IdleType DEF Crash
  <2>. QED  BY <1>3, <2>1
<1>13. CASE Open
  <2>1. writer'.pc = "idle"  BY <1>13 DEF Open, TypeInv, Control
  <2>. QED  BY <1>3, <2>1
<1>14. ASSUME NEW b \in DOMAIN disk, LoseTail(b) PROVE Written'
  <2>1. writer'.pc = "idle"  BY <1>14 DEF LoseTail, TypeInv, Control
  <2>. QED  BY <1>3, <2>1
<1>15. CASE UNCHANGED vars
  <2>1. Written  BY <1>1, <1>15 DEF vars
  <2>. QED  BY <1>15, <2>1 DEF vars, Written
<1>. QED
  BY <1>4, <1>5, <1>6, <1>7, <1>8, <1>9, <1>10, <1>11, <1>12, <1>13, <1>14, <1>15 DEF Next

\* Files that make up one log, as LogInv says of the files of the partition:
\* the same with the files as a parameter.
EndIn(d, b) == b + Count(d[b].log)

LastIn(d, b) == b \in DOMAIN d /\ \A c \in DOMAIN d : c <= b

OneLog(d) ==
    /\ DOMAIN d \subseteq Nat /\ 0 \in DOMAIN d
    /\ \A b \in DOMAIN d : d[b].log \in Seq(Cell) /\ Neat(d[b].log, b)
    /\ \A b \in DOMAIN d : LastIn(d, b) \/ (b < EndIn(d, b) /\ EndIn(d, b) \in DOMAIN d)
    /\ \A b, c \in DOMAIN d : b < c => EndIn(d, b) <= c

\* The file an offset is in, the record there, and the first m records.
FileOf(d, o) == CHOOSE b \in DOMAIN d : b <= o /\ o < EndIn(d, b)
Stored(d, o) == RecordIn(d[FileOf(d, o)].log, FileOf(d, o), o)
StoredTo(d, m) == [i \in 1 .. m |-> Stored(d, i - 1)]

\* The types of the numbers involved.
LEMMA OneLogFacts ==
    ASSUME NEW d, OneLog(d), NEW b \in DOMAIN d
    PROVE  /\ b \in Nat /\ Count(d[b].log) \in Nat /\ EndIn(d, b) \in Nat /\ b <= EndIn(d, b)
           /\ d[b].log \in Seq(Cell) /\ Neat(d[b].log, b)
           /\ Len(d[b].log) = 2 * Count(d[b].log)
<1>1. b \in Nat /\ d[b].log \in Seq(Cell) /\ Neat(d[b].log, b)  BY DEF OneLog
<1>2. Count(d[b].log) \in Nat  BY <1>1, CountType
<1>3. Len(d[b].log) = 2 * Count(d[b].log)  BY <1>1 DEF Neat
<1>4. EndIn(d, b) \in Nat /\ b <= EndIn(d, b)  BY <1>1, <1>2 DEF EndIn
<1>. QED  BY <1>1, <1>2, <1>3, <1>4

\* An offset is in one file at most.
LEMMA FileOfIs ==
    ASSUME NEW d, OneLog(d), NEW b \in DOMAIN d, NEW o \in Nat, b <= o, o < EndIn(d, b)
    PROVE  FileOf(d, o) = b
<1>1. ASSUME NEW c \in DOMAIN d, c <= o, o < EndIn(d, c) PROVE c = b
  <2>1. b \in Nat /\ c \in Nat /\ EndIn(d, b) \in Nat /\ EndIn(d, c) \in Nat  BY OneLogFacts
  <2>2. (b < c => EndIn(d, b) <= c) /\ (c < b => EndIn(d, c) <= b)  BY DEF OneLog
  <2>. QED  BY <1>1, <2>1, <2>2
<1>. QED  BY <1>1, Zenon DEF FileOf

\* An offset below the end of some file is in some file.
LEMMA FileExists ==
    ASSUME NEW d, OneLog(d), NEW e \in DOMAIN d, NEW o \in Nat, o < EndIn(d, e)
    PROVE  \E b \in DOMAIN d : b <= o /\ o < EndIn(d, b)
<1>. DEFINE S == {x \in Nat : \E b \in DOMAIN d : b <= o /\ x = o - b}
<1>1. PICK x \in S : \A y \in S : x <= y
  <2>1. S \in SUBSET Nat  OBVIOUS
  <2>2. o - 0 \in Nat /\ 0 <= o /\ 0 \in DOMAIN d  BY DEF OneLog
  <2>3. S # {}  BY <2>2
  <2>. HIDE DEF S
  <2>. QED  BY <2>1, <2>3, LeastNatural
<1>2. PICK b \in DOMAIN d : b <= o /\ x = o - b  BY <1>1
<1>3. ASSUME ~(o < EndIn(d, b)) PROVE FALSE
  <2>1. b \in Nat /\ EndIn(d, b) \in Nat /\ e \in Nat /\ EndIn(d, e) \in Nat  BY OneLogFacts
  <2>2. b < e
    <3>1. CASE e = b  BY <1>3, <3>1
    <3>2. CASE e < b
      <4>1. EndIn(d, e) <= b  BY <3>2 DEF OneLog
      <4>. QED  BY <1>2, <2>1, <4>1
    <3>. QED  BY <2>1, <3>1, <3>2
  <2>3. ~LastIn(d, b)  BY <2>1, <2>2 DEF LastIn
  <2>4. b < EndIn(d, b) /\ EndIn(d, b) \in DOMAIN d  BY <2>3 DEF OneLog
  <2>5. PICK c \in DOMAIN d : c = EndIn(d, b)  BY <2>4
  <2>6. c <= o /\ c \in Nat /\ o - c \in Nat  BY <1>3, <2>1, <2>5
  <2>7. o - c \in S  BY <2>6
  <2>8. x <= o - c  BY <1>1, <2>7
  <2>. QED  BY <1>2, <2>1, <2>4, <2>5, <2>6, <2>8
<1>. QED  BY <1>2, <1>3

\* The record of an offset, and its type.
LEMMA StoredIs ==
    ASSUME NEW d, OneLog(d), NEW b \in DOMAIN d, NEW o \in Nat, b <= o, o < EndIn(d, b)
    PROVE  Stored(d, o) = RecordIn(d[b].log, b, o) /\ Stored(d, o) \in Record
<1>1. Stored(d, o) = RecordIn(d[b].log, b, o)  BY FileOfIs DEF Stored
<1>2. PICK log \in Seq(Cell) : log = d[b].log  BY OneLogFacts
<1>3. b \in Nat /\ Neat(log, b) /\ o < b + Count(log)  BY <1>2, OneLogFacts DEF EndIn
<1>4. RecordIn(log, b, o) \in Record  BY <1>3, RecordInType
<1>. QED  BY <1>1, <1>2, <1>4

\* The type and the elements of the first m records.
LEMMA StoredSeq ==
    ASSUME NEW d, OneLog(d), NEW e \in DOMAIN d, NEW m \in Nat, m <= EndIn(d, e)
    PROVE  /\ StoredTo(d, m) \in Seq(Record) /\ Len(StoredTo(d, m)) = m
           /\ \A i \in 1 .. m : StoredTo(d, m)[i] = Stored(d, i - 1)
<1>1. ASSUME NEW i \in 1 .. m PROVE Stored(d, i - 1) \in Record
  <2>1. PICK o \in Nat : o = i - 1  OBVIOUS
  <2>2. EndIn(d, e) \in Nat  BY OneLogFacts
  <2>3. o < EndIn(d, e)  BY <2>1, <2>2
  <2>4. PICK b \in DOMAIN d : b <= o /\ o < EndIn(d, b)  BY <2>3, FileExists
  <2>. QED  BY <2>1, <2>4, StoredIs
<1>2. StoredTo(d, m) \in [1 .. m -> Record]  BY <1>1 DEF StoredTo
<1>3. StoredTo(d, m) \in Seq(Record)  BY <1>2, IsASeq
<1>4. DOMAIN StoredTo(d, m) = 1 .. m  BY DEF StoredTo
<1>5. Len(StoredTo(d, m)) = m  BY <1>3, <1>4, LenProperties
<1>. QED  BY <1>3, <1>5 DEF StoredTo

\* A sequence of records that follows the first m of them in the files.
LEMMA StoredJoin ==
    ASSUME NEW d, OneLog(d), NEW e \in DOMAIN d, NEW m \in Nat, NEW s \in Seq(Record),
           m + Len(s) <= EndIn(d, e),
           \A i \in 1 .. Len(s) : s[i] = Stored(d, m + (i - 1))
    PROVE  StoredTo(d, m) \o s = StoredTo(d, m + Len(s))
<1>1. PICK k \in Nat : k = Len(s)  BY LenProperties
<1>2. PICK n \in Nat : n = m + k  OBVIOUS
<1>3. EndIn(d, e) \in Nat  BY OneLogFacts
<1>4. m <= EndIn(d, e) /\ n <= EndIn(d, e)  BY <1>1, <1>2, <1>3
<1>5. PICK t \in Seq(Record) : /\ t = StoredTo(d, m) /\ Len(t) = m
                               /\ \A i \in 1 .. m : t[i] = Stored(d, i - 1)
  BY <1>4, StoredSeq
<1>6. PICK u \in Seq(Record) : /\ u = StoredTo(d, n) /\ Len(u) = n
                               /\ \A i \in 1 .. n : u[i] = Stored(d, i - 1)
  BY <1>4, StoredSeq
<1>7. PICK v : v = t \o s  OBVIOUS
<1>8. /\ v \in Seq(Record) /\ Len(v) = n
      /\ \A i \in 1 .. n : v[i] = IF i <= m THEN t[i] ELSE s[i - m]
  <2>1. /\ t \o s \in Seq(Record) /\ Len(t \o s) = Len(t) + Len(s)
        /\ \A i \in 1 .. Len(t) + Len(s) :
              (t \o s)[i] = IF i <= Len(t) THEN t[i] ELSE s[i - Len(t)]
    BY ONLY t \in Seq(Record), s \in Seq(Record), ConcatProperties
  <2>. QED  BY ONLY <1>1, <1>2, <1>5, <1>7, <2>1
<1>9. ASSUME NEW i \in 1 .. n PROVE v[i] = u[i]
  <2>1. u[i] = Stored(d, i - 1)  BY <1>6
  <2>2. CASE i <= m
    <3>1. i \in 1 .. m  BY <2>2
    <3>. QED  BY <1>5, <1>8, <2>1, <2>2, <3>1
  <2>3. CASE ~(i <= m)
    <3>1. i - m \in 1 .. Len(s) /\ m + ((i - m) - 1) = i - 1  BY <1>1, <1>2, <2>3
    <3>2. s[i - m] = Stored(d, m + ((i - m) - 1))  BY <3>1
    <3>. QED  BY <1>8, <2>1, <2>3, <3>1, <3>2
  <2>. QED  BY <2>2, <2>3
<1>10. v = u
  <2>1. Len(v) = Len(u) /\ \A i \in 1 .. Len(v) : v[i] = u[i]  BY <1>6, <1>8, <1>9
  <2>. QED  BY <1>8, <2>1, SeqEqual
<1>. QED  BY <1>1, <1>2, <1>5, <1>6, <1>7, <1>10

\* Of each file a first part is shown, and the whole of each file but the last.
Shows(d, v) ==
    \A b \in DOMAIN d :
        /\ v[b] \in Seq(Record) /\ Len(v[b]) <= Count(d[b].log)
        /\ \A i \in 1 .. Len(v[b]) : v[b][i] = RecordIn(d[b].log, b, b + (i - 1))
        /\ LastIn(d, b) \/ Len(v[b]) = Count(d[b].log)

\* What is shown of the files up to b.
ShownTo(d, v, b) == StoredTo(d, b + Len(v[b]))

\* One step of Contents, with `upTo' for the files before.
JoinStep(upTo, d, v, b) ==
    LET before == {c \in DOMAIN d : c < b}
        prev   == CHOOSE c \in before : \A e \in before : e <= c
    IN  IF before = {} THEN v[b] ELSE upTo[prev] \o v[b]

\* The steps for the files before b are right.
JoinedBelow(upTo, d, v, b) ==
    \A c \in DOMAIN d : c < b => upTo[c] = ShownTo(d, v, c)

\* The file before b ends where b starts.
LEMMA FileBefore ==
    ASSUME NEW d, OneLog(d), NEW b \in DOMAIN d, b # 0
    PROVE  \E c \in DOMAIN d : /\ c < b /\ EndIn(d, c) = b
                               /\ \A e \in DOMAIN d : e < b => e <= c
<1>1. b \in Nat /\ EndIn(d, b) \in Nat /\ b <= EndIn(d, b)  BY OneLogFacts
<1>2. PICK o \in Nat : o = b - 1  BY <1>1
<1>3. o < EndIn(d, b)  BY <1>1, <1>2
<1>4. PICK c \in DOMAIN d : c <= o /\ o < EndIn(d, c)  BY <1>3, FileExists
<1>5. c \in Nat /\ EndIn(d, c) \in Nat  BY OneLogFacts
<1>6. c < b  BY <1>1, <1>2, <1>4, <1>5
<1>7. EndIn(d, c) <= b  BY <1>6 DEF OneLog
<1>8. EndIn(d, c) = b  BY <1>1, <1>2, <1>4, <1>5, <1>7
<1>9. ASSUME NEW e \in DOMAIN d, e < b PROVE e <= c
  <2>1. e \in Nat  BY OneLogFacts
  <2>2. c < e => EndIn(d, c) <= e  BY DEF OneLog
  <2>. QED  BY <1>1, <1>5, <1>8, <1>9, <2>1, <2>2
<1>. QED  BY <1>6, <1>8, <1>9

\* What is shown of a file follows what is in the files before it.
LEMMA ShownJoin ==
    ASSUME NEW d, OneLog(d), NEW v, Shows(d, v), NEW b \in DOMAIN d
    PROVE  StoredTo(d, b) \o v[b] = ShownTo(d, v, b)
<1>1. PICK s \in Seq(Record) : /\ s = v[b] /\ Len(s) <= Count(d[b].log)
                               /\ \A i \in 1 .. Len(s) : s[i] = RecordIn(d[b].log, b, b + (i - 1))
  BY DEF Shows
<1>2. b \in Nat /\ Count(d[b].log) \in Nat /\ EndIn(d, b) = b + Count(d[b].log)
  BY OneLogFacts DEF EndIn
<1>3. Len(s) \in Nat  BY LenProperties
<1>4. b + Len(s) <= EndIn(d, b)  BY <1>1, <1>2, <1>3
<1>5. ASSUME NEW i \in 1 .. Len(s) PROVE s[i] = Stored(d, b + (i - 1))
  <2>1. PICK o \in Nat : o = b + (i - 1)  BY <1>2
  <2>2. b <= o /\ o < EndIn(d, b)  BY <1>2, <1>3, <1>4, <2>1
  <2>3. Stored(d, o) = RecordIn(d[b].log, b, o)  BY <2>2, StoredIs
  <2>. QED  BY <1>1, <2>1, <2>3
<1>6. StoredTo(d, b) \o s = StoredTo(d, b + Len(s))
  BY <1>2, <1>4, <1>5, StoredJoin
<1>. QED  BY <1>1, <1>6 DEF ShownTo

\* A step is right when those before it are.
LEMMA JoinStepIs ==
    ASSUME NEW d, OneLog(d), NEW v, Shows(d, v), NEW b \in DOMAIN d,
           NEW upTo, JoinedBelow(upTo, d, v, b)
    PROVE  JoinStep(upTo, d, v, b) = ShownTo(d, v, b)
<1>1. \A c \in DOMAIN d : c \in Nat  BY OneLogFacts
<1>2. CASE b = 0
  <2>1. {c \in DOMAIN d : c < b} = {}  BY <1>1, <1>2
  <2>2. JoinStep(upTo, d, v, b) = v[b]  BY <2>1 DEF JoinStep
  <2>3. StoredTo(d, b) = <<>>
    <3>1. StoredTo(d, b) = [i \in {} |-> Stored(d, i - 1)]  BY <1>2 DEF StoredTo
    <3>. QED  BY <3>1
  <2>4. PICK s \in Seq(Record) : s = v[b]  BY DEF Shows
  <2>5. <<>> \o s = s  BY ConcatEmptySeq
  <2>. QED  BY <2>2, <2>3, <2>4, <2>5, ShownJoin
<1>3. CASE b # 0
  <2>1. PICK c \in DOMAIN d : /\ c < b /\ EndIn(d, c) = b
                              /\ \A e \in DOMAIN d : e < b => e <= c
    BY <1>3, FileBefore
  <2>. DEFINE before == {x \in DOMAIN d : x < b}
  <2>2. c \in before /\ \A e \in before : e <= c  BY <2>1
  <2>3. \A x \in before : x \in Nat  BY <1>1
  <2>. HIDE DEF before
  <2>4. ASSUME NEW x \in before, \A e \in before : e <= x PROVE x = c
    BY <2>2, <2>3, <2>4
  <2>5. (CHOOSE x \in before : \A e \in before : e <= x) = c
    BY <2>2, <2>4, Zenon
  <2>6. before # {}  BY <2>2
  <2>7. JoinStep(upTo, d, v, b) = upTo[c] \o v[b]
    BY <2>5, <2>6, Zenon DEF JoinStep, before
  <2>8. ShownTo(d, v, c) = StoredTo(d, b)
    <3>1. ~LastIn(d, c)  BY <1>1, <2>1 DEF LastIn
    <3>2. Len(v[c]) = Count(d[c].log)  BY <3>1 DEF Shows
    <3>. QED  BY <2>1, <3>2 DEF ShownTo, EndIn
  <2>9. upTo[c] = ShownTo(d, v, c)  BY <2>1 DEF JoinedBelow
  <2>. QED  BY <2>7, <2>8, <2>9, ShownJoin
<1>. QED  BY <1>2, <1>3

\* A function that takes these steps gives what is shown up to each file.
LEMMA JoinedIs ==
    ASSUME NEW d, OneLog(d), NEW v, Shows(d, v), NEW f,
           \A b \in DOMAIN d : f[b] = JoinStep(f, d, v, b)
    PROVE  \A b \in DOMAIN d : f[b] = ShownTo(d, v, b)
<1>. DEFINE S == {b \in Nat : b \in DOMAIN d /\ f[b] # ShownTo(d, v, b)}
<1>1. \A b \in DOMAIN d : b \in Nat  BY OneLogFacts
<1>2. S = {}
  <2>. SUFFICES ASSUME S # {} PROVE FALSE  OBVIOUS
  <2>1. PICK b \in S : \A c \in S : b <= c
    <3>1. S \in SUBSET Nat  OBVIOUS
    <3>. HIDE DEF S
    <3>. QED  BY <3>1, LeastNatural
  <2>2. b \in DOMAIN d /\ f[b] # ShownTo(d, v, b)  BY <2>1
  <2>3. ASSUME NEW c \in DOMAIN d, c < b PROVE f[c] = ShownTo(d, v, c)
    <3>1. c \in Nat /\ b \in Nat  BY <1>1, <2>2
    <3>2. c \notin S  BY <2>1, <2>3, <3>1
    <3>. QED  BY <3>1, <3>2
  <2>4. JoinedBelow(f, d, v, b)  BY <2>3 DEF JoinedBelow
  <2>5. JoinStep(f, d, v, b) = ShownTo(d, v, b)  BY <2>2, <2>4, JoinStepIs
  <2>. QED  BY <2>2, <2>5
<1>. QED  BY <1>1, <1>2

\* The files and the append in progress, as long as no I/O call failed.
Whole ==
    /\ TypeInv /\ OrderInv /\ Chained /\ Written
    /\ status = "up" => Listed

\* The files of the partition make up one log.
LEMMA WholeLog == ASSUME Whole PROVE OneLog(disk) /\ \E b : LastIn(disk, b)
<1>. USE DEF Whole
<1>1. DOMAIN disk \subseteq Nat /\ \A b \in DOMAIN disk : disk[b].log \in Seq(Cell)
  BY FileFacts DEF TypeInv, TypeOK
<1>2. \E b : LastIn(disk, b)  BY DEF TypeInv, Control, LastIn
<1>3. \A b : End(b) = EndIn(disk, b)  BY DEF End, EndIn
<1>. QED  BY <1>1, <1>2, <1>3 DEF Chained, OneLog, LastIn

\* How many cells of a file are shown.
ShownCells(b) ==
    IF b \in DOMAIN segs THEN segs[b].mapped
    ELSE IF status = "up" THEN 0
    ELSE Len(disk[b].log)

\* The records of the first part of a file of whole records.
LEMMA NeatPart ==
    ASSUME NEW log \in Seq(Cell), NEW b \in Nat, Neat(log, b), NEW k \in 0 .. Count(log),
           NEW s, s = RecordsFrom(SubSeq(log, 1, 2 * k), 0)
    PROVE  /\ s \in Seq(Record) /\ Len(s) = k
           /\ \A i \in 1 .. k : s[i] = RecordIn(log, b, b + (i - 1))
<1>1. Count(log) \in Nat /\ Len(log) = 2 * Count(log) /\ k \in Nat  BY CountType DEF Neat
<1>2. PICK n \in Nat : n = 2 * k  BY <1>1
<1>3. n <= Len(log) /\ Len(log) \in Nat  BY <1>1, <1>2
<1>4. PICK sub : sub = SubSeq(log, 1, n)  OBVIOUS
<1>5. sub \in Seq(Cell) /\ Len(sub) = n /\ \A i \in 1 .. n : sub[i] = log[i]
  <2>1. 1 \in 1 .. Len(log) + 1 /\ n \in 1 - 1 .. Len(log)  BY <1>3
  <2>2. /\ SubSeq(log, 1, n) \in Seq(Cell) /\ Len(SubSeq(log, 1, n)) = n - 1 + 1
        /\ \A i \in 1 .. n - 1 + 1 : SubSeq(log, 1, n)[i] = log[1 + i - 1]
    BY <2>1, SubSeqProperties
  <2>3. n - 1 + 1 = n /\ \A i \in 1 .. n : 1 + i - 1 = i  OBVIOUS
  <2>. QED  BY ONLY <1>4, <2>2, <2>3
<1>6. Count(sub) = k  BY <1>1, <1>2, <1>5, CountIs
<1>7. ASSUME NEW i \in 0 .. k - 1
      PROVE  Decodes(sub, 2 * i) /\ sub[2 * i + 1].offset = b + i
  <2>1. i \in 0 .. Count(log) - 1  BY <1>1
  <2>2. Decodes(log, 2 * i) /\ log[2 * i + 1].offset = b + i  BY <2>1 DEF Neat
  <2>3. PICK j \in Nat : j = 2 * i  BY <1>1
  <2>4. j + 2 <= n /\ j + 1 \in 1 .. n /\ j + 2 \in 1 .. n  BY <1>1, <1>2, <2>3
  <2>5. sub[j + 1] = log[j + 1] /\ sub[j + 2] = log[j + 2]  BY <1>5, <2>4
  <2>6. Decodes(log, j)  BY <2>2, <2>3
  <2>7. Decodes(sub, j)  BY ONLY <1>5, <2>4, <2>5, <2>6 DEF Decodes
  <2>. QED  BY ONLY <2>2, <2>3, <2>5, <2>7
<1>8. Neat(sub, b)  BY ONLY <1>2, <1>5, <1>6, <1>7 DEF Neat
<1>9. s = RecordsFrom(sub, 2 * 0)  BY <1>2, <1>4
<1>10. 0 \in 0 .. Count(sub) /\ Count(sub) - 0 = k  BY <1>1, <1>6
<1>11. /\ s \in Seq(Record) /\ Len(s) = k
       /\ \A i \in 1 .. k : s[i] = RecordIn(sub, b, b + 0 + i - 1)
  <2>1. /\ RecordsFrom(sub, 2 * 0) \in Seq(Record)
        /\ Len(RecordsFrom(sub, 2 * 0)) = Count(sub) - 0
        /\ \A i \in 1 .. Count(sub) - 0 :
              RecordsFrom(sub, 2 * 0)[i] = RecordIn(sub, b, b + 0 + i - 1)
    BY <1>5, <1>8, <1>10, NeatRecords
  <2>. QED  BY ONLY <1>9, <1>10, <2>1
<1>12. ASSUME NEW i \in 1 .. k PROVE s[i] = RecordIn(log, b, b + (i - 1))
  <2>1. PICK o \in Nat : o = b + (i - 1)  BY <1>1
  <2>2. b + 0 + i - 1 = o /\ 2 * (o - b) + 1 \in 1 .. n  BY <1>1, <1>2, <2>1
  <2>3. PICK j \in 1 .. n : j = 2 * (o - b) + 1  BY <2>2
  <2>4. sub[j] = log[j]  BY <1>5
  <2>5. RecordIn(sub, b, o) = RecordIn(log, b, o)  BY <2>3, <2>4 DEF RecordIn
  <2>. QED  BY <1>11, <2>1, <2>2, <2>5
<1>. QED  BY <1>11, <1>12

\* Whole records are shown, of every file but the last all of them.
LEMMA ShownWhole ==
    ASSUME Whole, NEW b \in DOMAIN disk
    PROVE  \E k \in 0 .. Count(disk[b].log) :
              /\ ShownCells(b) = 2 * k
              /\ LastIn(disk, b) \/ k = Count(disk[b].log)
<1>. USE DEF Whole
<1>1. /\ b \in Nat /\ Count(disk[b].log) \in Nat /\ Len(disk[b].log) = 2 * Count(disk[b].log)
  BY WholeLog, OneLogFacts
<1>2. Count(disk[b].log) \in 0 .. Count(disk[b].log) /\ 0 \in 0 .. Count(disk[b].log)  BY <1>1
<1>3. CASE status # "up"
  <2>1. b \notin DOMAIN segs
    <3>1. segs = <<>>  BY <1>3 DEF TypeInv, Control
    <3>2. DOMAIN <<>> = {}  OBVIOUS
    <3>. QED  BY <3>1, <3>2
  <2>. QED  BY <1>1, <1>2, <1>3, <2>1 DEF ShownCells
<1>4. CASE status = "up" /\ b \notin DOMAIN segs
  <2>1. disk[b].log = <<>>  BY <1>4 DEF OrderInv, OpenOrder
  <2>2. Count(disk[b].log) = 0  BY <2>1, NeatEmpty
  <2>3. ShownCells(b) = 2 * 0  BY <1>4 DEF ShownCells
  <2>. QED  BY <1>2, <2>2, <2>3
<1>5. CASE status = "up" /\ b \in DOMAIN segs /\ (b # active \/ writer.pc \in {"idle", "create_index"})
  <2>1. segs[b].mapped = Len(disk[b].log)  BY <1>5 DEF Listed
  <2>. QED  BY <1>1, <1>2, <1>5, <2>1 DEF ShownCells
<1>6. CASE status = "up" /\ b = active /\ b \in DOMAIN segs /\ writer.pc \in {"write", "index", "sync"}
  <2>1. DOMAIN disk = DOMAIN segs  BY <1>6 DEF Listed
  <2>2. LastIn(disk, b)  BY <1>6, <2>1 DEF LastIn, OrderInv, OpenOrder
  <2>3. PICK n \in Nat : n = Len(writer.done)  BY WriterFacts, LenProperties, <1>6
  <2>4. PICK next \in Nat : next = segs[active].next  BY WriterFacts, <1>6
  <2>5. b + n <= next /\ segs[b].mapped = 2 * (next - n - b)
    BY <1>6, <2>3, <2>4 DEF Written, Progress
  <2>6. next <= b + Count(disk[b].log)
    <3>1. next = End(active) \/ next + 1 = End(active)  BY <1>6, <2>4 DEF Listed
    <3>2. End(active) = b + Count(disk[b].log)  BY <1>6 DEF End
    <3>. QED  BY <1>1, <3>1, <3>2
  <2>7. PICK k \in 0 .. Count(disk[b].log) : k = next - n - b  BY <1>1, <2>5, <2>6
  <2>8. ShownCells(b) = 2 * k  BY <1>6, <2>5, <2>7 DEF ShownCells
  <2>. QED  BY <2>2, <2>7, <2>8
<1>7. writer.pc \in {"idle", "create_index", "write", "index", "sync"}  BY DEF TypeInv, TypeOK
<1>. QED  BY <1>3, <1>4, <1>5, <1>6, <1>7

\* What is shown of a file.
LEMMA VisibleIs ==
    ASSUME Whole, NEW b \in DOMAIN disk
    PROVE  /\ Visible(b) \in Seq(Record) /\ Len(Visible(b)) <= Count(disk[b].log)
           /\ ShownCells(b) = 2 * Len(Visible(b))
           /\ \A i \in 1 .. Len(Visible(b)) : Visible(b)[i] = RecordIn(disk[b].log, b, b + (i - 1))
           /\ LastIn(disk, b) \/ Len(Visible(b)) = Count(disk[b].log)
<1>1. PICK log : log = disk[b].log  OBVIOUS
<1>2. log \in Seq(Cell) /\ b \in Nat /\ Neat(log, b) /\ Count(log) \in Nat
  BY <1>1, WholeLog, OneLogFacts
<1>3. PICK k \in 0 .. Count(log) :
          ShownCells(b) = 2 * k /\ (LastIn(disk, b) \/ k = Count(log))
  BY <1>1, ShownWhole
<1>4. PICK s : s = RecordsFrom(SubSeq(log, 1, 2 * k), 0)  OBVIOUS
<1>5. Visible(b) = s  BY <1>1, <1>3, <1>4, Zenon DEF Visible, ShownCells
<1>6. /\ s \in Seq(Record) /\ Len(s) = k
      /\ \A i \in 1 .. k : s[i] = RecordIn(log, b, b + (i - 1))
  BY ONLY <1>2, <1>4, k \in 0 .. Count(log), NeatPart
<1>7. k <= Count(log)  BY <1>2
<1>. QED  BY ONLY <1>1, <1>3, <1>5, <1>6, <1>7

\* What the last file shows is the end of what is shown.
ContentsShown ==
    \A b : LastIn(disk, b) => Contents = StoredTo(disk, b + Len(Visible(b)))

\* The contents are the first records of the files.
LEMMA ContentsIs == Whole => ContentsShown
<1>. SUFFICES ASSUME Whole, NEW top, LastIn(disk, top)
              PROVE  Contents = StoredTo(disk, top + Len(Visible(top)))
  BY DEF ContentsShown
<1>1. OneLog(disk) /\ top \in DOMAIN disk  BY WholeLog DEF LastIn
<1>2. PICK v : v = [b \in DOMAIN disk |-> Visible(b)]  OBVIOUS
<1>3. Shows(disk, v)  BY <1>1, <1>2, VisibleIs DEF Shows
<1>. DEFINE Step(s, b) ==
              LET before == {c \in DOMAIN disk : c < b}
                  prev   == CHOOSE c \in before : \A e \in before : e <= c
              IN  IF before = {} THEN Visible(b) ELSE s[prev] \o Visible(b)
            P(s) == s = [b \in DOMAIN disk |-> Step(s, b)]
            Top == CHOOSE b \in DOMAIN disk : \A c \in DOMAIN disk : c <= b
<1>4. Contents = (CHOOSE s : P(s))[Top]  BY Zenon DEF Contents
<1>5. ASSUME NEW s, NEW b \in DOMAIN disk PROVE Step(s, b) = JoinStep(s, disk, v, b)
  <2>1. v[b] = Visible(b)  BY <1>2
  <2>. DEFINE before == {c \in DOMAIN disk : c < b}
              prev == CHOOSE c \in before : \A e \in before : e <= c
  <2>2. Step(s, b) = IF before = {} THEN Visible(b) ELSE s[prev] \o Visible(b)  OBVIOUS
  <2>3. JoinStep(s, disk, v, b) = IF before = {} THEN v[b] ELSE s[prev] \o v[b]
    BY Zenon DEF JoinStep
  <2>. HIDE DEF before, prev, Step
  <2>. QED  BY <2>1, <2>2, <2>3
<1>6. Top = top
  <2>1. ASSUME NEW b \in DOMAIN disk, \A c \in DOMAIN disk : c <= b PROVE b = top
    <3>1. b \in Nat /\ top \in Nat /\ top <= b /\ b <= top
      BY <1>1, <2>1, OneLogFacts DEF LastIn
    <3>. QED  BY <3>1
  <2>. QED  BY <2>1, Zenon DEF LastIn
<1>. HIDE DEF Step, Top
<1>7. PICK g : g = [b \in DOMAIN disk |-> ShownTo(disk, v, b)]  OBVIOUS
<1>8. P(g)
  <2>1. ASSUME NEW b \in DOMAIN disk PROVE Step(g, b) = ShownTo(disk, v, b)
    <3>1. JoinedBelow(g, disk, v, b)  BY <1>1, <1>7 DEF JoinedBelow
    <3>2. JoinStep(g, disk, v, b) = ShownTo(disk, v, b)  BY <1>1, <1>3, <3>1, JoinStepIs
    <3>. QED  BY <1>5, <3>2
  <2>. QED  BY <1>7, <2>1, Zenon
<1>9. PICK f : f = (CHOOSE s : P(s)) /\ P(f)
  <2>. HIDE DEF P
  <2>. QED  BY <1>8, Zenon
<1>10. \A b \in DOMAIN disk : f[b] = JoinStep(f, disk, v, b)  BY <1>1, <1>5, <1>9, Zenon
<1>11. f[top] = ShownTo(disk, v, top)  BY <1>1, <1>3, <1>10, JoinedIs
<1>12. ShownTo(disk, v, top) = StoredTo(disk, top + Len(Visible(top)))
  BY <1>1, <1>2 DEF ShownTo
<1>. QED  BY <1>4, <1>6, <1>9, <1>11, <1>12

\* Every file of d is a first part of the one of e with its base offset.
GrowsTo(d, e) ==
    \A b \in DOMAIN d :
        /\ b \in DOMAIN e /\ Len(d[b].log) <= Len(e[b].log)
        /\ \A i \in 1 .. Len(d[b].log) : e[b].log[i] = d[b].log[i]

\* Files that grow keep their records.
LEMMA StoredKept ==
    ASSUME NEW d, OneLog(d), NEW e, OneLog(e), GrowsTo(d, e),
           NEW c \in DOMAIN d, NEW m \in Nat, m <= EndIn(d, c)
    PROVE  StoredTo(e, m) = StoredTo(d, m)
<1>1. ASSUME NEW i \in 1 .. m PROVE Stored(e, i - 1) = Stored(d, i - 1)
  <2>1. PICK o \in Nat : o = i - 1  OBVIOUS
  <2>2. EndIn(d, c) \in Nat  BY OneLogFacts
  <2>3. o < EndIn(d, c)  BY <2>1, <2>2
  <2>4. PICK b \in DOMAIN d : b <= o /\ o < EndIn(d, b)  BY <2>3, FileExists
  <2>5. PICK n \in Nat : n = Count(d[b].log) /\ Len(d[b].log) = 2 * n  BY OneLogFacts
  <2>6. b \in DOMAIN e  BY DEF GrowsTo
  <2>7. PICK k \in Nat : k = Count(e[b].log) /\ Len(e[b].log) = 2 * k  BY <2>6, OneLogFacts
  <2>8. b \in Nat /\ n <= k
    <3>1. 2 * n <= 2 * k  BY <2>5, <2>7 DEF GrowsTo
    <3>. QED  BY <3>1, OneLogFacts
  <2>9. o < b + n /\ o < EndIn(e, b)
    <3>1. o < b + n  BY <2>4, <2>5 DEF EndIn
    <3>. QED  BY <2>7, <2>8, <3>1 DEF EndIn
  <2>10. Stored(d, o) = RecordIn(d[b].log, b, o)  BY <2>4, StoredIs
  <2>11. Stored(e, o) = RecordIn(e[b].log, b, o)  BY <2>4, <2>6, <2>9, StoredIs
  <2>12. PICK j : j = 2 * (o - b) + 1  OBVIOUS
  <2>13. j \in 1 .. Len(d[b].log)  BY <2>4, <2>5, <2>8, <2>9, <2>12
  <2>14. e[b].log[j] = d[b].log[j]  BY <2>13 DEF GrowsTo
  <2>15. RecordIn(e[b].log, b, o) = RecordIn(d[b].log, b, o)  BY <2>12, <2>14 DEF RecordIn
  <2>. QED  BY <2>1, <2>10, <2>11, <2>15
<1>. QED  BY <1>1, Zenon DEF StoredTo

\* The number m of records shown: up to where the active segment is mapped, or
\* all of them while the broker is down.
SeenIs(m) ==
    /\ m \in Nat /\ Contents = StoredTo(disk, m)
    /\ status = "up" => active \in Nat /\ active <= m /\ segs[active].mapped = 2 * (m - active)
    /\ \E e : /\ LastIn(disk, e) /\ m <= EndIn(disk, e)
              /\ status # "up" => m = EndIn(disk, e)

\* There is such a number.
LEMMA SeenExists == Whole => \E m : SeenIs(m)
<1>. SUFFICES ASSUME Whole PROVE \E m : SeenIs(m)  OBVIOUS
<1>. USE DEF Whole
<1>1. OneLog(disk)  BY WholeLog
<1>2. PICK e : LastIn(disk, e)  BY WholeLog
<1>3. e \in DOMAIN disk  BY <1>2 DEF LastIn
<1>4. PICK v : v = Len(Visible(e))  OBVIOUS
<1>5. /\ v \in Nat /\ v <= Count(disk[e].log) /\ ShownCells(e) = 2 * v
      /\ e \in Nat /\ Count(disk[e].log) \in Nat /\ EndIn(disk, e) = e + Count(disk[e].log)
      /\ Len(disk[e].log) = 2 * Count(disk[e].log)
  <2>1. Visible(e) \in Seq(Record) /\ v <= Count(disk[e].log) /\ ShownCells(e) = 2 * v
    BY <1>3, <1>4, VisibleIs
  <2>2. v \in Nat  BY <1>4, <2>1, LenProperties
  <2>. QED  BY <1>1, <1>3, <2>1, <2>2, OneLogFacts DEF EndIn
<1>6. PICK m \in Nat : m = e + v  BY <1>5
<1>7. Contents = StoredTo(disk, m)  BY <1>2, <1>4, <1>6, ContentsIs DEF ContentsShown
<1>8. m <= EndIn(disk, e)  BY <1>5, <1>6
<1>9. ASSUME status # "up" PROVE m = EndIn(disk, e)
  <2>1. e \notin DOMAIN segs
    <3>1. segs = <<>>  BY <1>9 DEF TypeInv, Control
    <3>2. DOMAIN <<>> = {}  OBVIOUS
    <3>. QED  BY <3>1, <3>2
  <2>2. 2 * v = 2 * Count(disk[e].log)  BY <1>5, <1>9, <2>1 DEF ShownCells
  <2>. QED  BY <1>5, <1>6, <2>2
<1>10. ASSUME status = "up"
       PROVE  active \in Nat /\ active <= m /\ segs[active].mapped = 2 * (m - active)
  <2>1. active \in Nat /\ active \in DOMAIN segs /\ active \in DOMAIN disk
    BY <1>10, OpenFacts
  <2>2. CASE e = active
    <3>1. segs[active].mapped = 2 * v  BY <1>5, <2>1, <2>2 DEF ShownCells
    <3>2. m - active = v /\ active <= m  BY <1>5, <1>6, <2>1, <2>2
    <3>. QED  BY <2>1, <3>1, <3>2
  <2>3. CASE e # active
    <3>1. e \notin DOMAIN segs
      <4>1. active <= e  BY <1>2, <2>1 DEF LastIn
      <4>2. e \in DOMAIN segs => e <= active  BY <1>10 DEF OrderInv, OpenOrder
      <4>. QED  BY <1>5, <2>1, <2>3, <4>1, <4>2
    <3>2. writer.pc = "create_index" /\ e = segs[active].next
      BY <1>3, <1>10, <3>1 DEF Listed, OrderInv, OpenOrder
    <3>3. segs[active].next = End(active) /\ segs[active].mapped = Len(disk[active].log)
      BY <1>10, <2>1, <3>2 DEF Listed
    <3>4. PICK k \in Nat : k = Count(disk[active].log) /\ Len(disk[active].log) = 2 * k
      BY <1>1, <2>1, OneLogFacts
    <3>5. e = active + k /\ segs[active].mapped = 2 * k  BY <3>2, <3>3, <3>4 DEF End
    <3>6. 2 * v = 0  BY <1>5, <1>10, <3>1 DEF ShownCells
    <3>7. m = active + k  BY <1>5, <1>6, <2>1, <3>5, <3>6
    <3>8. m - active = k /\ active <= m  BY <2>1, <3>7
    <3>. QED  BY <2>1, <3>5, <3>8
  <2>. QED  BY <2>2, <2>3
<1>. QED  BY <1>2, <1>6, <1>7, <1>8, <1>9, <1>10 DEF SeenIs

\* The same before and after a step.
LEMMA WholeIsLog == Whole => OneLog(disk)  BY WholeLog
\* The same of the next state.
LEMMA WholeNext == Whole' => OneLog(disk') /\ \E m : SeenIs(m)'
<1>1. Whole' => OneLog(disk)'  BY WholeIsLog, PTL
<1>2. Whole' => (\E m : SeenIs(m))'  BY SeenExists, PTL
<1>. QED  BY <1>1, <1>2

\* Steps after which as much is shown as before.
LEMMA StutterStep ==
    ASSUME Whole, Whole', GrowsTo(disk, disk'), NEW m, SeenIs(m), SeenIs(m)'
    PROVE  Contents' = Contents
<1>1. OneLog(disk)  BY WholeLog
<1>2. OneLog(disk')  BY WholeNext
<1>3. PICK e : LastIn(disk, e) /\ m <= EndIn(disk, e)  BY DEF SeenIs
<1>4. e \in DOMAIN disk  BY <1>3 DEF LastIn
<1>5. m \in Nat /\ Contents = StoredTo(disk, m) /\ Contents' = StoredTo(disk', m)
  BY DEF SeenIs
<1>6. StoredTo(disk', m) = StoredTo(disk, m)
  BY <1>1, <1>2, <1>3, <1>4, <1>5, StoredKept
<1>. QED  BY <1>5, <1>6

\* Steps after which n more records are shown: they make up a batch with the
\* next offsets.
LEMMA GrowStep ==
    ASSUME Whole, Whole', GrowsTo(disk, disk'), NEW m, SeenIs(m),
           NEW n \in Nat, SeenIs(m + n)'
    PROVE  \E batch \in [1 .. n -> Msgs] :
              /\ Contents' = Contents \o Abstract!Numbered(batch)
              /\ \A i \in 1 .. n : Abstract!Numbered(batch)[i] = Stored(disk', m + (i - 1))
<1>1. OneLog(disk) /\ OneLog(disk')  BY WholeLog, WholeNext
<1>2. PICK c : LastIn(disk, c) /\ m <= EndIn(disk, c)  BY DEF SeenIs
<1>3. PICK e : LastIn(disk', e) /\ m + n <= EndIn(disk', e)  BY DEF SeenIs
<1>4. c \in DOMAIN disk /\ e \in DOMAIN disk'  BY <1>2, <1>3 DEF LastIn
<1>5. m \in Nat /\ Contents = StoredTo(disk, m) /\ Contents' = StoredTo(disk', m + n)
  BY DEF SeenIs
<1>6. StoredTo(disk', m) = StoredTo(disk, m)
  BY <1>1, <1>2, <1>4, <1>5, StoredKept
<1>7. Len(Contents) = m  BY <1>1, <1>2, <1>4, <1>5, StoredSeq
<1>8. PICK d : d = disk'  OBVIOUS
<1>9. PICK s : s = [i \in 1 .. n |-> Stored(d, m + (i - 1))]  OBVIOUS
<1>10. PICK batch : batch = [i \in 1 .. n |-> Stored(d, m + (i - 1)).msg]  OBVIOUS
<1>11. ASSUME NEW i \in 1 .. n
       PROVE  /\ Stored(d, m + (i - 1)) \in Record
              /\ Stored(d, m + (i - 1)) = [offset |-> m + i - 1, msg |-> Stored(d, m + (i - 1)).msg]
  <2>1. PICK o \in Nat : o = m + (i - 1) /\ o = m + i - 1  BY <1>5
  <2>2. EndIn(d, e) \in Nat /\ m + n <= EndIn(d, e)  BY <1>1, <1>3, <1>4, <1>8, OneLogFacts
  <2>3. o < EndIn(d, e)  BY <1>5, <2>1, <2>2
  <2>4. PICK b \in DOMAIN d : b <= o /\ o < EndIn(d, b)
    BY <1>1, <1>4, <1>8, <2>3, FileExists
  <2>5. Stored(d, o) = RecordIn(d[b].log, b, o) /\ Stored(d, o) \in Record
    BY <1>1, <1>8, <2>4, StoredIs
  <2>6. Stored(d, o) = [offset |-> o, msg |-> Stored(d, o).msg]
    BY <2>5 DEF RecordIn
  <2>. QED  BY <2>1, <2>5, <2>6
<1>12. batch \in [1 .. n -> Msgs]
  <2>1. \A i \in 1 .. n : Stored(d, m + (i - 1)).msg \in Msgs  BY <1>11 DEF Record
  <2>. QED  BY <1>10, <2>1
<1>13. Abstract!Numbered(batch) = s
  <2>1. DOMAIN batch = 1 .. n /\ \A i \in 1 .. n : batch[i] = Stored(d, m + (i - 1)).msg
    BY <1>10
  <2>2. Abstract!Numbered(batch) = [i \in 1 .. n |-> [offset |-> m + i - 1, msg |-> batch[i]]]
    BY <1>7, <2>1, Zenon DEF Abstract!Numbered
  <2>3. \A i \in 1 .. n : [offset |-> m + i - 1, msg |-> batch[i]] = Stored(d, m + (i - 1))
    BY <1>11, <2>1
  <2>. QED  BY <1>9, <2>2, <2>3
<1>14. s \in Seq(Record) /\ Len(s) = n
  <2>1. s \in [1 .. n -> Record]  BY <1>9, <1>11
  <2>2. s \in Seq(Record)  BY <2>1, IsASeq
  <2>3. DOMAIN s = 1 .. n  BY <1>9
  <2>. QED  BY <2>2, <2>3, LenProperties
<1>15. \A i \in 1 .. n : s[i] = Stored(d, m + (i - 1))  BY <1>9
<1>16. StoredTo(d, m) \o s = StoredTo(d, m + n)
  <2>1. OneLog(d) /\ e \in DOMAIN d /\ m + Len(s) <= EndIn(d, e)
    BY <1>1, <1>3, <1>4, <1>8, <1>14
  <2>2. \A i \in 1 .. Len(s) : s[i] = Stored(d, m + (i - 1))  BY <1>14, <1>15
  <2>3. StoredTo(d, m) \o s = StoredTo(d, m + Len(s))
    BY <1>5, <1>14, <2>1, <2>2, StoredJoin
  <2>. QED  BY <1>14, <2>3
<1>17. Contents' = Contents \o s  BY <1>5, <1>6, <1>8, <1>16
<1>. QED  BY <1>8, <1>12, <1>13, <1>15, <1>17

\* Steps that write to no log file, and create none or an empty one.
LEMMA SameGrows ==
    ASSUME TypeInv, \A b \in DOMAIN disk : b \in DOMAIN disk' /\ disk'[b].log = disk[b].log
    PROVE  GrowsTo(disk, disk')
<1>1. \A b \in DOMAIN disk : Len(disk[b].log) \in Nat  BY FileFacts
<1>. QED  BY <1>1 DEF GrowsTo

\* While the partition stays open, what is shown changes with the memory map of
\* the active segment only.
LEMMA StutterOpen ==
    ASSUME Whole, Whole', GrowsTo(disk, disk'), status = "up", status' = "up",
           UNCHANGED active, segs'[active].mapped = segs[active].mapped
    PROVE  Contents' = Contents
<1>1. PICK m : SeenIs(m)  BY SeenExists
<1>2. PICK k : SeenIs(k)'  BY WholeNext
<1>3. m \in Nat /\ active \in Nat /\ active <= m /\ segs[active].mapped = 2 * (m - active)
  BY <1>1 DEF SeenIs
<1>4. k \in Nat /\ active <= k /\ segs[active].mapped = 2 * (k - active)
  BY <1>2 DEF SeenIs
<1>5. k = m  BY ONLY <1>3, <1>4
<1>. QED  BY <1>1, <1>2, <1>5, StutterStep

\* The new segment starts where the one before it ends.
LEMMA RefineCreateIndex ==
    ASSUME Whole, Whole', CreateIndex PROVE Contents' = Contents
<1>. USE DEF CreateIndex
<1>1. TypeInv /\ Listed /\ status = "up" /\ status' = "up"
  BY DEF Whole, TypeInv, TypeOK, Control
<1>2. /\ active \in DOMAIN segs /\ active \in Nat /\ active \in DOMAIN disk
      /\ writer.base = segs[active].next /\ writer.base \in DOMAIN disk
      /\ disk[writer.base] \in File
  BY <1>1, OpenFacts DEF TypeInv, TypeOK, Control
<1>3. GrowsTo(disk, disk')
  <2>1. \A b \in DOMAIN disk : b \in DOMAIN disk' /\ disk'[b].log = disk[b].log
    BY <1>2 DEF File
  <2>. QED  BY <1>1, <2>1, SameGrows
<1>4. PICK base : base = writer.base  OBVIOUS
<1>5. active' = base /\ segs'[base].mapped = 0  BY <1>4 DEF CreateSegment
<1>6. PICK m : SeenIs(m)  BY SeenExists
<1>7. PICK k : SeenIs(k)'  BY WholeNext
<1>8. m \in Nat /\ active <= m /\ segs[active].mapped = 2 * (m - active)
  BY <1>1, <1>6 DEF SeenIs
<1>9. k \in Nat /\ base \in Nat /\ base <= k /\ 0 = 2 * (k - base)
  BY <1>1, <1>5, <1>7 DEF SeenIs
<1>10. PICK n \in Nat : n = Count(disk[active].log) /\ Len(disk[active].log) = 2 * n
  BY <1>2, WholeLog, OneLogFacts
<1>11. base = active + n /\ segs[active].mapped = 2 * n
  <2>1. segs[active].next = End(active) /\ segs[active].mapped = Len(disk[active].log)
    BY <1>1, <1>2 DEF Listed
  <2>. QED  BY <1>2, <1>4, <1>10, <2>1 DEF End
<1>12. k = m
  <2>1. 2 * n = 2 * (m - active)  BY ONLY <1>8, <1>11
  <2>2. m = active + n  BY ONLY <1>2, <1>8, <1>10, <2>1
  <2>3. k = base  BY ONLY <1>9
  <2>. QED  BY ONLY <1>11, <2>2, <2>3
<1>. QED  BY <1>3, <1>6, <1>7, <1>12, StutterStep

\* A record that is written is not mapped yet.
LEMMA RefineWriteRecord ==
    ASSUME Whole, Whole', WriteRecord PROVE Contents' = Contents
<1>. USE DEF Whole
<1>1. /\ writer.base = active /\ status = "up" /\ active \in DOMAIN disk
      /\ segs[active].next \in Nat /\ Head(writer.batch) \in Msgs /\ writer.pc = "write"
  BY WriterFacts DEF WriteRecord
<1>2. disk' = [disk EXCEPT ![active].log =
                  @ \o SubSeq(Encode(segs[active].next, Head(writer.batch)), 1, 2)]
  BY <1>1, WholeRecord DEF WriteRecord
<1>3. /\ DOMAIN disk' = DOMAIN disk
      /\ Extended(disk'[active].log, disk[active].log,
                  segs[active].next, Head(writer.batch), 2)
  <2>1. 2 \in 0 .. 2 /\ writer.pc = "write"  BY <1>1
  <2>2. TypeInv  OBVIOUS
  <2>. QED  BY ONLY <1>2, <2>1, <2>2, TypeWrite
<1>4. \A b \in DOMAIN disk : b # active => disk'[b] = disk[b]
  BY <1>1, <1>2
<1>5. GrowsTo(disk, disk')
  <2>1. \A b \in DOMAIN disk : Len(disk[b].log) \in Nat  BY FileFacts
  <2>2. /\ Len(disk'[active].log) = Len(disk[active].log) + 2
        /\ \A i \in 1 .. Len(disk[active].log) : disk'[active].log[i] = disk[active].log[i]
    BY <1>3 DEF Extended
  <2>3. ASSUME NEW b \in DOMAIN disk
        PROVE  /\ Len(disk[b].log) <= Len(disk'[b].log)
               /\ \A i \in 1 .. Len(disk[b].log) : disk'[b].log[i] = disk[b].log[i]
    <3>1. CASE b = active  BY <1>1, <2>1, <2>2, <3>1
    <3>2. CASE b # active  BY <1>4, <2>1, <3>2
    <3>. QED  BY <3>1, <3>2
  <2>. QED  BY ONLY <1>3, <2>3 DEF GrowsTo
<1>6. UNCHANGED <<segs, active, status>>  BY DEF WriteRecord
<1>. QED  BY <1>1, <1>5, <1>6, StutterOpen

\* A record that is counted is not mapped yet.
LEMMA RefineIndexRecord ==
    ASSUME Whole, Whole', IndexRecord PROVE Contents' = Contents
<1>. USE DEF IndexRecord
<1>1. TypeInv  BY DEF Whole
<1>2. /\ writer.base = active /\ status = "up" /\ active \in DOMAIN disk /\ active \in DOMAIN segs
      /\ disk[active] \in File /\ segs[active] \in Segment
  BY <1>1, WriterFacts
<1>3. \A b \in DOMAIN disk : b \in DOMAIN disk' /\ disk'[b].log = disk[b].log
  BY <1>2 DEF File
<1>4. segs'[active].mapped = segs[active].mapped  BY <1>2 DEF Segment
<1>5. GrowsTo(disk, disk')  BY <1>1, <1>3, SameGrows
<1>. QED  BY <1>2, <1>4, <1>5, StutterOpen

\* The steps that leave the log files and the memory maps alone.
LEMMA RefineSame ==
    ASSUME Whole, Whole', UNCHANGED <<segs, active, status>>, status = "up",
           \A b \in DOMAIN disk : b \in DOMAIN disk' /\ disk'[b].log = disk[b].log
    PROVE  Contents' = Contents
<1>1. GrowsTo(disk, disk')  BY SameGrows DEF Whole
<1>. QED  BY <1>1, StutterOpen

\* The whole batch is mapped, and its producer is told of it.
LEMMA RefineSyncLog ==
    ASSUME Whole, Whole', SyncLog
    PROVE  \E n \in 1 .. MaxBatch : \E batch \in [1 .. n -> Msgs] : Abstract!Publish(batch)
<1>. USE DEF SyncLog
<1>1. TypeInv /\ Listed /\ Written  BY WriterFacts DEF Whole
<1>2. /\ writer.base = active /\ status = "up" /\ active \in DOMAIN disk /\ active \in DOMAIN segs
      /\ disk[active] \in File /\ segs[active] \in Segment /\ segs[active].next \in Nat
      /\ active \in Nat /\ writer.done \in Seq(Record) /\ writer.batch \in Seq(Msgs)
  BY <1>1, WriterFacts
<1>3. \A b \in DOMAIN disk : b \in DOMAIN disk' /\ disk'[b].log = disk[b].log
  BY <1>2 DEF File
<1>4. segs'[active].mapped = Len(disk[active].log) /\ UNCHANGED <<active, status>>
  BY <1>2 DEF Segment
<1>5. GrowsTo(disk, disk')  BY <1>1, <1>3, SameGrows
<1>6. PICK n, done : n = Len(writer.done) /\ done = writer.done  OBVIOUS
<1>7. n \in 1 .. MaxBatch
  <2>1. n \in Nat /\ Len(writer.batch) \in Nat  BY <1>2, <1>6, LenProperties
  <2>2. n + Len(writer.batch) <= MaxBatch /\ writer.done # <<>>  BY <1>1, <1>6 DEF Written
  <2>3. n # 0  BY <1>2, <1>6, <2>2, EmptySeq
  <2>4. MaxBatch \in Nat  BY PartitionLogAssumption
  <2>. QED  BY <2>1, <2>2, <2>3, <2>4
<1>8. PICK m : SeenIs(m)  BY SeenExists
<1>9. PICK k : SeenIs(k)'  BY WholeNext
<1>10. PICK next, b, log : next = segs[active].next /\ b = active /\ log = disk[active].log
  OBVIOUS
<1>11. /\ b + n <= next /\ segs[active].mapped = 2 * (next - n - b)
       /\ \A i \in 1 .. n : done[i] = RecordIn(log, b, next - n + (i - 1))
  BY <1>1, <1>6, <1>10 DEF Written, Progress
<1>12. PICK c \in Nat : c = Count(log) /\ Len(log) = 2 * c
  BY <1>2, <1>10, WholeLog, OneLogFacts
<1>13. next = b + c  BY <1>1, <1>10, <1>12 DEF Listed, End
<1>14. b \in Nat /\ next \in Nat  BY <1>2, <1>10
<1>15. m \in Nat /\ b <= m /\ segs[active].mapped = 2 * (m - b)
  BY <1>2, <1>8, <1>10 DEF SeenIs
<1>16. k \in Nat /\ b <= k /\ 2 * c = 2 * (k - b)
  BY <1>2, <1>4, <1>9, <1>10, <1>12 DEF SeenIs
<1>17. n \in Nat  BY <1>7
<1>18. m = next - n /\ k = m + n
  <2>1. 2 * (m - b) = 2 * (next - n - b)  BY ONLY <1>11, <1>15
  <2>2. m - b = next - n - b  BY ONLY <1>14, <1>15, <1>17, <2>1
  <2>3. k = b + c  BY ONLY <1>12, <1>14, <1>16
  <2>. QED  BY ONLY <1>13, <1>14, <1>15, <1>17, <2>2, <2>3
<1>19. PICK batch \in [1 .. n -> Msgs] :
           /\ Contents' = Contents \o Abstract!Numbered(batch)
           /\ \A i \in 1 .. n : Abstract!Numbered(batch)[i] = Stored(disk', m + (i - 1))
  BY <1>5, <1>8, <1>9, <1>17, <1>18, GrowStep
<1>20. ASSUME NEW i \in 1 .. n PROVE Stored(disk', m + (i - 1)) = done[i]
  <2>1. PICK o \in Nat : o = m + (i - 1)  BY <1>15
  <2>2. b <= o /\ o < b + c
    <3>1. i \in Nat /\ 1 <= i /\ i <= n  BY <1>17
    <3>2. m + n = b + c  BY ONLY <1>13, <1>14, <1>15, <1>17, <1>18
    <3>3. m \in Nat /\ b <= m  BY <1>15
    <3>4. b <= m + (i - 1)  BY ONLY <1>14, <3>1, <3>3
    <3>5. m + (i - 1) < m + n  BY ONLY <1>17, <3>1, <3>3
    <3>. QED  BY ONLY <2>1, <3>2, <3>4, <3>5
  <2>3. b \in DOMAIN disk' /\ disk'[b].log = log  BY <1>2, <1>3, <1>10
  <2>4. EndIn(disk', b) = b + c  BY <1>12, <2>3 DEF EndIn
  <2>5. OneLog(disk')  BY WholeNext
  <2>6. Stored(disk', o) = RecordIn(disk'[b].log, b, o)
    BY <2>2, <2>3, <2>4, <2>5, StoredIs
  <2>7. done[i] = RecordIn(log, b, o)  BY <1>11, <1>18, <2>1
  <2>. QED  BY <2>1, <2>3, <2>6, <2>7
<1>21. acked' = acked \cup {Abstract!Numbered(batch)[i] : i \in DOMAIN batch}
  <2>1. DOMAIN batch = 1 .. n /\ DOMAIN writer.done = 1 .. n
    BY <1>2, <1>6, LenProperties
  <2>2. \A i \in 1 .. n : Abstract!Numbered(batch)[i] = writer.done[i]
    BY <1>6, <1>19, <1>20
  <2>3. {Abstract!Numbered(batch)[i] : i \in DOMAIN batch} = {writer.done[i] : i \in DOMAIN writer.done}
    BY <2>1, <2>2
  <2>. QED  BY <2>3
<1>22. Abstract!Publish(batch)  BY <1>19, <1>21 DEF Abstract!Publish
<1>. QED  BY <1>7, <1>22

\* There is one last file.
LEMMA OneLast ==
    ASSUME NEW d, OneLog(d), NEW b, LastIn(d, b), NEW c, LastIn(d, c) PROVE b = c
<1>1. b \in Nat /\ c \in Nat /\ b <= c /\ c <= b  BY OneLogFacts DEF LastIn
<1>. QED  BY <1>1

\* How many records of the append in progress are in the files but not shown.
LEMMA Unshown ==
    ASSUME Whole, status = "up", writer.pc # "write", NEW m, SeenIs(m), NEW e, LastIn(disk, e)
    PROVE  \E n \in Nat : EndIn(disk, e) = m + n /\ (n = 0 \/ n \in 1 .. MaxBatch)
<1>. USE DEF Whole
<1>1. /\ active \in DOMAIN segs /\ active \in Nat /\ active \in DOMAIN disk
      /\ \A b \in DOMAIN segs : b <= active
  BY OpenFacts DEF OrderInv, OpenOrder
<1>2. PICK c \in Nat : c = Count(disk[active].log) /\ Len(disk[active].log) = 2 * c
  BY <1>1, WholeLog, OneLogFacts
<1>3. m \in Nat /\ active <= m /\ segs[active].mapped = 2 * (m - active)  BY DEF SeenIs
<1>4. e \in DOMAIN disk /\ e \in Nat /\ active <= e
  BY <1>1, WholeLog, OneLogFacts DEF LastIn
<1>5. ASSUME e \in DOMAIN segs PROVE EndIn(disk, e) = active + c
  <2>1. e <= active  BY <1>1, <1>5
  <2>2. e = active  BY <1>1, <1>4, <2>1
  <2>. QED  BY <1>2, <2>2 DEF EndIn
<1>6. CASE writer.pc \in {"idle", "create_index"}
  <2>1. segs[active].next = End(active) /\ segs[active].mapped = Len(disk[active].log)
    BY <1>1, <1>6 DEF Listed
  <2>2. segs[active].next = active + c  BY <1>2, <2>1 DEF End
  <2>3. m = active + c
    <3>1. 2 * c = 2 * (m - active)  BY <1>2, <1>3, <2>1
    <3>. QED  BY ONLY <1>1, <1>2, <1>3, <3>1
  <2>4. EndIn(disk, e) = m
    <3>1. CASE e \in DOMAIN segs  BY <1>5, <2>3, <3>1
    <3>2. CASE e \notin DOMAIN segs
      <4>1. disk[e].log = <<>> /\ e = segs[active].next
        BY <1>4, <3>2 DEF OrderInv, OpenOrder
      <4>2. Count(disk[e].log) = 0  BY <4>1, NeatEmpty
      <4>3. EndIn(disk, e) = e  BY <1>4, <4>2 DEF EndIn
      <4>. QED  BY <2>2, <2>3, <4>1, <4>3
    <3>. QED  BY <3>1, <3>2
  <2>5. m = m + 0 /\ 0 \in Nat  BY <1>3
  <2>. QED  BY <2>4, <2>5
<1>7. CASE writer.pc \in {"index", "sync"}
  <2>1. DOMAIN disk = DOMAIN segs  BY <1>7 DEF Listed
  <2>2. EndIn(disk, e) = active + c  BY <1>4, <1>5, <2>1
  <2>3. PICK n \in Nat, next \in Nat, l \in Nat :
          n = Len(writer.done) /\ next = segs[active].next /\ l = Len(writer.batch)
    BY <1>7, WriterFacts, LenProperties
  <2>4. active + n <= next /\ segs[active].mapped = 2 * (next - n - active) /\ n + l <= MaxBatch
    BY <1>7, <2>3 DEF Written, Progress
  <2>5. m + n = next
    <3>1. 2 * (m - active) = 2 * (next - n - active)  BY ONLY <1>3, <2>4
    <3>2. m - active = next - n - active
      BY ONLY <1>1, <1>3, <3>1, n \in Nat, next \in Nat
    <3>. QED  BY ONLY <1>1, <1>3, <3>2, n \in Nat, next \in Nat
  <2>6. MaxBatch \in Nat  BY PartitionLogAssumption
  <2>7. CASE writer.pc = "sync"
    <3>1. next = active + c  BY <1>2, <2>3, <2>7 DEF Listed, End
    <3>2. EndIn(disk, e) = m + n  BY <2>2, <2>5, <3>1
    <3>3. n = 0 \/ n \in 1 .. MaxBatch  BY <2>4, <2>6
    <3>. QED  BY <3>2, <3>3
  <2>8. CASE writer.pc = "index"
    <3>1. next + 1 = active + c  BY <1>2, <2>3, <2>8 DEF Listed, End
    <3>2. EndIn(disk, e) = m + (n + 1)  BY <1>3, <2>2, <2>5, <3>1
    <3>3. l >= 1  BY <2>3, <2>8, WriterFacts
    <3>4. n + 1 \in Nat /\ n + 1 \in 1 .. MaxBatch  BY <2>4, <2>6, <3>3
    <3>. QED  BY <3>2, <3>4
  <2>. QED  BY <1>7, <2>7, <2>8
<1>8. writer.pc \in {"idle", "create_index", "write", "index", "sync"}  BY DEF TypeInv, TypeOK
<1>. QED  BY <1>6, <1>7, <1>8

\* The broker stops between two steps of an append: what was written is there.
LEMMA RefineCrash ==
    ASSUME Whole, Whole', Crash, "write" \notin CrashPoints
    PROVE  \/ Contents' = Contents
           \/ \E n \in 1 .. MaxBatch : \E batch \in [1 .. n -> Msgs] : Abstract!Leave(batch)
<1>1. /\ status = "up" /\ status' = "down" /\ writer.pc # "write" /\ disk' = disk
      /\ acked' = acked
  BY DEF Crash
<1>2. GrowsTo(disk, disk')  BY <1>1, SameGrows DEF Whole
<1>3. PICK m : SeenIs(m)  BY SeenExists
<1>4. PICK k : SeenIs(k)'  BY WholeNext
<1>5. PICK e : LastIn(disk, e) /\ k = EndIn(disk, e)  BY <1>1, <1>4 DEF SeenIs
<1>6. PICK n \in Nat : k = m + n /\ (n = 0 \/ n \in 1 .. MaxBatch)
  BY <1>1, <1>3, <1>5, Unshown
<1>7. CASE n = 0
  <2>1. k = m  BY <1>3, <1>6, <1>7 DEF SeenIs
  <2>. QED  BY <1>2, <1>3, <1>4, <2>1, StutterStep
<1>8. CASE n \in 1 .. MaxBatch
  <2>1. PICK batch \in [1 .. n -> Msgs] : Contents' = Contents \o Abstract!Numbered(batch)
    BY <1>2, <1>3, <1>4, <1>6, GrowStep
  <2>2. Abstract!Leave(batch)  BY <1>1, <2>1 DEF Abstract!Leave
  <2>. QED  BY <1>8, <2>2
<1>. QED  BY <1>6, <1>7, <1>8

\* The files are mapped again as they are.
LEMMA RefineOpen ==
    ASSUME Whole, Whole', Open PROVE Contents' = Contents
<1>1. status # "up" /\ disk' = disk  BY DEF Open
<1>2. GrowsTo(disk, disk')  BY <1>1, SameGrows DEF Whole
<1>3. PICK m : SeenIs(m)  BY SeenExists
<1>4. PICK k : SeenIs(k)'  BY WholeNext
<1>5. PICK e : LastIn(disk, e) /\ m = EndIn(disk, e)  BY <1>1, <1>3 DEF SeenIs
<1>6. OneLog(disk)  BY WholeLog
<1>7. k = m
  <2>1. CASE status' # "up"
    <3>1. PICK c : LastIn(disk, c) /\ k = EndIn(disk, c)  BY <1>1, <1>4, <2>1 DEF SeenIs
    <3>2. c = e  BY <1>5, <1>6, <3>1, OneLast
    <3>. QED  BY <1>5, <3>1, <3>2
  <2>2. CASE status' = "up"
    <3>1. /\ segs' = [b \in DOMAIN disk |-> OpenSegment(disk[b], b)]
          /\ active' = CHOOSE b \in DOMAIN disk : \A c \in DOMAIN disk : c <= b
      BY <2>2 DEF Open
    <3>2. active' = e
      <4>1. ASSUME NEW b \in DOMAIN disk, \A c \in DOMAIN disk : c <= b PROVE b = e
        BY <1>5, <1>6, <4>1, OneLast DEF LastIn
      <4>. QED  BY <1>5, <3>1, <4>1, Zenon DEF LastIn
    <3>3. e \in DOMAIN disk  BY <1>5 DEF LastIn
    <3>4. segs'[e].mapped = Len(disk[e].log)  BY <3>1, <3>3 DEF OpenSegment
    <3>5. PICK c \in Nat : c = Count(disk[e].log) /\ Len(disk[e].log) = 2 * c
      BY <1>6, <3>3, OneLogFacts
    <3>6. k \in Nat /\ e \in Nat /\ e <= k /\ 2 * c = 2 * (k - e)
      BY <1>4, <2>2, <3>2, <3>4, <3>5 DEF SeenIs
    <3>7. m = e + c  BY <1>5, <3>5 DEF EndIn
    <3>. QED  BY ONLY <3>6, <3>7, c \in Nat
  <2>. QED  BY <2>1, <2>2
<1>. QED  BY <1>2, <1>3, <1>4, <1>7, StutterStep

\* Every step is one of AbstractLog, or leaves the records and the answers as
\* they are.
LEMMA RefineStep ==
    ASSUME ~PowerLoss, "write" \notin CrashPoints, MaxFailures = 0,
           Whole, Whole', [Next]_vars
    PROVE  [Abstract!Next]_<<Contents, acked>>
<1>1. ASSUME Fail PROVE FALSE
  BY <1>1 DEF Fail, Whole, TypeInv, TypeOK
<1>2. ASSUME NEW batch \in Batches, BeginAppend(batch) PROVE UNCHANGED <<Contents, acked>>
  BY <1>2, RefineSame DEF BeginAppend, CanAppend
<1>3. ASSUME NEW batch \in Batches, RotateLog(batch) PROVE UNCHANGED <<Contents, acked>>
  <2>1. \A b \in DOMAIN disk : b \in DOMAIN disk' /\ disk'[b].log = disk[b].log
    BY <1>3 DEF RotateLog
  <2>. QED  BY <1>3, <2>1, RefineSame DEF RotateLog, CanAppend
<1>4. CASE CreateIndex  BY <1>4, RefineCreateIndex DEF CreateIndex
<1>5. CASE WriteRecord  BY <1>5, RefineWriteRecord DEF WriteRecord
<1>6. CASE IndexRecord  BY <1>6, RefineIndexRecord DEF IndexRecord
<1>7. CASE SyncLog  BY <1>7, RefineSyncLog DEF Abstract!Next
<1>8. CASE CreateIndexFails \/ WriteRecordFails \/ IndexRecordFails \/ SyncLogFails
  BY <1>1, <1>8 DEF CreateIndexFails, WriteRecordFails, IndexRecordFails, SyncLogFails
<1>9. CASE Flush
  <2>1. TypeInv  BY DEF Whole
  <2>2. \A b \in DOMAIN disk : b \in DOMAIN disk' /\ disk'[b].log = disk[b].log
    <3>1. \A b \in DOMAIN disk : disk[b] \in File  BY <2>1, FileFacts
    <3>. QED  BY <1>9, <3>1 DEF Flush, File
  <2>. QED  BY <1>9, <2>2, RefineSame DEF Flush
<1>10. CASE Crash
  <2>1. acked' = acked  BY <1>10 DEF Crash
  <2>. QED  BY <1>10, <2>1, RefineCrash DEF Abstract!Next
<1>11. CASE Open  BY <1>11, RefineOpen DEF Open
<1>12. ASSUME NEW b \in DOMAIN disk, LoseTail(b) PROVE FALSE
  BY <1>12 DEF LoseTail
<1>13. CASE UNCHANGED vars  BY <1>13 DEF vars, Contents, Visible
<1>. QED
  BY <1>2, <1>3, <1>4, <1>5, <1>6, <1>7, <1>8, <1>9, <1>10, <1>11, <1>12, <1>13 DEF Next

\* The log is empty at first.
LEMMA RefineInit == ASSUME Init, Whole PROVE Abstract!Init
<1>1. PICK m : SeenIs(m)  BY SeenExists
<1>2. active = 0 /\ status = "up" /\ segs[0].mapped = 0 /\ acked = {}
  BY DEF Init, CreateSegment
<1>3. m \in Nat /\ 0 = 2 * (m - 0)  BY <1>1, <1>2 DEF SeenIs
<1>4. m = 0  BY <1>3
<1>5. Contents = StoredTo(disk, 0)  BY <1>1, <1>4 DEF SeenIs
<1>6. StoredTo(disk, 0) = <<>>
  <2>1. StoredTo(disk, 0) = [i \in {} |-> Stored(disk, i - 1)]  BY DEF StoredTo
  <2>. QED  BY <2>1
<1>. QED  BY <1>2, <1>5, <1>6 DEF Abstract!Init

\* No file operation has failed.
NoFailure == failures = 0

\* PartitionLog implements AbstractLog: segments, rotation, index entries,
\* memory maps, stops between any two writes and rescans make up one
\* append-only log whose batches become visible as a whole.  A failed append
\* leaves records that a later one makes visible, a stop in the middle of a
\* record or a power loss a file that ends in half a record: hence the
\* conditions.
THEOREM ImplementsLog ==
    (MaxFailures = 0 /\ ~PowerLoss /\ "write" \notin CrashPoints) => (Spec => RefinesLog)
<1>. SUFFICES ASSUME MaxFailures = 0, ~PowerLoss, "write" \notin CrashPoints
              PROVE  Spec => RefinesLog
  OBVIOUS
<1>1. Init => NoFailure /\ WrittenInv
  <2>1. Init => writer.pc = "idle" /\ failures = 0  BY DEF Init, Idle
  <2>. QED  BY <2>1 DEF WrittenInv, Written, NoFailure
<1>2. Init => LogInv  BY LogInit
<1>3. NoFailure /\ [Next]_vars => NoFailure'
  <2>1. ASSUME failures = 0, Fail PROVE FALSE  BY <2>1 DEF Fail
  <2>. QED
    BY <2>1 DEF NoFailure, Next, vars, BeginAppend, RotateLog, CreateIndex, WriteRecord, IndexRecord, SyncLog,
                CreateIndexFails, WriteRecordFails, IndexRecordFails, SyncLogFails,
                Flush, Crash, Open, LoseTail
<1>4. TypeInv /\ OrderInv /\ LogInv /\ [Next]_vars => LogInv'  BY LogStep
<1>5. TypeInv /\ LogInv /\ WrittenInv /\ [Next]_vars => WrittenInv'  BY WrittenStep
<1>6. TypeInv /\ OrderInv /\ LogInv /\ WrittenInv /\ NoFailure => Whole
  BY DEF NoFailure, LogInv, WrittenInv, Whole
<1>7. Init /\ Whole => Abstract!Init  BY RefineInit
<1>8. Whole /\ Whole' /\ [Next]_vars => [Abstract!Next]_<<Contents, acked>>  BY RefineStep
<1>9. Spec => []Whole
  BY <1>1, <1>2, <1>3, <1>4, <1>5, <1>6, TypeInvariance, OrderInit, OrderStep, PTL DEF Spec
<1>10. Spec => Abstract!Init /\ [][Abstract!Next]_<<Contents, acked>>
  BY <1>7, <1>8, <1>9, PTL DEF Spec
<1>. QED  BY <1>10 DEF RefinesLog, Abstract!Spec

=============================================================================
