--------------------------- MODULE OffsetManager ---------------------------
(***************************************************************************)
(* Committed offsets: broker/src/offset_manager.rs, driven by the          *)
(* CommitOffset and FetchOffset handlers of broker/src/server.rs.  A commit *)
(* inserts under the write lock, releases it, and then rewrites the file   *)
(* of its group under the read lock: truncate, one write per line, sync.   *)
(* Any number of rewrites may overlap, each with a file handle and a write *)
(* position of its own, but none overlaps an insertion.                    *)
(*                                                                         *)
(* A file is a sequence of lines.  A handle that writes past the end, after *)
(* another one truncated the file, leaves a hole of zero bytes before its  *)
(* line.  Overlapping rewrites of a group list the same unchanged map in   *)
(* the same order, so the n-th line has one place whoever writes it.       *)
(***************************************************************************)
EXTENDS Naturals, Sequences, FiniteSets

CONSTANTS
    Groups,       \* group ids
    Keys,         \* (topic, partition) pairs
    Offsets,      \* the offsets consumers commit
    Handlers,     \* connections with a CommitOffset request under way
    MaxCommits,   \* bound: commits
    MaxFailures,  \* bound: file operations that return an error
    MaxCrashes,   \* bound: times the broker stops
    CrashPoints   \* steps of a commit before which the broker may stop

Steps == {"idle", "insert", "create", "write", "sync"}

ASSUME OffsetManagerAssumption ==
    /\ Offsets \subseteq Nat
    /\ "hole" \notin Keys
    /\ MaxCommits \in Nat /\ MaxFailures \in Nat /\ MaxCrashes \in Nat
    /\ CrashPoints \subseteq Steps

VARIABLES
    table,     \* group -> the lines of the offsets map, in iteration order
    file,      \* group -> the lines of <group>.offsets, <<>> when there is none
    op,        \* handler -> what it is doing
    up,        \* whether the broker runs
    settled,   \* history: group -> key -> the set with the offset of the last
               \* commit if it was answered with Ok, empty otherwise
    tainted,   \* history: groups with a rewrite that failed or was cut off since
               \* the last one that began
    lost,      \* history: groups that were loaded from such a file
    commits, failures, crashes

vars == <<table, file, op, up, settled, tainted, lost, commits, failures, crashes>>

-----------------------------------------------------------------------------

Line == [key : Keys, offset : Offsets]

Hole == [key |-> "hole", offset |-> 0]

Idle == [pc |-> "idle"]

Lines(s) == {s[i] : i \in DOMAIN s}

\* The iteration orders of a map with these lines.
Listings(lines) ==
    {s \in [1 .. Cardinality(lines) -> lines] : Lines(s) = lines}

\* Wrong variant: a list, in which a key may be twice.
InsertAgain(s, line) == {Append(s, line)}

\* HashMap::insert: a known key keeps its place, a new one may move them all.
Insert(s, line) ==
    IF \E i \in DOMAIN s : s[i].key = line.key
    THEN {[i \in DOMAIN s |-> IF s[i].key = line.key THEN line ELSE s[i]]}
    ELSE Listings(Lines(s) \cup {line})

\* write_all at position p of a file.
WriteAt(s, p, line) ==
    [i \in 1 .. (IF p > Len(s) THEN p ELSE Len(s)) |->
        IF i = p THEN line ELSE IF i > Len(s) THEN Hole ELSE s[i]]

\* What load reads from a file: a line after a hole has the zero bytes in its
\* topic name, and nobody asks for that one.
Parse(s) ==
    {s[i] : i \in {j \in DOMAIN s : s[j] # Hole /\ (j > 1 => s[j - 1] # Hole)}}

\* fetch_offset, with the default of the FetchOffset handler.
FetchOffset(g, k) ==
    IF \E i \in DOMAIN table[g] : table[g][i].key = k
    THEN table[g][CHOOSE i \in DOMAIN table[g] : table[g][i].key = k].offset
    ELSE 0

Rewriting(h) == op[h].pc \in {"write", "sync"}

\* Wrong variant: the read lock is not kept during the rewrite.
LockFree == TRUE

\* No rewrite holds the read lock.
WriteLockFree == \A h \in Handlers : ~Rewriting(h)

\* Wrong variant: one line short.
LastButOne(lines, p) == p + 1 >= Len(lines)

\* The p-th line is the last one.
LastLine(lines, p) == p = Len(lines)

-----------------------------------------------------------------------------

Init ==
    /\ table = [g \in Groups |-> <<>>]
    /\ file = [g \in Groups |-> <<>>]
    /\ op = [h \in Handlers |-> Idle]
    /\ up = TRUE
    /\ settled = [g \in Groups |-> [k \in Keys |-> {}]]
    /\ tainted = {} /\ lost = {}
    /\ commits = 0 /\ failures = 0 /\ crashes = 0

\* A CommitOffset request arrives.
Receive(h, g, line) ==
    /\ up
    /\ op[h].pc = "idle"
    /\ commits < MaxCommits
    /\ commits' = commits + 1
    /\ op' = [op EXCEPT ![h] = [pc |-> "insert", group |-> g, line |-> line,
                                lines |-> <<>>, pos |-> 0]]
    /\ UNCHANGED <<table, file, up, settled, tainted, lost, failures, crashes>>

\* The insertion, under the write lock, for which a handler waits.
UpdateMemory(h) ==
    LET g    == op[h].group
        line == op[h].line
    IN  /\ op[h].pc = "insert"
        /\ WriteLockFree
        /\ \E s \in Insert(table[g], line) : table' = [table EXCEPT ![g] = s]
        /\ settled' = [settled EXCEPT ![g][line.key] = @ \cap {line.offset}]
        /\ op' = [op EXCEPT ![h].pc = "create"]
        /\ UNCHANGED <<file, up, tainted, lost, commits, failures, crashes>>

\* persist_group takes the read lock, which it keeps, collects the lines of the
\* group, and File::create truncates.
CreateFile(h) ==
    LET g == op[h].group
    IN  /\ op[h].pc = "create"
        /\ file' = [file EXCEPT ![g] = <<>>]
        /\ op' = [op EXCEPT ![h].pc = "write", ![h].lines = table[g]]
        /\ tainted' = tainted \ {g}
        /\ UNCHANGED <<table, up, settled, lost, commits, failures, crashes>>

\* One line of the group; after the last one it is time to sync.
WriteLine(h) ==
    LET lines == op[h].lines
        p     == op[h].pos + 1
    IN  /\ op[h].pc = "write"
        /\ file' = [file EXCEPT ![op[h].group] = WriteAt(@, p, lines[p])]
        /\ op' = [op EXCEPT ![h].pos = p,
                            ![h].pc = IF LastLine(lines, p) THEN "sync" ELSE "write"]
        /\ UNCHANGED <<table, up, settled, tainted, lost, commits, failures, crashes>>

\* sync_all, the lock is released and the client gets Ok.
SyncFile(h) ==
    LET g    == op[h].group
        line == op[h].line
    IN  /\ op[h].pc = "sync"
        /\ op' = [op EXCEPT ![h] = Idle]
        /\ settled' = IF FetchOffset(g, line.key) = line.offset
                      THEN [settled EXCEPT ![g][line.key] = {line.offset}]
                      ELSE settled
        /\ UNCHANGED <<table, file, up, tainted, lost, commits, failures, crashes>>

\* File::create, write_all or sync_all fails: the client gets an error, what is
\* in memory stays, and so does what is in the file.
PersistFails(h) ==
    /\ op[h].pc \in {"create", "write", "sync"}
    /\ failures < MaxFailures
    /\ failures' = failures + 1
    /\ tainted' = tainted \cup {op[h].group}
    /\ op' = [op EXCEPT ![h] = Idle]
    /\ UNCHANGED <<table, file, up, settled, lost, commits, crashes>>

\* The process stops.
Crash ==
    /\ up
    /\ crashes < MaxCrashes
    /\ \A h \in Handlers : op[h].pc \in CrashPoints
    /\ crashes' = crashes + 1
    /\ up' = FALSE
    /\ op' = [h \in Handlers |-> Idle]
    /\ table' = [g \in Groups |-> <<>>]
    /\ tainted' = tainted \cup {op[h].group : h \in {i \in Handlers : Rewriting(i)}}
    /\ UNCHANGED <<file, settled, lost, commits, failures>>

\* The broker starts: new, then load, before it listens.
Load ==
    /\ ~up
    /\ up' = TRUE
    /\ \E t \in [Groups -> UNION {Listings(Parse(file[g])) : g \in Groups}] :
          /\ \A g \in Groups : t[g] \in Listings(Parse(file[g]))
          /\ table' = t
    /\ tainted' = {}
    /\ lost' = lost \cup tainted
    /\ UNCHANGED <<file, op, settled, commits, failures, crashes>>

\* The broker waits for requests.
Wait ==
    /\ up
    /\ \A h \in Handlers : op[h].pc = "idle"
    /\ UNCHANGED vars

Next ==
    \/ \E h \in Handlers :
          \/ \E g \in Groups, line \in Line : Receive(h, g, line)
          \/ UpdateMemory(h) \/ CreateFile(h) \/ WriteLine(h) \/ SyncFile(h)
          \/ PersistFails(h)
    \/ Crash
    \/ Load
    \/ Wait

Spec == Init /\ [][Next]_vars

-----------------------------------------------------------------------------
(* Properties.                                                             *)

\* Type invariant: the map holds one line per key, a file lines and holes, and a
\* handler is at a step of commit_offset.
TypeOK ==
    /\ table \in [Groups -> Seq(Line)]
    /\ \A g \in Groups : \A i, j \in DOMAIN table[g] :
          table[g][i].key = table[g][j].key => i = j
    /\ file \in [Groups -> Seq(Line \cup {Hole})]
    /\ op \in [Handlers -> {Idle} \cup
                  [pc : Steps, group : Groups, line : Line,
                   lines : Seq(Line), pos : Nat]]
    /\ up \in BOOLEAN
    /\ settled \in [Groups -> [Keys -> SUBSET Offsets]]
    /\ tainted \subseteq Groups /\ lost \subseteq Groups
    /\ commits \in Nat /\ failures \in Nat /\ crashes \in Nat

\* Some commit of the group is in memory and its rewrite is not over.
Persisting(g) ==
    \E h \in Handlers : op[h].pc \in {"create", "write", "sync"} /\ op[h].group = g

\* When no commit of a group is being persisted, its file holds exactly what the
\* map holds, without a hole, however the rewrites overlapped, unless one failed
\* and none has begun since: the next commit of the group repairs the file.
FileMatchesMemory ==
    \A g \in Groups :
        (up /\ g \notin tainted /\ ~Persisting(g)) => Parse(file[g]) = Lines(table[g])

\* FetchOffset returns an offset whose commit was the last of its key and was
\* answered with Ok.
Kept(g) == \A k \in Keys : \A o \in settled[g][k] : FetchOffset(g, k) = o

\* A group loses committed offsets only in a restart from a file whose rewrite
\* failed or was cut off and that no later commit began to rewrite: overlapping
\* commits, errors that a later commit repairs and any other restart keep them.
LostOnlyByInterruption == up => \A g \in Groups \ lost : Kept(g)

=============================================================================
