----------------------------- MODULE Producers ------------------------------
(***************************************************************************)
(* Producers of client/src/producer.rs that share one partitioner of       *)
(* client/src/partitioner.rs, as connect_with_partitioner allows.  A batch *)
(* is divided message by message, each a step of the partitioner that the  *)
(* other producers' steps come between, and then sent partition by         *)
(* partition, in any order; a send may fail with none, some or all of its  *)
(* messages appended.  An application whose call fails calls it again with *)
(* the whole batch or gives it up.  A request and its answer are one step, *)
(* since a producer has its connection for itself.                         *)
(***************************************************************************)
EXTENDS Integers, Sequences, FiniteSets

CONSTANTS
    Clients,     \* the producers
    Topics,      \* topic names
    CountOf,     \* topic -> its number of partitions
    Keys,        \* message keys
    HashOf,      \* key -> its hash; NoKey has none
    NoKey,
    Batches,     \* the batches that are sent, as sequences of keys; an empty one
                 \* sends nothing and returns
    BatchSize,   \* of the sticky partitioner
    Modulus,     \* counters are kept modulo this, 2^32 in the code
    MaxMessages, \* bound: messages per producer
    MaxSends     \* bound: calls of send_batch_auto

ASSUME ProducersAssumption ==
    /\ CountOf \in [Topics -> Nat]
    /\ NoKey \in Keys /\ HashOf \in [Keys \ {NoKey} -> Nat]
    /\ Batches \subseteq Seq(Keys) \ {<<>>}
    /\ BatchSize \in Nat \ {0} /\ Modulus \in Nat \ {0}
    /\ MaxMessages \in Nat /\ MaxSends \in Nat

VARIABLES
    mode,      \* which partitioner it is
    counter,   \* counter of RoundRobinPartitioner, message_count of StickyPartitioner
    current,   \* current_partition of StickyPartitioner
    exists,    \* the topics the broker has
    log,       \* topic -> partition -> the messages appended
    cache,     \* client -> metadata_cache, a map on some of the topics
    sending,   \* client -> where its call of send_batch_auto is
    made,      \* client -> messages made so far
    tries,     \* history: message -> the calls that had it
    acked,     \* history: the messages of calls that returned Ok
    given,     \* history: topic -> partition -> messages the partitioner gave it
    wraps,     \* history: times the counter started over
    callsMade

partitioner == <<counter, current, wraps>>
producerVars ==
    <<mode, partitioner, exists, log, cache, sending, made, tries, acked, given, callsMade>>

Modes == {"round_robin", "key_hash", "sticky"}

\* The partition numbers of the topics, and 0 and one too many.
Places == {0} \cup UNION {0 .. CountOf[t] : t \in Topics}

NoSend == [at |-> "idle"]

NoBatches == [i \in {} |-> <<>>]

Ids == Clients \X (1 .. MaxMessages)

ProducersInit ==
    /\ mode \in Modes
    /\ counter = 0 /\ current = 0 /\ wraps = 0
    /\ exists = {}
    /\ log = [t \in Topics |-> [i \in 0 .. CountOf[t] - 1 |-> <<>>]]
    /\ cache = [c \in Clients |-> {}]
    /\ sending = [c \in Clients |-> NoSend]
    /\ made = [c \in Clients |-> 0]
    /\ tries = [m \in Ids |-> 0]
    /\ acked = {}
    /\ callsMade = 0
    /\ given = [t \in Topics |-> [i \in Places |-> 0]]

-----------------------------------------------------------------------------
(* Topics and metadata.  What is cached of a topic is its count, which     *)
(* does not change (CountStable of Topics).                                *)

\* create_topic.
CreateTopic(c, t) ==
    /\ sending[c] = NoSend
    /\ t \notin exists
    /\ exists' = exists \cup {t}
    /\ UNCHANGED <<mode, partitioner, log, cache, sending, made, tries, acked, given, callsMade>>

\* get_metadata caches every topic of the answer.
GetMetadata(c) ==
    /\ sending[c] = NoSend
    /\ cache' = [cache EXCEPT ![c] = @ \cup exists]
    /\ UNCHANGED <<mode, partitioner, exists, log, sending, made, tries, acked, given, callsMade>>

-----------------------------------------------------------------------------
(* send_batch_auto.                                                        *)

\* The call starts over with all its messages, and asks for the topic's metadata
\* if it is not cached.
Start(c, t, batch) ==
    /\ callsMade < MaxSends
    /\ callsMade' = callsMade + 1
    /\ sending' = [sending EXCEPT ![c] =
          [at |-> IF t \in cache[c] THEN "partition" ELSE "metadata", topic |-> t,
           batch |-> batch, todo |-> batch, batches |-> NoBatches, seen |-> 0]]
    /\ tries' = [m \in Ids |->
          IF \E i \in DOMAIN batch : batch[i].id = m THEN tries[m] + 1 ELSE tries[m]]

SendBatch(c, t, ks) ==
    /\ sending[c] = NoSend
    /\ made[c] + Len(ks) <= MaxMessages
    /\ made' = [made EXCEPT ![c] = @ + Len(ks)]
    /\ Start(c, t, [i \in DOMAIN ks |-> [id |-> <<c, made[c] + i>>, key |-> ks[i]]])
    /\ UNCHANGED <<mode, partitioner, exists, log, cache, acked, given>>

Retry(c) ==
    /\ sending[c].at = "failed"
    /\ Start(c, sending[c].topic, sending[c].batch)
    /\ UNCHANGED <<mode, partitioner, exists, log, cache, made, acked, given>>

GiveUp(c) ==
    /\ sending[c].at = "failed"
    /\ sending' = [sending EXCEPT ![c] = NoSend]
    /\ UNCHANGED <<mode, partitioner, exists, log, cache, made, tries, acked, given, callsMade>>

\* refresh_metadata.
Refresh(c) ==
    /\ sending[c].at = "metadata"
    /\ sending[c].topic \in exists
    /\ cache' = [cache EXCEPT ![c] = @ \cup {sending[c].topic}]
    /\ sending' = [sending EXCEPT ![c].at = "partition"]
    /\ UNCHANGED <<mode, partitioner, exists, log, made, tries, acked, given, callsMade>>

\* ... fails, because the topic does not exist or the request fails.
RefreshFails(c) ==
    /\ sending[c].at = "metadata"
    /\ sending' = [sending EXCEPT ![c].at = "failed"]
    /\ UNCHANGED <<mode, partitioner, exists, log, cache, made, tries, acked, given, callsMade>>

\* The next message goes to the batch of partition i.
Choose(c, i) ==
    LET o == sending[c]
        old == IF i \in DOMAIN o.batches THEN o.batches[i] ELSE <<>>
    IN  /\ sending' = [sending EXCEPT
             ![c].batches = [j \in DOMAIN @ \cup {i} |->
                                IF j = i THEN Append(old, Head(o.todo)) ELSE @[j]],
             ![c].todo = Tail(@),
             ![c].at = IF Len(o.todo) = 1 THEN "send" ELSE "partition"]
        /\ given' = [given EXCEPT ![o.topic][i] = @ + 1]

Chooses(c) == sending[c].at = "partition" /\ CountOf[sending[c].topic] > 0

\* fetch_add wraps around.
Count ==
    /\ counter' = (counter + 1) % Modulus
    /\ wraps' = IF counter + 1 = Modulus THEN wraps + 1 ELSE wraps

\* A topic without partitions: partition 0.
PartitionNone(c) ==
    /\ sending[c].at = "partition" /\ CountOf[sending[c].topic] = 0
    /\ Choose(c, 0)
    /\ UNCHANGED <<mode, partitioner, exists, log, cache, made, tries, acked, callsMade>>

\* Wrong variant: the counter stays at its largest value.
PartitionRoundSaturates(c) ==
    /\ mode = "round_robin" /\ Chooses(c)
    /\ Choose(c, counter % CountOf[sending[c].topic])
    /\ counter' = IF counter + 1 = Modulus THEN counter ELSE counter + 1
    /\ UNCHANGED <<mode, current, wraps, exists, log, cache, made, tries, acked, callsMade>>

\* RoundRobinPartitioner::partition.
PartitionRound(c) ==
    /\ mode = "round_robin" /\ Chooses(c)
    /\ Choose(c, counter % CountOf[sending[c].topic])
    /\ Count
    /\ UNCHANGED <<mode, current, exists, log, cache, made, tries, acked, callsMade>>

\* Wrong variant: the hash is spread by the place in the batch.
PartitionKeySpread(c) ==
    LET key == Head(sending[c].todo).key
        n == CountOf[sending[c].topic]
    IN  /\ mode = "key_hash" /\ Chooses(c)
        /\ Choose(c, IF key = NoKey THEN 0 ELSE (HashOf[key] + Len(sending[c].todo)) % n)
        /\ UNCHANGED <<mode, partitioner, exists, log, cache, made, tries, acked, callsMade>>

\* KeyHashPartitioner::partition.
PartitionKey(c) ==
    LET key == Head(sending[c].todo).key
        n == CountOf[sending[c].topic]
    IN  /\ mode = "key_hash" /\ Chooses(c)
        /\ Choose(c, IF key = NoKey THEN 0 ELSE HashOf[key] % n)
        /\ UNCHANGED <<mode, partitioner, exists, log, cache, made, tries, acked, callsMade>>

\* StickyPartitioner::partition: the message is counted, ...
StickyCount(c) ==
    /\ mode = "sticky" /\ Chooses(c)
    /\ Count
    /\ sending' = [sending EXCEPT ![c].at =
          IF counter > 0 /\ counter % BatchSize = 0 THEN "load" ELSE "read"]
    /\ UNCHANGED <<mode, current, exists, log, cache, made, tries, acked, given, callsMade>>

\* ... every so many messages current_partition is loaded ...
StickyLoad(c) ==
    /\ sending[c].at = "load"
    /\ sending' = [sending EXCEPT ![c].at = "store", ![c].seen = current]
    /\ UNCHANGED <<mode, partitioner, exists, log, cache, made, tries, acked, given, callsMade>>

\* ... and the next one stored, ...
StickyStore(c) ==
    /\ sending[c].at = "store"
    /\ current' = (sending[c].seen + 1) % CountOf[sending[c].topic]
    /\ sending' = [sending EXCEPT ![c].at = "read"]
    /\ UNCHANGED <<mode, counter, wraps, exists, log, cache, made, tries, acked, given, callsMade>>

\* ... and the partition is read again.
StickyRead(c) ==
    /\ sending[c].at = "read"
    /\ Choose(c, current)
    /\ UNCHANGED <<mode, partitioner, exists, log, cache, made, tries, acked, callsMade>>

-----------------------------------------------------------------------------
(* Sending the batches.                                                    *)

Sends(c, i) == sending[c].at = "send" /\ i \in DOMAIN sending[c].batches

Accepts(t, i) == t \in exists /\ i < CountOf[t]

\* Wrong variant: Ok is returned after the first batch.
SendFirst(c, i) ==
    LET o == sending[c]
    IN  /\ Sends(c, i)
        /\ Accepts(o.topic, i)
        /\ log' = [log EXCEPT ![o.topic][i] = @ \o o.batches[i]]
        /\ sending' = [sending EXCEPT ![c] = NoSend]
        /\ acked' = acked \cup {o.batch[k].id : k \in DOMAIN o.batch}
        /\ UNCHANGED <<mode, partitioner, exists, cache, made, tries, given, callsMade>>

\* send: the broker appends the batch.  After the last one the call returns Ok.
Send(c, i) ==
    LET o == sending[c]
        rest == DOMAIN o.batches \ {i}
    IN  /\ Sends(c, i)
        /\ Accepts(o.topic, i)
        /\ log' = [log EXCEPT ![o.topic][i] = @ \o o.batches[i]]
        /\ IF rest = {}
           THEN /\ sending' = [sending EXCEPT ![c] = NoSend]
                /\ acked' = acked \cup {o.batch[k].id : k \in DOMAIN o.batch}
           ELSE /\ sending' = [sending EXCEPT ![c].batches = [j \in rest |-> @[j]]]
                /\ UNCHANGED acked
        /\ UNCHANGED <<mode, partitioner, exists, cache, made, tries, given, callsMade>>

\* send fails with n messages appended, and send_batch_auto returns the error: the
\* batches not sent yet are dropped.  The broker refuses a partition that does not
\* exist.
SendFails(c, i, n) ==
    LET o == sending[c]
    IN  /\ Sends(c, i)
        /\ n \in 0 .. Len(o.batches[i])
        /\ n > 0 => Accepts(o.topic, i)
        /\ log' = IF n = 0 THEN log
                  ELSE [log EXCEPT ![o.topic][i] = @ \o SubSeq(o.batches[i], 1, n)]
        /\ sending' = [sending EXCEPT ![c].at = "failed"]
        /\ UNCHANGED <<mode, partitioner, exists, cache, made, tries, acked, given, callsMade>>

ProducersNext ==
    \E c \in Clients :
        \/ \E t \in Topics :
              \/ CreateTopic(c, t)
              \/ \E ks \in Batches : SendBatch(c, t, ks)
        \/ GetMetadata(c)
        \/ Retry(c) \/ GiveUp(c)
        \/ Refresh(c) \/ RefreshFails(c)
        \/ PartitionNone(c) \/ PartitionRound(c) \/ PartitionKey(c)
        \/ StickyCount(c) \/ StickyLoad(c) \/ StickyStore(c) \/ StickyRead(c)
        \/ \E i \in Places :
              \/ Send(c, i)
              \/ \E n \in 0 .. MaxMessages : SendFails(c, i, n)

ProducersSpec == ProducersInit /\ [][ProducersNext]_producerVars

-----------------------------------------------------------------------------
(* Properties.                                                             *)

\* The places where a message was appended.
Copies(m) ==
    UNION {UNION {{<<t, i, k>> : k \in {j \in DOMAIN log[t][i] : log[t][i][j].id = m}} :
                     i \in DOMAIN log[t]} : t \in Topics}

\* A message of a call that returned Ok is in the log although its batch was
\* divided and sent in parts; no call appends a message twice; and so it is there
\* more than once only if the application called again after an error.
AckedOnce ==
    \A m \in Ids :
        /\ m \in acked => Copies(m) # {}
        /\ Cardinality(Copies(m)) <= tries[m]

\* With the key-hash partitioner the messages of one producer with one key are in
\* one partition, and those of an acknowledged batch come after everything that the
\* producer sent before: a batch that fails half-way and is sent again makes
\* duplicates but changes no order.
KeyOrdered ==
    mode = "key_hash" =>
        \A t \in Topics : \A i, j \in DOMAIN log[t] :
            \A a \in DOMAIN log[t][i], b \in DOMAIN log[t][j] :
                LET x == log[t][i][a]
                    y == log[t][j][b]
                IN  (x.key = y.key /\ x.id[1] = y.id[1] /\ x.id[2] < y.id[2]) =>
                        /\ i = j
                        /\ \E d \in 1 .. b : log[t][i][d].id = x.id

\* The partitioner has chosen for no topic but t, and is not about to read the
\* sticky partition for another, which it may have moved for that one.
ServesOnly(t) ==
    /\ \A u \in Topics \ {t} : \A i \in Places : given[u][i] = 0
    /\ \A c \in Clients : sending[c].at = "read" => sending[c].topic = t

\* What a partitioner gives to a topic is a partition of it, and the round-robin
\* partitioner gives all of them the same number of messages but for one, and one
\* more whenever its counter wraps around, however the producers' calls interleave:
\* as long as it serves that topic alone.
Spread ==
    \A t \in Topics :
        CountOf[t] > 0 /\ ServesOnly(t) =>
            /\ \A i \in Places : i >= CountOf[t] => given[t][i] = 0
            /\ mode = "round_robin" =>
                  \A i, j \in 0 .. CountOf[t] - 1 : given[t][i] <= given[t][j] + 1 + wraps

=============================================================================
