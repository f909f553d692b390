---------------------------- MODULE StorageStats ----------------------------
(***************************************************************************)
(* update_stats and get_stats, the same code in storage/files/directory.rs *)
(* and single_file.rs.  An update has two parts: the message is counted    *)
(* under the write lock of stats; then, with stats unlocked in between and *)
(* the mutexes of topics and partitions held, the numbers of topics and    *)
(* partitions are published under the write lock once more.                *)
(*                                                                         *)
(* DirectoryStorage calls it from concurrent store_message calls with no   *)
(* lock around; a reader may take a snapshot between any two steps.        *)
(***************************************************************************)
EXTENDS Integers, Sequences, FiniteSetsExt

CONSTANTS
    Callers,    \* tasks that share the storage
    Work,       \* caller -> sequence of [topic, partition, size, timestamp]
    None,       \* the absent Option
    Nobody      \* a free mutex

Message == UNION {{Work[c][i] : i \in DOMAIN Work[c]} : c \in Callers}

ASSUME StatsAssumption ==
    /\ Nobody \notin Callers
    /\ Work \in [Callers -> Seq(Message)]
    /\ IsFiniteSet(Message)
    /\ \A m \in Message : m.size \in Nat /\ m.timestamp \in Int \cup {None}

VARIABLES
    stats,          \* the StorageStats behind the RwLock
    topics,         \* the topics seen
    partitions,     \* the <<topic, partition>> pairs seen
    topicsLock,     \* who holds the mutex of topics
    partitionsLock, \* who holds the mutex of partitions
    pc,             \* caller -> where its update_stats is
    done            \* caller -> how many of its updates have returned

vars == <<stats, topics, partitions, topicsLock, partitionsLock, pc, done>>

TypeOK ==
    /\ stats \in [message_count : Nat, total_size : Nat,
                  earliest_timestamp : Int \cup {None},
                  latest_timestamp : Int \cup {None},
                  topic_count : Nat, partition_count : Nat]
    /\ topics \subseteq {m.topic : m \in Message}
    /\ partitions \subseteq {<<m.topic, m.partition>> : m \in Message}
    /\ topicsLock \in Callers \cup {Nobody}
    /\ partitionsLock \in Callers \cup {Nobody}
    /\ pc \in [Callers -> {"idle", "topics", "partitions", "publish"}]
    /\ \A c \in Callers : done[c] \in 0..Len(Work[c])

Init ==
    /\ stats = [message_count |-> 0, total_size |-> 0,
                earliest_timestamp |-> None, latest_timestamp |-> None,
                topic_count |-> 0, partition_count |-> 0]
    /\ topics = {} /\ partitions = {}
    /\ topicsLock = Nobody /\ partitionsLock = Nobody
    /\ pc = [c \in Callers |-> "idle"]
    /\ done = [c \in Callers |-> 0]

-----------------------------------------------------------------------------

Current(c) == Work[c][done[c] + 1]

Goto(c, s) == pc' = [pc EXCEPT ![c] = s]

(* Mutant: the comparison turned round. *)
EarlierSwapped(old, t) == IF t # None /\ (old = None \/ t > old) THEN t ELSE old

Earlier(old, t) == IF t # None /\ (old = None \/ t < old) THEN t ELSE old
Later(old, t) == IF t # None /\ (old = None \/ t > old) THEN t ELSE old

(* Mutant: a message is taken for the replacement of an older copy. *)
CountReplaced(c) ==
    /\ pc[c] = "idle" /\ done[c] < Len(Work[c]) /\ Goto(c, "topics")
    /\ stats' = [stats EXCEPT !.total_size = @ - Current(c).size]
    /\ UNCHANGED <<topics, partitions, topicsLock, partitionsLock, done>>

(* The first part, all of it under the write lock of stats. *)
Count(c) ==
    /\ pc[c] = "idle"
    /\ done[c] < Len(Work[c])
    /\ stats' = [stats EXCEPT
                    !.message_count = @ + 1,
                    !.total_size = @ + Current(c).size,
                    !.earliest_timestamp = Earlier(@, Current(c).timestamp),
                    !.latest_timestamp = Later(@, Current(c).timestamp)]
    /\ Goto(c, "topics")
    /\ UNCHANGED <<topics, partitions, topicsLock, partitionsLock, done>>

InsertTopic(c) ==
    /\ pc[c] = "topics"
    /\ topicsLock = Nobody
    /\ topicsLock' = c
    /\ topics' = topics \cup {Current(c).topic}
    /\ Goto(c, "partitions")
    /\ UNCHANGED <<stats, partitions, partitionsLock, done>>

(* Mutants: the topic's set is replaced, not extended; the mutex of topics  *)
(* is locked a second time.                                                 *)
InsertPartitionOnly(c) ==
    /\ pc[c] = "partitions" /\ partitionsLock = Nobody /\ partitionsLock' = c
    /\ partitions' = {p \in partitions : p[1] # Current(c).topic}
                     \cup {<<Current(c).topic, Current(c).partition>>}
    /\ Goto(c, "publish") /\ UNCHANGED <<stats, topics, topicsLock, done>>

InsertPartitionRelocks(c) ==
    /\ pc[c] = "partitions" /\ topicsLock = Nobody
    /\ Goto(c, "publish")
    /\ UNCHANGED <<stats, topics, partitions, topicsLock, partitionsLock, done>>

InsertPartition(c) ==
    /\ pc[c] = "partitions"
    /\ partitionsLock = Nobody
    /\ partitionsLock' = c
    /\ partitions' = partitions \cup {<<Current(c).topic, Current(c).partition>>}
    /\ Goto(c, "publish")
    /\ UNCHANGED <<stats, topics, topicsLock, done>>

(* Mutant: the partitions of the message's own topic are published. *)
PublishOwnTopic(c) ==
    /\ pc[c] = "publish"
    /\ stats' = [stats EXCEPT !.partition_count =
                    Cardinality({p \in partitions : p[1] = Current(c).topic})]
    /\ topicsLock' = Nobody /\ partitionsLock' = Nobody /\ Goto(c, "idle")
    /\ done' = [done EXCEPT ![c] = @ + 1] /\ UNCHANGED <<topics, partitions>>

(* The counts are taken and written with both mutexes still held. *)
Publish(c) ==
    /\ pc[c] = "publish"
    /\ stats' = [stats EXCEPT !.topic_count = Cardinality(topics),
                              !.partition_count = Cardinality(partitions)]
    /\ topicsLock' = Nobody /\ partitionsLock' = Nobody
    /\ Goto(c, "idle")
    /\ done' = [done EXCEPT ![c] = @ + 1]
    /\ UNCHANGED <<topics, partitions>>

Update(c) == Count(c) \/ InsertTopic(c) \/ InsertPartition(c) \/ Publish(c)

Next == \E c \in Callers : Update(c)

(* A thread that waits for a lock nobody holds gets it. *)
Fairness == \A c \in Callers : WF_vars(Update(c))

Spec == Init /\ [][Next]_vars /\ Fairness

-----------------------------------------------------------------------------
(* Properties.  A snapshot of get_stats is the value of stats in a state. *)

Returned == UNION {{Work[c][i] : i \in 1..done[c]} : c \in Callers}
Begun == Returned \cup {Current(c) : c \in {d \in Callers : pc[d] # "idle"}}

TopicsOf(S) == {m.topic : m \in S}
PartitionsOf(S) == {<<m.topic, m.partition>> : m \in S}

(* The updates that have returned or got past their first part, each as its *)
(* caller and place, and the message of one.                                *)
Counted(c) == done[c] + (IF pc[c] = "idle" THEN 0 ELSE 1)
Updates == UNION {{<<c, i>> : i \in 1..Counted(c)} : c \in Callers}
MessageOf(u) == Work[u[1]][u[2]]
BytesOf(u) == {<<u, b>> : b \in 1..MessageOf(u).size}

(* A snapshot is one of every update that has returned or got past its      *)
(* first part, none of them twice, however the updates interleave and in    *)
(* whatever order the timestamps come: their number, size and time range.   *)
EveryUpdateCounts ==
    /\ stats.message_count = Cardinality(Updates)
    /\ stats.total_size = Cardinality(UNION {BytesOf(u) : u \in Updates})
    /\ LET times == {MessageOf(u).timestamp : u \in Updates} \ {None} IN
       /\ stats.earliest_timestamp = IF times = {} THEN None ELSE Min(times)
       /\ stats.latest_timestamp = IF times = {} THEN None ELSE Max(times)

(* The numbers of topics and partitions lag behind the messages by the      *)
(* updates under way and by no others: a slower update never writes an      *)
(* older number over a newer one.                                           *)
LagIsBounded ==
    /\ stats.topic_count \in Cardinality(TopicsOf(Returned))
                             ..Cardinality(TopicsOf(Begun))
    /\ stats.partition_count \in Cardinality(PartitionsOf(Returned))
                                 ..Cardinality(PartitionsOf(Begun))

(* From one snapshot to the next no number goes back. *)
NeverGoesBack ==
    [][/\ stats'.message_count >= stats.message_count
       /\ stats'.topic_count >= stats.topic_count
       /\ stats'.partition_count >= stats.partition_count]_vars

(* No order of the three locks makes the updates wait for each other. *)
AllUpdatesReturn == \A c \in Callers : <>(done[c] = Len(Work[c]))
=============================================================================
