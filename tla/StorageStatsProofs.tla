-------------------------- MODULE StorageStatsProofs --------------------------
(***************************************************************************)
(* What holds of the statistics for any number of callers and messages.    *)
(* Inv says what the sets of topics and partitions hold and between which  *)
(* of them the published numbers lie; Tallied says which updates the       *)
(* count, the size and the time range are made of.                         *)
(***************************************************************************)
EXTENDS StorageStats, FiniteSetTheorems, TLAPS

(* A caller in update_stats has a message to count; the mutexes are held    *)
(* from the insertion to the publication.                                   *)
Typed ==
    /\ TypeOK
    /\ done \in [Callers -> Nat]
    /\ \A c \in Callers : pc[c] # "idle" => done[c] < Len(Work[c])
    /\ \A c \in Callers : pc[c] \in {"partitions", "publish"} <=> topicsLock = c
    /\ \A c \in Callers : pc[c] = "publish" <=> partitionsLock = c

PartitionOf(m) == <<m.topic, m.partition>>

Inserted ==
    /\ \A m \in Returned : m.topic \in topics /\ PartitionOf(m) \in partitions
    /\ \A c \in Callers : pc[c] \in {"partitions", "publish"} =>
          Current(c).topic \in topics
    /\ \A c \in Callers : pc[c] = "publish" =>
          PartitionOf(Current(c)) \in partitions
    /\ topics \subseteq TopicsOf(Begun)
    /\ partitions \subseteq PartitionsOf(Begun)

Published ==
    /\ Cardinality(TopicsOf(Returned)) <= stats.topic_count
    /\ stats.topic_count <= Cardinality(topics)
    /\ Cardinality(PartitionsOf(Returned)) <= stats.partition_count
    /\ stats.partition_count <= Cardinality(partitions)

Inv == Typed /\ Inserted /\ Published

-----------------------------------------------------------------------------
(* Finite sets.                                                            *)

(* The topics and partitions of any messages of the work are finitely many. *)
LEMMA FinitelyMany ==
    ASSUME NEW S \in SUBSET Message
    PROVE  /\ IsFiniteSet(TopicsOf(S)) /\ IsFiniteSet(PartitionsOf(S))
           /\ Cardinality(TopicsOf(S)) \in Nat
           /\ Cardinality(PartitionsOf(S)) \in Nat
<1>1. IsFiniteSet(S)
  BY StatsAssumption, FS_Subset
<1>2. IsFiniteSet(TopicsOf(S))
  <2> DEFINE f == [m \in S |-> m.topic]
  <2>1. f \in Surjection(S, TopicsOf(S))
    BY DEF Surjection, TopicsOf
  <2> QED BY <1>1, <2>1, FS_Surjection
<1>3. IsFiniteSet(PartitionsOf(S))
  <2> DEFINE f == [m \in S |-> <<m.topic, m.partition>>]
  <2>1. f \in Surjection(S, PartitionsOf(S))
    BY DEF Surjection, PartitionsOf
  <2> QED BY <1>1, <2>1, FS_Surjection
<1> QED BY <1>2, <1>3, FS_CardinalityType

LEMMA CurrentIsMessage ==
    ASSUME Typed, NEW c \in Callers, done[c] < Len(Work[c])
    PROVE  Current(c) \in Message
<1>1. done[c] \in Nat /\ Work[c] \in Seq(Message)
  BY StatsAssumption DEF Typed
<1>2. done[c] + 1 \in DOMAIN Work[c]
  BY <1>1
<1> QED BY <1>2 DEF Current, Message

LEMMA BegunAreMessages ==
    ASSUME Typed
    PROVE  Returned \subseteq Message /\ Begun \subseteq Message
           /\ Returned \subseteq Begun
<1>1. Returned \subseteq Message
  <2> SUFFICES ASSUME NEW m \in Returned PROVE m \in Message
    OBVIOUS
  <2>1. PICK c \in Callers : \E i \in 1..done[c] : m = Work[c][i]
    BY DEF Returned
  <2>2. PICK i \in 1..done[c] : m = Work[c][i]
    BY <2>1
  <2>3. done[c] \in 0..Len(Work[c]) /\ Work[c] \in Seq(Message)
    BY StatsAssumption DEF Typed, TypeOK
  <2>4. i \in DOMAIN Work[c]
    BY <2>3
  <2> QED BY <2>2, <2>4 DEF Message
<1>2. \A c \in Callers : pc[c] # "idle" => Current(c) \in Message
  BY CurrentIsMessage DEF Typed
<1> QED BY <1>1, <1>2 DEF Begun

LEMMA InitInv == Init => Inv
<1> SUFFICES ASSUME Init PROVE Inv
  OBVIOUS
<1>1. Typed
  <2>1. \A c \in Callers : Len(Work[c]) \in Nat
    BY StatsAssumption
  <2> QED BY <2>1, StatsAssumption DEF Init, Typed, TypeOK
<1>2. Returned = {}
  BY DEF Init, Returned
<1>3. TopicsOf(Returned) = {} /\ PartitionsOf(Returned) = {}
  BY <1>2 DEF TopicsOf, PartitionsOf
<1>4. Inserted
  BY <1>2 DEF Init, Inserted
<1>5. Published
  BY <1>3, FS_EmptySet DEF Init, Published
<1> QED BY <1>1, <1>4, <1>5 DEF Inv

-----------------------------------------------------------------------------
(* The steps.                                                              *)

LEMMA TypedKept ==
    ASSUME Typed, NEW c \in Callers, Update(c)
    PROVE  Typed'
<1> USE DEF Typed, TypeOK, Goto
<1>0. \A d \in Callers : Len(Work[d]) \in Nat /\ d # Nobody
  BY StatsAssumption
<1>1. CASE Count(c)
  <2>1. Current(c) \in Message
    BY <1>1, CurrentIsMessage DEF Count
  <2>2. Current(c).size \in Nat /\ Current(c).timestamp \in Int \cup {None}
    BY <2>1, StatsAssumption
  <2>3. /\ Earlier(stats.earliest_timestamp, Current(c).timestamp) \in Int \cup {None}
        /\ Later(stats.latest_timestamp, Current(c).timestamp) \in Int \cup {None}
    BY <2>2 DEF Earlier, Later
  <2>4. stats' \in [message_count : Nat, total_size : Nat,
                    earliest_timestamp : Int \cup {None},
                    latest_timestamp : Int \cup {None},
                    topic_count : Nat, partition_count : Nat]
    <3> DEFINE size == Current(c).size
              first == Earlier(stats.earliest_timestamp, Current(c).timestamp)
              last == Later(stats.latest_timestamp, Current(c).timestamp)
    <3>1. stats' = [stats EXCEPT !.message_count = @ + 1, !.total_size = @ + size,
                                 !.earliest_timestamp = first,
                                 !.latest_timestamp = last]
      BY <1>1 DEF Count
    <3>2. size \in Nat /\ first \in Int \cup {None} /\ last \in Int \cup {None}
      BY <2>2, <2>3
    <3> HIDE DEF size, first, last
    <3>3. stats.message_count + 1 \in Nat /\ stats.total_size + size \in Nat
      BY <3>2
    <3> QED BY <3>1, <3>2, <3>3
  <2>5. /\ pc' = [pc EXCEPT ![c] = "topics"] /\ pc[c] = "idle"
        /\ done[c] < Len(Work[c])
        /\ UNCHANGED <<topics, partitions, topicsLock, partitionsLock, done>>
    BY <1>1 DEF Count
  <2> QED BY <2>4, <2>5
<1>2. CASE InsertTopic(c)
  <2>1. Current(c).topic \in {m.topic : m \in Message}
    <3>1. Current(c) \in Message
      BY <1>2, CurrentIsMessage DEF InsertTopic
    <3> QED BY <3>1
  <2>2. /\ pc' = [pc EXCEPT ![c] = "partitions"] /\ pc[c] = "topics"
        /\ topicsLock = Nobody /\ topicsLock' = c
        /\ topics' = topics \cup {Current(c).topic}
        /\ UNCHANGED <<stats, partitions, partitionsLock, done>>
    BY <1>2 DEF InsertTopic
  <2> QED BY <1>0, <2>1, <2>2
<1>3. CASE InsertPartition(c)
  <2>1. <<Current(c).topic, Current(c).partition>>
            \in {<<m.topic, m.partition>> : m \in Message}
    <3>1. Current(c) \in Message
      BY <1>3, CurrentIsMessage DEF InsertPartition
    <3> QED BY <3>1
  <2>2. /\ pc' = [pc EXCEPT ![c] = "publish"] /\ pc[c] = "partitions"
        /\ partitionsLock = Nobody /\ partitionsLock' = c
        /\ partitions' = partitions \cup {<<Current(c).topic, Current(c).partition>>}
        /\ UNCHANGED <<stats, topics, topicsLock, done>>
    BY <1>3 DEF InsertPartition
  <2> QED BY <1>0, <2>1, <2>2
<1>4. CASE Publish(c)
  <2>1. Cardinality(topics) \in Nat /\ Cardinality(partitions) \in Nat
    <3>1. /\ topics \subseteq TopicsOf(Message)
          /\ partitions \subseteq PartitionsOf(Message)
      BY DEF TopicsOf, PartitionsOf
    <3>2. IsFiniteSet(TopicsOf(Message)) /\ IsFiniteSet(PartitionsOf(Message))
      BY FinitelyMany
    <3> QED BY <3>1, <3>2, FS_Subset, FS_CardinalityType
  <2>2. stats' \in [message_count : Nat, total_size : Nat,
                    earliest_timestamp : Int \cup {None},
                    latest_timestamp : Int \cup {None},
                    topic_count : Nat, partition_count : Nat]
    BY <1>4, <2>1 DEF Publish
  <2>3. /\ pc' = [pc EXCEPT ![c] = "idle"] /\ pc[c] = "publish"
        /\ topicsLock' = Nobody /\ partitionsLock' = Nobody
        /\ done' = [done EXCEPT ![c] = @ + 1]
        /\ UNCHANGED <<topics, partitions>>
    BY <1>4 DEF Publish
  <2>4. topicsLock = c /\ partitionsLock = c /\ done[c] < Len(Work[c])
    BY <2>3
  <2>5. \A d \in Callers : done'[d] \in 0..Len(Work[d])
    BY <1>0, <2>3, <2>4
  <2>6. \A d \in Callers : pc'[d] # "idle" => done'[d] < Len(Work[d])
    BY <2>3
  <2>7. \A d \in Callers : pc'[d] \notin {"partitions", "publish"}
    BY <2>3, <2>4
  <2> QED BY <1>0, <2>2, <2>3, <2>5, <2>6, <2>7
<1> QED BY <1>1, <1>2, <1>3, <1>4 DEF Update

(* The messages begun stay begun: an update that returns has been begun. *)
LEMMA BegunGrows ==
    ASSUME Typed, NEW c \in Callers, Update(c)
    PROVE  Begun \subseteq Begun' /\ Returned \subseteq Returned'
<1> USE DEF Typed, TypeOK, Goto
<1>1. \A d \in Callers : done'[d] \in {done[d], done[d] + 1}
  BY DEF Update, Count, InsertTopic, InsertPartition, Publish
<1>2. \A d \in Callers : pc[d] # "idle" =>
          (pc'[d] # "idle" /\ done'[d] = done[d]) \/ done'[d] = done[d] + 1
  BY DEF Update, Count, InsertTopic, InsertPartition, Publish
<1>3. Returned \subseteq Returned'
  <2> SUFFICES ASSUME NEW m \in Returned PROVE m \in Returned'
    OBVIOUS
  <2>1. PICK d \in Callers : m \in {Work[d][i] : i \in 1..done[d]}
    BY DEF Returned
  <2>2. PICK i \in 1..done[d] : m = Work[d][i]
    BY <2>1
  <2>3. i \in 1..done'[d]
    BY <1>1, <2>2
  <2> QED BY <2>2, <2>3 DEF Returned
<1>4. ASSUME NEW d \in Callers, pc[d] # "idle" PROVE Current(d) \in Begun'
  <2>1. CASE pc'[d] # "idle" /\ done'[d] = done[d]
    BY <2>1 DEF Begun, Current
  <2>2. CASE done'[d] = done[d] + 1
    <3>1. done[d] + 1 \in 1..done'[d]
      BY <2>2
    <3>2. Work[d][done[d] + 1] \in Returned'
      BY <3>1 DEF Returned
    <3> QED BY <3>2 DEF Begun, Current
  <2> QED BY <1>2, <1>4, <2>1, <2>2
<1> QED BY <1>3, <1>4 DEF Begun

(* Only Publish lets an update return. *)
LEMMA ReturnedBy ==
    ASSUME Typed, NEW c \in Callers, Update(c)
    PROVE  /\ Publish(c) => Returned' \subseteq Returned \cup {Current(c)}
           /\ ~Publish(c) => Returned' = Returned
           /\ \A d \in Callers : d # c => Current(d)' = Current(d) /\ pc'[d] = pc[d]
           /\ ~Publish(c) => Current(c)' = Current(c)
<1> USE DEF Typed, TypeOK, Goto
<1>1. CASE Publish(c)
  <2>1. done' = [done EXCEPT ![c] = @ + 1] /\ pc' = [pc EXCEPT ![c] = "idle"]
    BY <1>1 DEF Publish
  <2>2. ASSUME NEW m \in Returned' PROVE m \in Returned \cup {Current(c)}
    <3>1. PICK d \in Callers : m \in {Work[d][i] : i \in 1..done'[d]}
      BY <2>2 DEF Returned
    <3>2. PICK i \in 1..done'[d] : m = Work[d][i]
      BY <3>1
    <3>3. i \in 1..done[d] \/ (d = c /\ i = done[c] + 1)
      BY <2>1, <3>2
    <3> QED BY <3>2, <3>3 DEF Returned, Current
  <2> QED BY <1>1, <2>1, <2>2 DEF Current
<1>2. CASE ~Publish(c)
  <2>1. UNCHANGED done /\ \A d \in Callers : d # c => pc'[d] = pc[d]
    BY <1>2 DEF Update, Count, InsertTopic, InsertPartition
  <2> QED BY <1>2, <2>1 DEF Returned, Current
<1> QED BY <1>1, <1>2

LEMMA InsertedKept ==
    ASSUME Typed, Typed', Inserted, NEW c \in Callers, Update(c)
    PROVE  Inserted'
<1>1. Begun \subseteq Begun'
  BY BegunGrows
<1>2. TopicsOf(Begun) \subseteq TopicsOf(Begun')
      /\ PartitionsOf(Begun) \subseteq PartitionsOf(Begun')
  BY <1>1 DEF TopicsOf, PartitionsOf
<1>3. pc[c] # "idle" => Current(c) \in Begun
  BY DEF Begun
<1>4. topics \subseteq topics' /\ partitions \subseteq partitions'
  BY DEF Update, Count, InsertTopic, InsertPartition, Publish
<1>5. /\ topics' \subseteq TopicsOf(Begun')
      /\ partitions' \subseteq PartitionsOf(Begun')
  <2>1. topics' \subseteq topics \cup TopicsOf(Begun)
    BY <1>3
    DEF Update, Count, InsertTopic, InsertPartition, Publish, TopicsOf
  <2>2. partitions' \subseteq partitions \cup PartitionsOf(Begun)
    BY <1>3
    DEF Update, Count, InsertTopic, InsertPartition, Publish, PartitionsOf
  <2> QED BY <1>2, <2>1, <2>2 DEF Inserted
<1>6. \A m \in Returned' : m.topic \in topics' /\ PartitionOf(m) \in partitions'
  <2>1. CASE Publish(c)
    <3>1. /\ Current(c).topic \in topics /\ PartitionOf(Current(c)) \in partitions
      BY <2>1 DEF Publish, Inserted
    <3> QED BY <1>4, <2>1, <3>1, ReturnedBy DEF Inserted
  <2>2. CASE ~Publish(c)
    BY <1>4, <2>2, ReturnedBy DEF Inserted
  <2> QED BY <2>1, <2>2
<1>7. ASSUME NEW d \in Callers, pc'[d] \in {"partitions", "publish"}
      PROVE  Current(d)'.topic \in topics'
  <2>1. CASE d # c
    BY <1>4, <1>7, <2>1, ReturnedBy DEF Inserted
  <2>2. CASE d = c
    <3>1. ~Publish(c) /\ (InsertTopic(c) \/ InsertPartition(c))
      BY <1>7, <2>2 DEF Typed, TypeOK, Goto, Update, Publish, Count, InsertTopic,
                        InsertPartition
    <3>2. Current(c)' = Current(c)
      BY <3>1, ReturnedBy
    <3> QED BY <1>4, <2>2, <3>1, <3>2 DEF InsertTopic, InsertPartition, Inserted
  <2> QED BY <2>1, <2>2
<1>8. ASSUME NEW d \in Callers, pc'[d] = "publish"
      PROVE  PartitionOf(Current(d)') \in partitions'
  <2>1. CASE d # c
    BY <1>4, <1>8, <2>1, ReturnedBy DEF Inserted
  <2>2. CASE d = c
    <3>1. ~Publish(c) /\ InsertPartition(c)
      BY <1>8, <2>2 DEF Typed, TypeOK, Goto, Update, Publish, Count, InsertTopic,
                        InsertPartition
    <3>2. Current(c)' = Current(c)
      BY <3>1, ReturnedBy
    <3> QED BY <2>2, <3>1, <3>2 DEF InsertPartition, PartitionOf
  <2> QED BY <2>1, <2>2
<1> QED BY <1>5, <1>6, <1>7, <1>8 DEF Inserted, PartitionOf

LEMMA SetsAreFinite ==
    ASSUME Typed
    PROVE  /\ IsFiniteSet(topics) /\ Cardinality(topics) \in Nat
           /\ IsFiniteSet(partitions) /\ Cardinality(partitions) \in Nat
<1>1. topics \subseteq TopicsOf(Message) /\ partitions \subseteq PartitionsOf(Message)
  BY DEF Typed, TypeOK, TopicsOf, PartitionsOf
<1>2. IsFiniteSet(TopicsOf(Message)) /\ IsFiniteSet(PartitionsOf(Message))
  BY FinitelyMany
<1> QED BY <1>1, <1>2, FS_Subset, FS_CardinalityType

(* The sets only grow, and their sizes with them. *)
LEMMA SetsGrow ==
    ASSUME Typed, Typed', NEW c \in Callers, Update(c)
    PROVE  /\ IsFiniteSet(topics') /\ Cardinality(topics') \in Nat
           /\ IsFiniteSet(partitions') /\ Cardinality(partitions') \in Nat
           /\ Cardinality(topics) <= Cardinality(topics')
           /\ Cardinality(partitions) <= Cardinality(partitions')
<1>1. topics \subseteq topics' /\ partitions \subseteq partitions'
  BY DEF Update, Count, InsertTopic, InsertPartition, Publish
<1>2. topics' \subseteq TopicsOf(Message)
      /\ partitions' \subseteq PartitionsOf(Message)
  BY DEF Typed, TypeOK, TopicsOf, PartitionsOf
<1>3. IsFiniteSet(TopicsOf(Message)) /\ IsFiniteSet(PartitionsOf(Message))
  BY FinitelyMany
<1>4. IsFiniteSet(topics') /\ IsFiniteSet(partitions')
  BY <1>2, <1>3, FS_Subset
<1> QED BY <1>1, <1>4, FS_Subset, FS_CardinalityType

LEMMA PublishedKept ==
    ASSUME Typed, Typed', Inserted', Published, NEW c \in Callers, Update(c)
    PROVE  Published'
<1>1. /\ Cardinality(topics) <= Cardinality(topics')
      /\ Cardinality(partitions) <= Cardinality(partitions')
      /\ Cardinality(topics) \in Nat /\ Cardinality(topics') \in Nat
      /\ Cardinality(partitions) \in Nat /\ Cardinality(partitions') \in Nat
  BY SetsGrow, SetsAreFinite
<1>2. stats.topic_count \in Nat /\ stats.partition_count \in Nat
  BY DEF Typed, TypeOK
<1>3. CASE Publish(c)
  <2>1. /\ stats'.topic_count = Cardinality(topics)
        /\ stats'.partition_count = Cardinality(partitions)
        /\ UNCHANGED <<topics, partitions>>
    BY <1>3 DEF Publish, Typed, TypeOK
  <2>2. /\ TopicsOf(Returned') \subseteq topics'
        /\ PartitionsOf(Returned') \subseteq partitions'
    BY DEF Inserted, TopicsOf, PartitionsOf, PartitionOf
  <2>3. /\ Cardinality(TopicsOf(Returned')) <= Cardinality(topics')
        /\ Cardinality(PartitionsOf(Returned')) <= Cardinality(partitions')
    <3>1. IsFiniteSet(topics') /\ IsFiniteSet(partitions')
      BY SetsGrow
    <3> QED BY <2>2, <3>1, FS_Subset
  <2> QED BY <1>1, <2>1, <2>3 DEF Published, TopicsOf, PartitionsOf
<1>4. CASE ~Publish(c)
  <2>1. Returned' = Returned
    BY <1>4, ReturnedBy
  <2>2. /\ stats'.topic_count = stats.topic_count
        /\ stats'.partition_count = stats.partition_count
    BY <1>4 DEF Update, Count, InsertTopic, InsertPartition, Typed, TypeOK
  <2>3. Returned \subseteq Message
    BY BegunAreMessages
  <2>4. /\ Cardinality(TopicsOf(Returned)) \in Nat
        /\ Cardinality(PartitionsOf(Returned)) \in Nat
    BY <2>3, FinitelyMany
  <2> QED BY <1>1, <1>2, <2>1, <2>2, <2>4 DEF Published, TopicsOf, PartitionsOf
<1> QED BY <1>3, <1>4

LEMMA NextInv == Inv /\ [Next]_vars => Inv'
<1> SUFFICES ASSUME Inv, [Next]_vars PROVE Inv'
  OBVIOUS
<1>1. ASSUME NEW c \in Callers, Update(c) PROVE Inv'
  <2>1. Typed'
    BY <1>1, TypedKept DEF Inv
  <2>2. Inserted'
    BY <1>1, <2>1, InsertedKept DEF Inv
  <2> QED BY <1>1, <2>1, <2>2, PublishedKept DEF Inv
<1>2. CASE UNCHANGED vars
  BY <1>2
  DEF vars, Inv, Typed, TypeOK, Inserted, Published, Returned, Begun, Current,
      TopicsOf, PartitionsOf, PartitionOf
<1> QED BY <1>1, <1>2 DEF Next

(* Inv holds in every state the statistics go through. *)
THEOREM StatsInvariant == Spec => []Inv
  BY InitInv, NextInv, PTL DEF Spec

-----------------------------------------------------------------------------
(* What follows from it.                                                   *)

(* Type correctness of the statistics. *)
THEOREM StatsTypeOK == Spec => []TypeOK
<1>1. Inv => TypeOK
  BY DEF Inv, Typed
<1> QED BY <1>1, StatsInvariant, PTL

(* Whoever holds the mutex of partitions holds that of topics, so that the  *)
(* updates never wait for each other in a circle.                           *)
THEOREM StatsLockOrder ==
    Spec => [](partitionsLock # Nobody => topicsLock = partitionsLock)
<1>1. Inv => (partitionsLock # Nobody => topicsLock = partitionsLock)
  BY DEF Inv, Typed, TypeOK
<1> QED BY <1>1, StatsInvariant, PTL

(* Every snapshot has at least the topics and partitions of the updates     *)
(* that have returned, and at most those of the updates begun.              *)
THEOREM StatsLagIsBounded == Spec => []LagIsBounded
<1>1. Inv => LagIsBounded
  <2> SUFFICES ASSUME Inv PROVE LagIsBounded
    OBVIOUS
  <2>1. Returned \subseteq Message /\ Begun \subseteq Message
    BY BegunAreMessages DEF Inv
  <2>2. /\ IsFiniteSet(TopicsOf(Begun)) /\ IsFiniteSet(PartitionsOf(Begun))
        /\ Cardinality(TopicsOf(Begun)) \in Nat
        /\ Cardinality(PartitionsOf(Begun)) \in Nat
        /\ Cardinality(TopicsOf(Returned)) \in Nat
        /\ Cardinality(PartitionsOf(Returned)) \in Nat
    BY <2>1, FinitelyMany
  <2>3. /\ Cardinality(topics) <= Cardinality(TopicsOf(Begun))
        /\ Cardinality(partitions) <= Cardinality(PartitionsOf(Begun))
    BY <2>2, FS_Subset DEF Inv, Inserted
  <2>4. Cardinality(topics) \in Nat /\ Cardinality(partitions) \in Nat
    BY SetsAreFinite DEF Inv
  <2>5. stats.topic_count \in Nat /\ stats.partition_count \in Nat
    BY DEF Inv, Typed, TypeOK
  <2> QED BY <2>2, <2>3, <2>4, <2>5 DEF Inv, Published, LagIsBounded
<1> QED BY <1>1, StatsInvariant, PTL

(* No later snapshot shows fewer messages, topics or partitions than an     *)
(* earlier one, in whatever order the updates publish.                      *)
THEOREM StatsNeverGoesBack == Spec => NeverGoesBack
<1> DEFINE Forth == /\ stats'.message_count >= stats.message_count
                    /\ stats'.topic_count >= stats.topic_count
                    /\ stats'.partition_count >= stats.partition_count
<1>1. Inv /\ [Next]_vars => [Forth]_vars
  <2> SUFFICES ASSUME Inv, NEW c \in Callers, Update(c) PROVE Forth
    BY DEF Next
  <2>1. /\ stats.message_count \in Nat /\ stats.topic_count \in Nat
        /\ stats.partition_count \in Nat
    BY DEF Inv, Typed, TypeOK
  <2>2. CASE Publish(c)
    <3>1. stats' = [stats EXCEPT !.topic_count = Cardinality(topics),
                                 !.partition_count = Cardinality(partitions)]
      BY <2>2 DEF Publish
    <3>2. /\ stats.topic_count <= Cardinality(topics)
          /\ stats.partition_count <= Cardinality(partitions)
      BY DEF Inv, Published
    <3>3. Cardinality(topics) \in Nat /\ Cardinality(partitions) \in Nat
      BY SetsAreFinite DEF Inv
    <3> QED BY <2>1, <3>1, <3>2, <3>3 DEF Inv, Typed, TypeOK
  <2>3. CASE Count(c)
    BY <2>1, <2>3 DEF Count, Inv, Typed, TypeOK
  <2>4. CASE InsertTopic(c) \/ InsertPartition(c)
    BY <2>1, <2>4 DEF InsertTopic, InsertPartition
  <2> QED BY <2>2, <2>3, <2>4 DEF Update
<1> QED BY <1>1, StatsInvariant, PTL DEF Spec, NeverGoesBack

-----------------------------------------------------------------------------
(* The first part of an update: every message is counted once, when its     *)
(* update gets past it, and never again.                                    *)

Bytes == UNION {BytesOf(u) : u \in Updates}
Times == {MessageOf(u).timestamp : u \in Updates} \ {None}

(* The earliest and the latest of what was counted. *)
Earliest(t, S) == IF S = {} THEN t = None ELSE t \in S /\ \A s \in S : t <= s
Latest(t, S) == IF S = {} THEN t = None ELSE t \in S /\ \A s \in S : t >= s

Tallied ==
    /\ IsFiniteSet(Updates) /\ stats.message_count = Cardinality(Updates)
    /\ IsFiniteSet(Bytes) /\ stats.total_size = Cardinality(Bytes)
    /\ Earliest(stats.earliest_timestamp, Times)
    /\ Latest(stats.latest_timestamp, Times)

LEMMA UpdatesAre ==
    ASSUME NEW c, NEW i
    PROVE  <<c, i>> \in Updates <=> c \in Callers /\ i \in 1..Counted(c)
  BY DEF Updates

LEMMA UpdateIsPair ==
    ASSUME NEW u \in Updates
    PROVE  u[1] \in Callers /\ u[2] \in 1..Counted(u[1]) /\ u = <<u[1], u[2]>>
  BY DEF Updates

LEMMA TimesAreNumbers ==
    ASSUME Typed
    PROVE  Times \subseteq Int
<1> SUFFICES ASSUME NEW u \in Updates, MessageOf(u).timestamp # None
             PROVE  MessageOf(u).timestamp \in Int
  BY DEF Times
<1>1. u[1] \in Callers /\ u[2] \in 1..Counted(u[1])
  BY UpdateIsPair
<1>2. /\ done[u[1]] \in Nat /\ Len(Work[u[1]]) \in Nat
      /\ Counted(u[1]) <= Len(Work[u[1]])
  BY <1>1, StatsAssumption DEF Typed, TypeOK, Counted
<1>3. u[2] \in DOMAIN Work[u[1]]
  <2>1. Work[u[1]] \in Seq(Message)
    BY <1>1, StatsAssumption
  <2>2. DOMAIN Work[u[1]] = 1..Len(Work[u[1]])
    BY <2>1
  <2>3. Counted(u[1]) \in Nat
    BY <1>1, <1>2 DEF Counted
  <2> QED BY <1>1, <1>2, <2>2, <2>3
<1>4. MessageOf(u) \in Message
  BY <1>1, <1>3 DEF MessageOf, Message
<1> QED BY <1>4, StatsAssumption

(* A message of n bytes adds n bytes. *)
LEMMA BytesOfOne ==
    ASSUME NEW u, MessageOf(u).size \in Nat
    PROVE  IsFiniteSet(BytesOf(u)) /\ Cardinality(BytesOf(u)) = MessageOf(u).size
<1> DEFINE n == MessageOf(u).size
           f == [b \in 1..n |-> <<u, b>>]
<1>1. f \in Surjection(1..n, BytesOf(u)) /\ f \in Injection(1..n, BytesOf(u))
  <2>1. f \in [1..n -> BytesOf(u)] /\ \A b \in 1..n : f[b] = <<u, b>>
    BY DEF BytesOf
  <2>2. \A y \in BytesOf(u) : \E b \in 1..n : y = <<u, b>>
    BY DEF BytesOf
  <2> HIDE DEF f, n
  <2>3. f \in Surjection(1..n, BytesOf(u))
    BY <2>1, <2>2 DEF Surjection
  <2>4. \A a, b \in 1..n : f[a] = f[b] => a = b
    BY <2>1
  <2> QED BY <2>1, <2>3, <2>4 DEF Injection, IsInjective
<1>2. IsFiniteSet(1..n) /\ Cardinality(1..n) = n
  <2>1. n \in Int /\ 1 \in Int
    OBVIOUS
  <2>2. /\ IsFiniteSet(1..n)
        /\ Cardinality(1..n) = IF 1 > n THEN 0 ELSE n - 1 + 1
    BY <2>1, FS_Interval
  <2> QED BY <2>2
<1> HIDE DEF f, n
<1> QED BY <1>1, <1>2, FS_Surjection DEF n

(* Only Count gets an update past its first part. *)
LEMMA CountedBy ==
    ASSUME Typed, NEW c \in Callers, Update(c)
    PROVE  /\ Count(c) => /\ Counted(c)' = Counted(c) + 1
                          /\ Counted(c) = done[c]
           /\ ~Count(c) => Counted(c)' = Counted(c)
           /\ \A d \in Callers : d # c => Counted(d)' = Counted(d)
           /\ \A d \in Callers : Counted(d) \in Nat
<1> USE DEF Typed, TypeOK, Goto, Counted
<1>1. CASE Count(c)
  BY <1>1 DEF Count
<1>2. CASE ~Count(c) /\ (InsertTopic(c) \/ InsertPartition(c))
  BY <1>2 DEF InsertTopic, InsertPartition
<1>3. CASE ~Count(c) /\ Publish(c)
  BY <1>3 DEF Publish
<1> QED BY <1>1, <1>2, <1>3 DEF Update

(* Another step leaves what is tallied as it is. *)
LEMMA TalliedStays ==
    ASSUME Tallied, Updates' = Updates,
           stats'.message_count = stats.message_count,
           stats'.total_size = stats.total_size,
           stats'.earliest_timestamp = stats.earliest_timestamp,
           stats'.latest_timestamp = stats.latest_timestamp
    PROVE  Tallied'
<1>1. Bytes' = Bytes /\ Times' = Times
  BY DEF Bytes, Times, BytesOf, MessageOf
<1> QED BY <1>1 DEF Tallied, Earliest, Latest

(* A time more keeps the earliest the earliest, and the latest the latest. *)
LEMMA EarliestAdds ==
    ASSUME NEW S \in SUBSET Int, None \notin S, NEW old, Earliest(old, S),
           NEW t \in Int \cup {None}
    PROVE  Earliest(Earlier(old, t), S \cup ({t} \ {None}))
<1>1. CASE t = None
  <2>1. Earlier(old, t) = old /\ S \cup ({t} \ {None}) = S
    BY <1>1 DEF Earlier
  <2> QED BY <2>1
<1>2. CASE t # None /\ S = {}
  <2>1. old = None
    BY <1>2 DEF Earliest
  <2>2. Earlier(old, t) = t /\ S \cup ({t} \ {None}) = {t}
    BY <1>2, <2>1 DEF Earlier
  <2>3. t \in Int
    BY <1>2
  <2> QED BY <2>2, <2>3 DEF Earliest
<1>3. CASE t # None /\ S # {}
  <2>1. old \in S /\ \A s \in S : old <= s
    BY <1>3 DEF Earliest
  <2>2. old # None /\ old \in Int /\ t \in Int
    BY <1>3, <2>1
  <2> DEFINE r == Earlier(old, t)
  <2>3. r \in {old, t} /\ r <= old /\ r <= t
    BY <1>3, <2>2 DEF Earlier
  <2> HIDE DEF r
  <2>4. \A s \in S : r <= s
    BY <2>1, <2>2, <2>3
  <2>5. S \cup ({t} \ {None}) = S \cup {t}
    BY <1>3
  <2>6. r \in S \cup {t} /\ \A s \in S \cup {t} : r <= s
    BY <2>1, <2>3, <2>4
  <2> QED BY <2>5, <2>6 DEF r, Earliest
<1> QED BY <1>1, <1>2, <1>3

LEMMA LatestAdds ==
    ASSUME NEW S \in SUBSET Int, None \notin S, NEW old, Latest(old, S),
           NEW t \in Int \cup {None}
    PROVE  Latest(Later(old, t), S \cup ({t} \ {None}))
<1>1. CASE t = None
  <2>1. Later(old, t) = old /\ S \cup ({t} \ {None}) = S
    BY <1>1 DEF Later
  <2> QED BY <2>1
<1>2. CASE t # None /\ S = {}
  <2>1. old = None
    BY <1>2 DEF Latest
  <2>2. Later(old, t) = t /\ S \cup ({t} \ {None}) = {t}
    BY <1>2, <2>1 DEF Later
  <2>3. t \in Int
    BY <1>2
  <2> QED BY <2>2, <2>3 DEF Latest
<1>3. CASE t # None /\ S # {}
  <2>1. old \in S /\ \A s \in S : old >= s
    BY <1>3 DEF Latest
  <2>2. old # None /\ old \in Int /\ t \in Int
    BY <1>3, <2>1
  <2> DEFINE r == Later(old, t)
  <2>3. r \in {old, t} /\ r >= old /\ r >= t
    BY <1>3, <2>2 DEF Later
  <2> HIDE DEF r
  <2>4. \A s \in S : r >= s
    BY <2>1, <2>2, <2>3
  <2>5. S \cup ({t} \ {None}) = S \cup {t}
    BY <1>3
  <2>6. r \in S \cup {t} /\ \A s \in S \cup {t} : r >= s
    BY <2>1, <2>3, <2>4
  <2> QED BY <2>5, <2>6 DEF r, Latest
<1> QED BY <1>1, <1>2, <1>3

LEMMA CountTallies ==
    ASSUME Typed, Tallied, NEW c \in Callers, Count(c)
    PROVE  Tallied'
<1>n. PICK u : u = <<c, done[c] + 1>>
  OBVIOUS
<1>m. PICK m : m = Current(c)
  OBVIOUS
<1>1. /\ done[c] < Len(Work[c]) /\ stats' = [stats EXCEPT
                    !.message_count = @ + 1,
                    !.total_size = @ + m.size,
                    !.earliest_timestamp = Earlier(@, m.timestamp),
                    !.latest_timestamp = Later(@, m.timestamp)]
  BY <1>m DEF Count
<1>2. /\ stats'.message_count = stats.message_count + 1
      /\ stats'.total_size = stats.total_size + m.size
      /\ stats'.earliest_timestamp = Earlier(stats.earliest_timestamp, m.timestamp)
      /\ stats'.latest_timestamp = Later(stats.latest_timestamp, m.timestamp)
  BY <1>1 DEF Typed, TypeOK
<1>3. m = MessageOf(u)
  BY <1>n, <1>m DEF MessageOf, Current
<1>4. m \in Message
  BY <1>1, <1>m, CurrentIsMessage
<1>5. m.size \in Nat /\ m.timestamp \in Int \cup {None}
  BY <1>4, StatsAssumption
<1>6. Updates' = Updates \cup {u} /\ u \notin Updates
  <2>1. /\ Counted(c)' = Counted(c) + 1 /\ Counted(c) = done[c]
        /\ \A d \in Callers : d # c => Counted(d)' = Counted(d)
        /\ \A d \in Callers : Counted(d) \in Nat
    BY CountedBy DEF Update
  <2>2. u \notin Updates
    BY <1>n, <2>1, UpdatesAre
  <2>3. Updates \cup {u} \subseteq Updates'
    BY <1>n, <2>1 DEF Updates
  <2>4. ASSUME NEW v \in Updates' PROVE v \in Updates \cup {u}
    <3>1. PICK d \in Callers : v \in {<<d, i>> : i \in 1..Counted(d)'}
      BY <2>4 DEF Updates
    <3>2. PICK i \in 1..Counted(d)' : v = <<d, i>>
      BY <3>1
    <3>3. i \in 1..Counted(d) \/ (d = c /\ i = done[c] + 1)
      BY <2>1, <3>2
    <3> QED BY <1>n, <3>2, <3>3, UpdatesAre
  <2> QED BY <2>2, <2>3, <2>4
<1>7. /\ IsFiniteSet(Updates') /\ stats'.message_count = Cardinality(Updates')
  BY <1>2, <1>6, FS_AddElement DEF Tallied
<1>8. Bytes' = Bytes \cup BytesOf(u)
  BY <1>6 DEF Bytes, BytesOf, MessageOf
<1>9. Bytes \cap BytesOf(u) = {}
  <2>1. ASSUME NEW b \in Bytes PROVE b[1] \in Updates
    BY DEF Bytes, BytesOf
  <2>2. ASSUME NEW b \in BytesOf(u) PROVE b[1] = u
    BY DEF BytesOf
  <2> QED BY <1>6, <2>1, <2>2
<1>10. IsFiniteSet(BytesOf(u)) /\ Cardinality(BytesOf(u)) = m.size
  BY <1>3, <1>5, BytesOfOne
<1>11. IsFiniteSet(Bytes') /\ stats'.total_size = Cardinality(Bytes')
  <2>1. IsFiniteSet(Bytes) /\ Cardinality(Bytes) = stats.total_size
    BY DEF Tallied
  <2>2. /\ IsFiniteSet(Bytes \cup BytesOf(u))
        /\ Cardinality(Bytes \cup BytesOf(u)) =
              Cardinality(Bytes) + Cardinality(BytesOf(u))
                - Cardinality(Bytes \cap BytesOf(u))
    BY <1>10, <2>1, FS_Union
  <2>3. Cardinality(Bytes \cap BytesOf(u)) = 0
    BY <1>9, FS_EmptySet
  <2>4. stats.total_size \in Nat
    BY DEF Typed, TypeOK
  <2> QED BY <1>2, <1>5, <1>8, <1>10, <2>1, <2>2, <2>3, <2>4
<1>12. Times' = Times \cup ({m.timestamp} \ {None})
  BY <1>3, <1>6 DEF Times, MessageOf
<1>13. Times \subseteq Int
  BY TimesAreNumbers
<1>14. Earliest(stats'.earliest_timestamp, Times')
  <2>1. Earliest(stats.earliest_timestamp, Times)
    BY DEF Tallied
  <2>2. None \notin Times
    BY DEF Times
  <2>3. Earliest(Earlier(stats.earliest_timestamp, m.timestamp),
               Times \cup ({m.timestamp} \ {None}))
    BY <1>5, <1>13, <2>1, <2>2, EarliestAdds
  <2> QED BY <1>2, <1>12, <2>3
<1>15. Latest(stats'.latest_timestamp, Times')
  <2>1. Latest(stats.latest_timestamp, Times)
    BY DEF Tallied
  <2>2. None \notin Times
    BY DEF Times
  <2>3. Latest(Later(stats.latest_timestamp, m.timestamp),
               Times \cup ({m.timestamp} \ {None}))
    BY <1>5, <1>13, <2>1, <2>2, LatestAdds
  <2> QED BY <1>2, <1>12, <2>3
<1> QED BY <1>7, <1>11, <1>14, <1>15 DEF Tallied

LEMMA TalliedNext == Inv /\ Tallied /\ [Next]_vars => Tallied'
<1> SUFFICES ASSUME Inv, Tallied, [Next]_vars PROVE Tallied'
  OBVIOUS
<1>1. ASSUME NEW c \in Callers, Update(c) PROVE Tallied'
  <2>1. CASE Count(c)
    BY <2>1, CountTallies DEF Inv
  <2>2. CASE ~Count(c)
    <3>1. \A d \in Callers : Counted(d)' = Counted(d)
      BY <1>1, <2>2, CountedBy DEF Inv
    <3>2. Updates' = Updates
      BY <3>1 DEF Updates
    <3>3. /\ stats'.message_count = stats.message_count
          /\ stats'.total_size = stats.total_size
          /\ stats'.earliest_timestamp = stats.earliest_timestamp
          /\ stats'.latest_timestamp = stats.latest_timestamp
      BY <1>1, <2>2
      DEF Update, InsertTopic, InsertPartition, Publish, Inv, Typed, TypeOK
    <3> QED BY <3>2, <3>3, TalliedStays
  <2> QED BY <2>1, <2>2
<1>2. CASE UNCHANGED vars
  <2>1. Updates' = Updates
    BY <1>2 DEF vars, Updates, Counted
  <2> QED BY <1>2, <2>1, TalliedStays DEF vars
<1> QED BY <1>1, <1>2 DEF Next

LEMMA InitTallied == Init => Tallied
<1> SUFFICES ASSUME Init PROVE Tallied
  OBVIOUS
<1>1. Updates = {}
  BY DEF Init, Updates, Counted
<1>2. Bytes = {} /\ Times = {}
  BY <1>1 DEF Bytes, Times
<1>3. IsFiniteSet({}) /\ Cardinality({}) = 0
  BY FS_EmptySet
<1> QED BY <1>1, <1>2, <1>3 DEF Init, Tallied, Earliest, Latest

(* The earliest time of Earliest is the Min of the library. *)
LEMMA EarliestIsMin ==
    ASSUME NEW S \in SUBSET Int, NEW t
    PROVE  /\ Earliest(t, S) => t = IF S = {} THEN None ELSE Min(S)
           /\ Latest(t, S) => t = IF S = {} THEN None ELSE Max(S)
<1>1. ASSUME S # {}, t \in S, \A s \in S : t <= s PROVE t = Min(S)
  <2> DEFINE x == CHOOSE x \in S : \A s \in S : x <= s
  <2>1. x \in S /\ \A s \in S : x <= s
    BY <1>1
  <2> HIDE DEF x
  <2>2. x \in Int /\ t \in Int /\ x <= t /\ t <= x
    BY <1>1, <2>1
  <2>3. x = t
    BY <2>2
  <2> QED BY <2>3 DEF x, Min
<1>2. ASSUME S # {}, t \in S, \A s \in S : t >= s PROVE t = Max(S)
  <2> DEFINE x == CHOOSE x \in S : \A s \in S : x >= s
  <2>1. x \in S /\ \A s \in S : x >= s
    BY <1>2
  <2> HIDE DEF x
  <2>2. x \in Int /\ t \in Int /\ x <= t /\ t <= x
    BY <1>2, <2>1
  <2>3. x = t
    BY <2>2
  <2> QED BY <2>3 DEF x, Max
<1> QED BY <1>1, <1>2 DEF Earliest, Latest

(* Every snapshot is of exactly the updates that got past their first part: *)
(* their number, their size and the range of their timestamps, in whatever  *)
(* order the callers come and however many they are.                        *)
THEOREM StatsEveryUpdateCounts == Spec => []EveryUpdateCounts
<1>1. Inv /\ Tallied => EveryUpdateCounts
  <2> SUFFICES ASSUME Inv, Tallied PROVE EveryUpdateCounts
    OBVIOUS
  <2>1. Times \subseteq Int
    BY TimesAreNumbers DEF Inv
  <2>2. /\ stats.earliest_timestamp = IF Times = {} THEN None ELSE Min(Times)
        /\ stats.latest_timestamp = IF Times = {} THEN None ELSE Max(Times)
    BY <2>1, EarliestIsMin DEF Tallied
  <2> QED BY <2>2 DEF Tallied, EveryUpdateCounts, Bytes, Times
<1> QED BY <1>1, InitTallied, TalliedNext, StatsInvariant, PTL DEF Spec
=============================================================================
