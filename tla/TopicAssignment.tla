-------------------------- MODULE TopicAssignment --------------------------
(***************************************************************************)
(* Where a capture starts: parse_topic_assignment of core/store_usecase.rs *)
(* and the conversions between the domain's offsets and librdkafka's in    *)
(* kafka/consumer.rs.  An assignment is a function from the partitions to  *)
(* domain offsets.  librdkafka's own view of an offset is the raw number   *)
(* of its wire protocol.                                                   *)
(***************************************************************************)
EXTENDS MessageSelection

(* The raw numbers librdkafka reserves. *)
RawBeginning == -2
RawEnd == -1
RawStored == -1000
RawInvalid == -1001

(* DomainOffset *)
Beginning == [kind |-> "Beginning"]
End == [kind |-> "End"]
Offset(n) == [kind |-> "Offset", n |-> n]

(* StoreKafkaFrom: [kind |-> "Begining" | "End" | "Timestamp" | "Offset", at] *)
ParseTopicAssignment(from, partitions) ==
    [p \in partitions |->
        CASE from.kind = "Begining"  -> Beginning
          [] from.kind = "End"       -> End
          [] from.kind = "Timestamp" -> Offset(from.at)
          [] from.kind = "Offset"    -> Offset(AsI64(from.at))]

(* librdkafka's binding has no raw form for a negative literal offset:      *)
(* add_partition_offset fails on it, and with it the whole conversion.      *)
HasRaw(d) == d.kind = "Offset" => d.n >= 0

TplToRdkafkaSucceeds(assignment) ==
    \A p \in DOMAIN assignment : HasRaw(assignment[p])

RawOf(d) ==
    CASE d.kind = "Beginning" -> RawBeginning
      [] d.kind = "End"       -> RawEnd
      [] d.kind = "Offset"    -> d.n

TplToRdkafka(assignment) == [p \in DOMAIN assignment |-> RawOf(assignment[p])]

(* Offset::Invalid, Stored and OffsetTail come back as literal offsets that *)
(* carry the raw number.                                                    *)
DomainOf(raw) ==
    CASE raw = RawBeginning -> Beginning
      [] raw = RawEnd       -> End
      [] OTHER              -> Offset(raw)

TplFromRdkafka(tpl) == [p \in DOMAIN tpl |-> DomainOf(tpl[p])]
=============================================================================
