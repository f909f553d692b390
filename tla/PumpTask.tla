------------------------------ MODULE PumpTask ------------------------------
(***************************************************************************)
(* PumpTask::run of core/store_usecase.rs: a producer task that polls the  *)
(* consumer, a writer task that stores, the bounded mpsc channel between   *)
(* them, and run itself, which joins the two.                              *)
(*                                                                         *)
(* A step of the producer is one trip round its loop up to the next await: *)
(* a poll together with the filter and the limits, or a send together with *)
(* the count limit.  Time is counted in ticks of 100 ms and only matters   *)
(* between last_message_at and the next empty poll.                        *)
(*                                                                         *)
(* The broker is the constant Topic: the records of each partition that    *)
(* are ever delivered, in offset order.  Partitions interleave freely, and *)
(* a poll may come back empty although records are left (a slow broker).   *)
(* With Noise the topic also carries an endless flow of other records.     *)
(***************************************************************************)
EXTENDS MessageSelection, Sequences

CONSTANTS
    Partitions,         \* the partitions assigned to the consumer
    Topic,              \* partition -> sequence of its messages
    Commands,           \* the commands a run may have been started with
    ChannelCapacity,    \* 100 in the program
    PollTimeout,        \* recv_next(200): 2 ticks
    IdleShutdownAfter,  \* 500 ms: 5 ticks
    MaxDelay,           \* how many ticks late an empty poll may return
    Noise,              \* is there an endless flow of NoiseMessage?
    NoiseMessage

Message == UNION {{Topic[p][i] : i \in DOMAIN Topic[p]} : p \in Partitions}

ASSUME PumpAssumption ==
    /\ \A p \in Partitions : Topic[p] \in Seq(Message)
    /\ ChannelCapacity \in Nat \ {0}
    /\ PollTimeout \in Nat \ {0}
    /\ IdleShutdownAfter \in Nat \ {0}
    /\ MaxDelay \in Nat
    /\ Noise \in BOOLEAN
    /\ \A c \in Commands : c.count # None => c.count \in Nat

(* Kafka numbers the records of a partition upwards, perhaps with gaps. *)
ASSUME OffsetsAssumption ==
    \A p \in Partitions : \A i \in DOMAIN Topic[p] :
        /\ Topic[p][i].partition = p
        /\ \A j \in 1..(i - 1) : Topic[p][j].offset < Topic[p][i].offset

VARIABLES
    cmd,         \* the StoreKafkaCommand, fixed for the run
    next,        \* partition -> index in Topic of the next record to deliver
    producer,    \* "recv" (polling), "send" (in tx.send), "done", "cancelled"
    inHand,      \* the message being sent: a sequence of at most one
    produced,    \* the producer's counter
    elapsed,     \* ticks since last_message_at
    stopReason,  \* why the producer loop was left
    channel,     \* the mpsc channel, oldest first
    writer,      \* "recv", "store", "flush", "done", "cancelled"
    inFlight,    \* the message being stored: a sequence of at most one
    consumed,    \* the writer's counter
    run,         \* "joinProducer", "joinWriter", "returned"
    result,      \* what run returned
    emptyPolls,  \* history: empty polls since the last delivered message
    accepted,    \* history: messages that passed filter and limits
    attempted    \* history: messages store_message has finished with

vars == <<cmd, next, producer, inHand, produced, elapsed, stopReason, channel,
          writer, inFlight, consumed, run, result, emptyPolls, accepted,
          attempted>>

producerVars == <<next, producer, inHand, produced, elapsed, stopReason,
                  emptyPolls, accepted>>
writerVars == <<writer, inFlight, consumed, attempted>>
runVars == <<run, result>>

StopReasons == {"none", "limitBefore", "limitAfter", "idle", "error", "closed"}

TypeOK ==
    /\ cmd \in Commands
    /\ next \in [Partitions -> Nat \ {0}]
    /\ producer \in {"recv", "send", "done", "cancelled"}
    /\ writer \in {"recv", "store", "flush", "done", "cancelled"}
    /\ run \in {"joinProducer", "joinWriter", "returned"}
    /\ stopReason \in StopReasons
    /\ inHand \in Seq(Message)
    /\ channel \in Seq(Message)
    /\ inFlight \in Seq(Message)
    /\ accepted \in Seq(Message)
    /\ attempted \in Seq(Message)
    /\ produced \in Nat
    /\ elapsed \in Nat
    /\ consumed \in Nat
    /\ result \in Nat
    /\ emptyPolls \in Nat

Init ==
    /\ cmd \in Commands
    /\ next = [p \in Partitions |-> 1]
    /\ producer = "recv" /\ inHand = <<>> /\ produced = 0
    /\ elapsed = 0 /\ stopReason = "none"
    /\ channel = <<>>
    /\ writer = "recv" /\ inFlight = <<>> /\ consumed = 0
    /\ run = "joinProducer" /\ result = 0
    /\ emptyPolls = 0 /\ accepted = <<>> /\ attempted = <<>>

-----------------------------------------------------------------------------
(* The producer task. *)

StopProducer(reason) ==
    /\ producer' = "done"
    /\ stopReason' = reason

(* recv_next hands the next record of partition p to the loop. *)
Deliver(p) ==
    /\ producer = "recv"
    /\ next[p] <= Len(Topic[p])
    /\ next' = [next EXCEPT ![p] = @ + 1]
    /\ emptyPolls' = 0

NextOf(p) == Topic[p][next[p]]

(* The filter rejects the record; last_message_at is set all the same. *)
RecvRejected(p) ==
    /\ Deliver(p)
    /\ ~Matches(cmd, NextOf(p))
    /\ elapsed' = 0
    /\ UNCHANGED <<producer, inHand, produced, stopReason, accepted>>

(* Mutant: `continue` in place of `break`. *)
RecvPastLimitGoesOn(p) ==
    Deliver(p) /\ Matches(cmd, NextOf(p)) /\ ShouldStopBefore(cmd, NextOf(p))
    /\ UNCHANGED <<producer, stopReason, inHand, produced, elapsed, accepted>>

(* A record past a limit is dropped and ends the capture of all partitions. *)
RecvPastLimit(p) ==
    /\ Deliver(p)
    /\ Matches(cmd, NextOf(p))
    /\ ShouldStopBefore(cmd, NextOf(p))
    /\ StopProducer("limitBefore")
    /\ UNCHANGED <<inHand, produced, elapsed, accepted>>

(* Mutant: the filter is forgotten. *)
RecvAcceptedUnfiltered(p) ==
    /\ Deliver(p) /\ ~ShouldStopBefore(cmd, NextOf(p))
    /\ producer' = "send" /\ inHand' = <<NextOf(p)>>
    /\ accepted' = Append(accepted, NextOf(p))
    /\ UNCHANGED <<produced, elapsed, stopReason>>

RecvAccepted(p) ==
    /\ Deliver(p)
    /\ Matches(cmd, NextOf(p))
    /\ ~ShouldStopBefore(cmd, NextOf(p))
    /\ producer' = "send"
    /\ inHand' = <<NextOf(p)>>
    /\ accepted' = Append(accepted, NextOf(p))
    /\ UNCHANGED <<produced, elapsed, stopReason>>

(* One more record of the endless flow, which the filter rejects. *)
RecvNoise ==
    /\ Noise
    /\ producer = "recv"
    /\ ~Matches(cmd, NoiseMessage)
    /\ elapsed' = 0
    /\ emptyPolls' = 0
    /\ UNCHANGED <<next, producer, inHand, produced, stopReason, accepted>>

(* Mutants: the difference of the instants the wrong way round; every empty *)
(* poll restarts the clock (and emptyPolls, to keep it finite, wraps).      *)
RecvNothingBackwards ==
    /\ producer = "recv" /\ elapsed' = elapsed - PollTimeout
    /\ emptyPolls' = emptyPolls + 1 /\ emptyPolls < IdleShutdownAfter
    /\ UNCHANGED <<producer, stopReason, next, inHand, produced, accepted>>

RecvNothingRestarts ==
    /\ producer = "recv" /\ elapsed' = 0
    /\ emptyPolls' = (emptyPolls + 1) % (IdleShutdownAfter + 1)
    /\ UNCHANGED <<producer, stopReason, next, inHand, produced, accepted>>

(* Ok(None): the poll timed out, some ticks late if the thread was. *)
RecvNothing ==
    /\ producer = "recv"
    /\ \E late \in 0..MaxDelay : elapsed' = elapsed + PollTimeout + late
    /\ emptyPolls' = emptyPolls + 1
    /\ IF elapsed' >= IdleShutdownAfter
         THEN StopProducer("idle")
         ELSE UNCHANGED <<producer, stopReason>>
    /\ UNCHANGED <<next, inHand, produced, accepted>>

(* Err: logged, and the loop ends as if the topic did. *)
RecvError ==
    /\ producer = "recv"
    /\ StopProducer("error")
    /\ UNCHANGED <<next, inHand, produced, elapsed, emptyPolls, accepted>>

(* Mutant: an unbounded channel. *)
SendUnbounded ==
    /\ producer = "send" /\ writer # "cancelled"
    /\ channel' = channel \o inHand /\ inHand' = <<>>
    /\ produced' = produced + 1 /\ producer' = "recv" /\ elapsed' = 0
    /\ UNCHANGED <<stopReason, next, emptyPolls, accepted>>

(* tx.send returns once the channel has room. *)
Send ==
    /\ producer = "send"
    /\ writer # "cancelled"
    /\ Len(channel) < ChannelCapacity
    /\ channel' = channel \o inHand
    /\ inHand' = <<>>
    /\ produced' = produced + 1
    /\ IF ShouldStopAfter(cmd, produced')
         THEN StopProducer("limitAfter") /\ UNCHANGED elapsed
         ELSE producer' = "recv" /\ elapsed' = 0 /\ UNCHANGED stopReason
    /\ UNCHANGED <<next, emptyPolls, accepted>>

Recv ==
    \/ \E p \in Partitions :
          RecvRejected(p) \/ RecvPastLimit(p) \/ RecvAccepted(p)
    \/ RecvNoise
    \/ RecvNothing
    \/ RecvError

Producer ==
    /\ \/ Recv /\ UNCHANGED channel
       \/ Send
    /\ UNCHANGED <<cmd, writerVars, runVars>>

-----------------------------------------------------------------------------
(* The writer task. *)

(* Mutants: the newest message first; a writer that waits for the end. *)
WriterRecvNewest ==
    /\ writer = "recv" /\ channel # <<>>
    /\ inFlight' = <<channel[Len(channel)]>>
    /\ channel' = SubSeq(channel, 1, Len(channel) - 1)
    /\ writer' = "store" /\ UNCHANGED <<consumed, attempted>>

WriterRecvAtEnd ==
    /\ writer = "recv" /\ channel # <<>> /\ producer = "done"
    /\ inFlight' = <<Head(channel)>> /\ channel' = Tail(channel)
    /\ writer' = "store" /\ UNCHANGED <<consumed, attempted>>

WriterRecv ==
    /\ writer = "recv"
    /\ channel # <<>>
    /\ inFlight' = <<Head(channel)>>
    /\ channel' = Tail(channel)
    /\ writer' = "store"
    /\ UNCHANGED <<consumed, attempted>>

(* Mutant: run keeps a sender. *)
WriterClosedByRun ==
    /\ writer = "recv" /\ channel = <<>> /\ run = "returned"
    /\ writer' = "flush" /\ UNCHANGED <<channel, inFlight, consumed, attempted>>

(* rx.recv() yields None: the sender is dropped and the channel is empty. *)
WriterClosed ==
    /\ writer = "recv"
    /\ channel = <<>>
    /\ producer \in {"done", "cancelled"}
    /\ writer' = "flush"
    /\ UNCHANGED <<channel, inFlight, consumed, attempted>>

(* Mutants: a message that failed is queued again, behind the others; the   *)
(* message is skipped.                                                      *)
StoreMessageRequeued ==
    /\ writer = "store" /\ inFlight' = <<>> /\ writer' = "recv"
    /\ \/ /\ consumed' = consumed + 1
          /\ attempted' = attempted \o inFlight /\ UNCHANGED channel
       \/ channel' = channel \o inFlight /\ UNCHANGED <<consumed, attempted>>

StoreMessageSkipped ==
    /\ writer = "store" /\ inFlight' = <<>> /\ writer' = "recv"
    /\ \/ consumed' = consumed + 1 /\ attempted' = attempted \o inFlight
       \/ UNCHANGED <<consumed, attempted>>
    /\ UNCHANGED channel

(* store_message returns; an error is logged and the message is given up. *)
StoreMessage ==
    /\ writer = "store"
    /\ consumed' \in {consumed, consumed + 1}
    /\ attempted' = attempted \o inFlight
    /\ inFlight' = <<>>
    /\ writer' = "recv"
    /\ UNCHANGED channel

(* The result of the flush is ignored. *)
Flush ==
    /\ writer = "flush"
    /\ writer' = "done"
    /\ UNCHANGED <<channel, inFlight, consumed, attempted>>

Writer ==
    /\ WriterRecv \/ WriterClosed \/ StoreMessage \/ Flush
    /\ UNCHANGED <<cmd, producerVars, runVars>>

-----------------------------------------------------------------------------
(* run: wait for the producer, then for the writer, then return. *)

JoinProducer ==
    /\ run = "joinProducer"
    /\ producer = "done"
    /\ run' = "joinWriter"
    /\ UNCHANGED result

(* Mutant: the writer is not waited for. *)
JoinWriterAtOnce ==
    /\ run = "joinWriter"
    /\ run' = "returned" /\ result' = consumed

JoinWriter ==
    /\ run = "joinWriter"
    /\ writer = "done"
    /\ run' = "returned"
    /\ result' = consumed

Run ==
    /\ JoinProducer \/ JoinWriter
    /\ UNCHANGED <<cmd, producerVars, channel, writerVars>>

Next == Producer \/ Writer \/ Run

(***************************************************************************)
(* The multi-threaded runtime keeps polling every task that is ready, and  *)
(* recv_next returns within its timeout: each task keeps taking steps.     *)
(***************************************************************************)
Fairness ==
    /\ WF_vars(Producer)
    /\ WF_vars(Writer)
    /\ WF_vars(Run)

Spec == Init /\ [][Next]_vars /\ Fairness

-----------------------------------------------------------------------------
(* Properties. *)

(* Every accepted message is in exactly one place, and in the order it was  *)
(* accepted: offered to the storage, being stored, in the channel, or in    *)
(* the producer's hand.  Nothing is lost, doubled or reordered on the way.  *)
Conservation ==
    accepted = attempted \o inFlight \o channel \o inHand

(* Where messages may be, given what the tasks are doing: a polling producer *)
(* and a waiting writer hold none, the writer leaves its loop only when the *)
(* producer is gone and the channel is empty, and run gets past each join   *)
(* only when the task it joins is done.                                     *)
HandOver ==
    /\ producer \in {"recv", "done"} => inHand = <<>>
    /\ producer = "send" => Len(inHand) = 1
    /\ writer = "recv" => inFlight = <<>>
    /\ writer = "store" => Len(inFlight) = 1
    /\ writer \in {"flush", "done"} =>
          producer = "done" /\ channel = <<>> /\ inFlight = <<>>
    /\ Len(channel) <= ChannelCapacity
    /\ run # "joinProducer" => producer = "done"
    /\ run = "returned" => writer = "done" /\ result = consumed
    /\ "cancelled" \notin {producer, writer}

Wanted(m) == Matches(cmd, m) /\ ~ShouldStopBefore(cmd, m)

Of(p) == {i \in DOMAIN accepted : accepted[i].partition = p}

(* Filtering and limits act record by record: what was accepted of a        *)
(* partition is what its delivered records hold that matches the filter and *)
(* lies before the limits, each of them once and in offset order.           *)
PartitionFaithful ==
    \A p \in Partitions :
        /\ {accepted[i] : i \in Of(p)} =
               {m \in {Topic[p][i] : i \in 1..(next[p] - 1)} : Wanted(m)}
        /\ \A i, j \in Of(p) : i < j => accepted[i].offset < accepted[j].offset

(* The capture ends at the first record that reaches a limit: while the     *)
(* producer runs, no delivered record that matches lies past a limit, and   *)
(* the count has not been reached by what it has sent.                      *)
LimitsStopAtOnce ==
    producer \in {"recv", "send"} =>
        /\ \A p \in Partitions : \A i \in 1..(next[p] - 1) :
              Matches(cmd, Topic[p][i]) => ~ShouldStopBefore(cmd, Topic[p][i])
        /\ cmd.count # None => produced = 0 \/ produced < cmd.count

(* A producer that is still polling has not seen the idle time pass: silence *)
(* of IdleShutdownAfter ends the capture at the next empty poll.  And        *)
(* nothing but silence does: a capture that ended as idle has seen empty     *)
(* polls that can have taken that long, and no message between them.         *)
IdleWindow ==
    /\ producer = "recv" => emptyPolls * PollTimeout < IdleShutdownAfter
    /\ stopReason = "idle" =>
          emptyPolls * (PollTimeout + MaxDelay) >= IdleShutdownAfter

(* However slow the storage is, the messages in memory are bounded: the     *)
(* channel, one in the producer's hand, one in the writer's.                *)
Backpressure ==
    Len(accepted) - Len(attempted) <= ChannelCapacity + 2

(* When run returns, the storage has been offered everything that was       *)
(* accepted and flushed after the last offer, and the number run returns is *)
(* the writer's final one.                                                  *)
ReturnIsComplete ==
    run = "returned" =>
        /\ attempted = accepted
        /\ writer = "done"
        /\ result = consumed

Elements(s) == {s[i] : i \in DOMAIN s}

(* A message that was accepted is offered to the storage sooner or later,   *)
(* whatever else the topic delivers and however many stores fail.           *)
AcceptedIsAttempted ==
    \A m \in Message : (m \in Elements(accepted)) ~> (m \in Elements(attempted))

(* Every capture ends, unless a flow of rejected records goes on for ever. *)
Terminates == <>[][~RecvNoise]_vars => <>(run = "returned")

(* The pump implements the abstract capture: the pending messages are the   *)
(* ones in the writer's hand, in the channel and in the producer's hand.    *)
Abstract == INSTANCE Capture WITH
    Bound <- ChannelCapacity + 2,
    pending <- inFlight \o channel \o inHand,
    taken <- consumed,
    reported <- result,
    phase <- IF run = "returned" THEN "finished"
             ELSE IF producer = "done" THEN "draining" ELSE "open"

ImplementsCapture == Abstract!Spec
=============================================================================
