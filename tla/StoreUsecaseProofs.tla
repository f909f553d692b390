-------------------------- MODULE StoreUsecaseProofs --------------------------
(***************************************************************************)
(* What holds of the process for every command line, topic, broker and     *)
(* channel capacity, wherever a signal or an error cuts the capture short. *)
(* Flow is the pump's invariant with room for cancelled tasks: where the   *)
(* accepted messages are.  Stages says which of the calls store() makes    *)
(* have been made at each stage.  Together they are inductive.             *)
(***************************************************************************)
EXTENDS StoreUsecase, SequenceLemmas

(* A cancelled task keeps what it held; a producer whose send failed holds  *)
(* its message too, but that takes a writer that was cancelled.             *)
Hands ==
    /\ producer = "recv" => inHand = <<>>
    /\ producer = "send" => Len(inHand) = 1
    /\ producer = "done" /\ writer # "cancelled" => inHand = <<>>
    /\ Len(inHand) <= 1
    /\ writer = "recv" => inFlight = <<>>
    /\ writer = "store" => Len(inFlight) = 1
    /\ Len(inFlight) <= 1
    /\ writer \in {"flush", "done"} =>
          /\ producer \in {"done", "cancelled"}
          /\ channel = <<>> /\ inFlight = <<>>
    /\ Len(channel) <= ChannelCapacity

Joins ==
    /\ run # "joinProducer" => producer = "done"
    /\ run = "returned" => writer = "done"

Flow == Pump!TypeOK /\ Pump!Conservation /\ Hands /\ Joins

-----------------------------------------------------------------------------
(* The pump's steps keep Flow.                                             *)

LEMMA NextOfIsMessage ==
    ASSUME Pump!TypeOK, NEW p \in Partitions, next[p] <= Len(Topic[p])
    PROVE  Pump!NextOf(p) \in Pump!Message
<1>1. next[p] \in Nat \ {0} /\ Topic[p] \in Seq(Pump!Message)
  BY StoreAssumption DEF Pump!TypeOK
<1>2. next[p] \in DOMAIN Topic[p]
  BY <1>1
<1> QED BY <1>2 DEF Pump!NextOf, Pump!Message

(* A poll that accepts nothing leaves every message where it was. *)
LEMMA QuietPoll ==
    ASSUME Flow, producer = "recv",
           next' \in [Partitions -> Nat \ {0}],
           producer' \in {"recv", "done"}, stopReason' \in Pump!StopReasons,
           elapsed' \in Nat, emptyPolls' \in Nat,
           UNCHANGED <<cmd, inHand, produced, accepted, channel, writerVars,
                       run, result>>
    PROVE  Flow'
<1>1. Pump!TypeOK'
  BY DEF Flow, Pump!TypeOK, writerVars
<1>2. Pump!Conservation'
  BY DEF Flow, Pump!Conservation, writerVars
<1>3. Hands'
  BY DEF Flow, Hands, writerVars
<1>4. Joins'
  BY DEF Flow, Joins, Pump!TypeOK, writerVars
<1> QED BY <1>1, <1>2, <1>3, <1>4 DEF Flow

LEMMA RecvFlow ==
    ASSUME Flow, Pump!Recv, UNCHANGED <<cmd, channel, writerVars, run, result>>
    PROVE  Flow'
<1> USE DEF Flow
<1>1. ASSUME NEW p \in Partitions, Pump!RecvRejected(p) PROVE Flow'
  <2>1. next' \in [Partitions -> Nat \ {0}]
    BY <1>1 DEF Pump!RecvRejected, Pump!Deliver, Pump!TypeOK
  <2> QED
    BY <2>1, <1>1, QuietPoll DEF Pump!RecvRejected, Pump!Deliver, Pump!TypeOK
<1>2. ASSUME NEW p \in Partitions, Pump!RecvPastLimit(p) PROVE Flow'
  <2>1. next' \in [Partitions -> Nat \ {0}]
    BY <1>2 DEF Pump!RecvPastLimit, Pump!Deliver, Pump!TypeOK
  <2> QED
    BY <2>1, <1>2, QuietPoll
    DEF Pump!RecvPastLimit, Pump!Deliver, Pump!StopProducer, Pump!StopReasons,
        Pump!TypeOK
<1>3. ASSUME NEW p \in Partitions, Pump!RecvAccepted(p) PROVE Flow'
  <2> DEFINE m == Pump!NextOf(p)
  <2>1. m \in Pump!Message
    BY <1>3, NextOfIsMessage DEF Pump!RecvAccepted, Pump!Deliver
  <2>2. next' \in [Partitions -> Nat \ {0}]
    BY <1>3 DEF Pump!RecvAccepted, Pump!Deliver, Pump!TypeOK
  <2>3. /\ inHand' = <<m>> /\ accepted' = Append(accepted, m)
        /\ producer = "recv" /\ producer' = "send" /\ emptyPolls' = 0
        /\ UNCHANGED <<produced, elapsed, stopReason>>
    BY <1>3 DEF Pump!RecvAccepted, Pump!Deliver
  <2> HIDE DEF m
  <2>4. /\ <<m>> \in Seq(Pump!Message) /\ Len(<<m>>) = 1
        /\ accepted' \in Seq(Pump!Message) /\ accepted' = accepted \o <<m>>
    BY <2>1, <2>3, SingletonIsSeq, AppendProperties, AppendIsConcat
    DEF Pump!TypeOK
  <2>5. Pump!TypeOK'
    BY <2>2, <2>3, <2>4 DEF Pump!TypeOK, writerVars
  <2>6. Pump!Conservation'
    <3>1. accepted = attempted \o inFlight \o channel
      <4>1. inHand = <<>>
        BY <2>3 DEF Hands
      <4>2. attempted \o inFlight \o channel \in Seq(Pump!Message)
        BY ThreeConcat DEF Pump!TypeOK
      <4> QED BY <4>1, <4>2, ConcatEmptySeq DEF Pump!Conservation
    <3> QED BY <3>1, <2>3, <2>4 DEF Pump!Conservation, writerVars
  <2>7. Hands' /\ Joins'
    BY <2>3, <2>4 DEF Hands, Joins, writerVars
  <2> QED BY <2>5, <2>6, <2>7
<1>4. ASSUME Pump!RecvNoise PROVE Flow'
  BY <1>4, QuietPoll DEF Pump!RecvNoise, Pump!TypeOK
<1>5. ASSUME Pump!RecvNothing PROVE Flow'
  <2>1. elapsed' \in Nat
    BY <1>5, StoreAssumption DEF Pump!RecvNothing, Pump!TypeOK
  <2> QED
    BY <2>1, <1>5, QuietPoll
    DEF Pump!RecvNothing, Pump!StopProducer, Pump!StopReasons, Pump!TypeOK
<1>6. ASSUME Pump!RecvError PROVE Flow'
  BY <1>6, QuietPoll
  DEF Pump!RecvError, Pump!StopProducer, Pump!StopReasons, Pump!TypeOK
<1> QED BY <1>1, <1>2, <1>3, <1>4, <1>5, <1>6 DEF Pump!Recv

LEMMA SendFlow ==
    ASSUME Flow, Pump!Send, UNCHANGED <<cmd, writerVars, run, result>>
    PROVE  Flow'
<1> USE DEF Flow
<1>1. /\ inHand \in Seq(Pump!Message) /\ Len(inHand) = 1
      /\ channel \in Seq(Pump!Message) /\ Len(channel) < ChannelCapacity
      /\ channel' = channel \o inHand /\ inHand' = <<>>
      /\ producer = "send" /\ producer' \in {"recv", "done"}
      /\ stopReason' \in Pump!StopReasons /\ produced' \in Nat /\ elapsed' \in Nat
      /\ UNCHANGED <<next, emptyPolls, accepted>>
  BY DEF Pump!Send, Pump!StopProducer, Pump!StopReasons, Pump!TypeOK, Hands
<1>2. channel' \in Seq(Pump!Message) /\ Len(channel') = Len(channel) + 1
  <2>1. /\ channel \o inHand \in Seq(Pump!Message)
        /\ Len(channel \o inHand) = Len(channel) + Len(inHand)
    BY <1>1, ConcatProperties
  <2> QED BY <1>1, <2>1
<1>3. Pump!TypeOK'
  BY <1>1, <1>2, EmptySeq DEF Pump!TypeOK, writerVars
<1>4. Pump!Conservation'
  <2> DEFINE offered == attempted \o inFlight
  <2>1. offered \in Seq(Pump!Message)
    BY ConcatProperties DEF Pump!TypeOK
  <2>2. accepted = (offered \o channel) \o inHand /\ offered' = offered
    BY DEF Pump!Conservation, writerVars
  <2> HIDE DEF offered
  <2>3. (offered \o channel) \o inHand = offered \o (channel \o inHand)
    BY <1>1, <2>1, ConcatAssociative
  <2>4. (offered \o channel') \o <<>> = offered \o channel'
    BY <1>2, <2>1, ConcatProperties, ConcatEmptySeq
  <2>5. accepted' = (offered' \o channel') \o inHand'
    BY <1>1, <2>2, <2>3, <2>4
  <2> QED BY <2>5 DEF Pump!Conservation, offered
<1>5. Hands' /\ Joins'
  <2>1. Len(channel') <= ChannelCapacity
    BY <1>1, <1>2, StoreAssumption
  <2>2. writer \notin {"flush", "done"} /\ run = "joinProducer"
    BY <1>1 DEF Hands, Joins, Pump!TypeOK
  <2>3. Len(inHand') <= 1
    BY <1>1
  <2> QED BY <1>1, <2>1, <2>2, <2>3 DEF Hands, Joins, writerVars
<1> QED BY <1>3, <1>4, <1>5

(* The send that fails because the receiver is gone keeps its message. *)
LEMMA SendErrorFlow ==
    ASSUME Flow, SendError
    PROVE  Flow'
<1> USE DEF Flow
<1>1. /\ producer = "send" /\ writer = "cancelled" /\ producer' = "done"
      /\ stopReason' = "closed"
      /\ UNCHANGED <<cmd, next, inHand, produced, elapsed, emptyPolls, accepted,
                     channel, writer, inFlight, consumed, attempted, run, result>>
  BY DEF SendError, Pump!StopProducer, writerVars
<1>2. Pump!TypeOK'
  BY <1>1 DEF Pump!TypeOK, Pump!StopReasons
<1>3. Pump!Conservation'
  BY <1>1 DEF Pump!Conservation
<1>4. Hands' /\ Joins'
  BY <1>1 DEF Hands, Joins
<1> QED BY <1>2, <1>3, <1>4

LEMMA ProducerFlow ==
    ASSUME Flow, Producer
    PROVE  Flow'
<1>1. CASE SendError
  BY <1>1, SendErrorFlow
<1>2. CASE Pump!Producer
  <2>1. UNCHANGED <<cmd, writerVars, run, result>>
    BY <1>2 DEF Pump!Producer, Pump!writerVars, Pump!runVars, writerVars
  <2> QED BY <1>2, <2>1, RecvFlow, SendFlow DEF Pump!Producer
<1> QED BY <1>1, <1>2 DEF Producer

LEMMA WriterFlow ==
    ASSUME Flow, Pump!Writer
    PROVE  Flow'
<1> USE DEF Flow
<1>1. UNCHANGED <<cmd, next, producer, inHand, produced, elapsed, stopReason,
                  emptyPolls, accepted, run, result>>
  BY DEF Pump!Writer, Pump!producerVars, Pump!runVars
<1>2. CASE Pump!WriterRecv
  <2> DEFINE m == Head(channel)
  <2>1. /\ writer = "recv" /\ writer' = "store" /\ inFlight = <<>>
        /\ channel \in Seq(Pump!Message) /\ channel # <<>>
        /\ inFlight' = <<m>> /\ channel' = Tail(channel)
        /\ UNCHANGED <<consumed, attempted>>
    BY <1>2 DEF Pump!WriterRecv, Hands, Pump!TypeOK
  <2>2. /\ m \in Pump!Message /\ channel' \in Seq(Pump!Message)
        /\ Len(channel') = Len(channel) - 1
    BY <2>1, HeadTailProperties
  <2>3. <<m>> \in Seq(Pump!Message) /\ Len(<<m>>) = 1
    BY <2>2, SingletonIsSeq
  <2>4. <<m>> \o channel' = channel
    BY <2>1, HeadThenTail
  <2> HIDE DEF m
  <2>5. Pump!TypeOK'
    BY <1>1, <2>1, <2>2, <2>3 DEF Pump!TypeOK
  <2>6. Pump!Conservation'
    <3>1. attempted \in Seq(Pump!Message)
      BY DEF Pump!TypeOK
    <3>2. (attempted \o <<>>) \o channel = (attempted \o <<m>>) \o channel'
      BY <2>1, <2>2, <2>3, <2>4, <3>1, ConcatAssociative, ConcatEmptySeq
    <3> QED BY <1>1, <2>1, <3>2 DEF Pump!Conservation
  <2>7. Hands' /\ Joins'
    <3>1. Len(channel') <= ChannelCapacity
      BY <2>1, <2>2, StoreAssumption DEF Hands
    <3>2. run # "returned"
      BY <2>1 DEF Joins
    <3> QED BY <1>1, <2>1, <2>3, <3>1, <3>2 DEF Hands, Joins
  <2> QED BY <2>5, <2>6, <2>7
<1>3. CASE Pump!WriterClosed
  BY <1>1, <1>3
  DEF Pump!WriterClosed, Pump!TypeOK, Pump!Conservation, Hands, Joins
<1>4. CASE Pump!StoreMessage
  <2>1. /\ attempted' = attempted \o inFlight /\ inFlight' = <<>>
        /\ writer = "store" /\ writer' = "recv" /\ UNCHANGED channel
        /\ consumed' \in Nat
    BY <1>4 DEF Pump!StoreMessage, Pump!TypeOK
  <2>2. attempted' \in Seq(Pump!Message)
    BY <2>1, ConcatProperties DEF Pump!TypeOK
  <2>3. Pump!TypeOK'
    BY <1>1, <2>1, <2>2, EmptySeq DEF Pump!TypeOK
  <2>4. Pump!Conservation'
    BY <1>1, <2>1, <2>2, ConcatEmptySeq DEF Pump!Conservation
  <2>5. Hands' /\ Joins'
    <3>1. Len(inFlight') <= 1
      BY <2>1
    <3> QED BY <1>1, <2>1, <3>1 DEF Hands, Joins
  <2> QED BY <2>3, <2>4, <2>5
<1>5. CASE Pump!Flush
  BY <1>1, <1>5
  DEF Pump!Flush, Pump!TypeOK, Pump!Conservation, Hands, Joins
<1> QED BY <1>2, <1>3, <1>4, <1>5 DEF Pump!Writer

LEMMA RunFlow ==
    ASSUME Flow, Pump!Run
    PROVE  Flow'
<1> USE DEF Flow
<1>1. UNCHANGED <<cmd, next, producer, inHand, produced, elapsed, stopReason,
                  emptyPolls, accepted, channel, writer, inFlight, consumed,
                  attempted>>
  BY DEF Pump!Run, Pump!producerVars, Pump!writerVars
<1>2. CASE Pump!JoinProducer
  BY <1>1, <1>2
  DEF Pump!JoinProducer, Pump!TypeOK, Pump!Conservation, Hands, Joins
<1>3. CASE Pump!JoinWriter
  BY <1>1, <1>3
  DEF Pump!JoinWriter, Pump!TypeOK, Pump!Conservation, Hands, Joins
<1> QED BY <1>2, <1>3 DEF Pump!Run

(* Cancelling a task takes no message from where it is; run has returned    *)
(* only if no task was there to be cancelled.                               *)
LEMMA CancelFlow ==
    ASSUME Flow, Cancel
    PROVE  Flow'
<1> USE DEF Flow
<1>1. CASE CancelProducer
  BY <1>1
  DEF CancelProducer, writerVars, Pump!TypeOK, Pump!Conservation, Hands, Joins
<1>2. CASE CancelWriter
  BY <1>2
  DEF CancelWriter, Pump!TypeOK, Pump!Conservation, Hands, Joins
<1> QED BY <1>1, <1>2 DEF Cancel

LEMMA StillFlow ==
    ASSUME Flow, UNCHANGED pumpVars
    PROVE  Flow'
  BY DEF Flow, pumpVars, Pump!TypeOK, Pump!Conservation, Hands, Joins

LEMMA InitFlow ==
    ASSUME Init
    PROVE  Flow
<1>1. /\ <<>> \in Seq(Pump!Message) /\ <<>> \o <<>> \o <<>> \o <<>> = <<>>
      /\ Len(<<>>) = 0
  BY EmptySeq, ConcatEmptySeq
<1>2. cmd \in StoreCommands
  BY DEF Init, Pump!Init
<1>3. Pump!TypeOK
  BY <1>1, <1>2 DEF Init, Pump!Init, Pump!TypeOK, Pump!StopReasons
<1>4. Pump!Conservation
  BY <1>1 DEF Init, Pump!Init, Pump!Conservation
<1>5. Hands /\ Joins
  BY <1>1, StoreAssumption DEF Init, Pump!Init, Hands, Joins
<1> QED BY <1>3, <1>4, <1>5 DEF Flow

-----------------------------------------------------------------------------
(* The stages of the process.                                              *)

Types ==
    /\ flags \in CommandLines
    /\ stage \in SetupStages \cup {"select"} \cup ClosingStages \cup LastStages
    /\ consumer \in {"none", "created", "assigned", "closing", "closed",
                    "dropping", "destroyed"}
    /\ closeLeft \in 0..CloseDeadline
    /\ storage \in {"none", "open", "closed"}
    /\ tasks \in {"none", "queued", "running"}
    /\ listening \subseteq Signals
    /\ raised \subseteq Signals
    /\ outcome \in Outcomes

(* What has been decided on the way to a stage. *)
Passed ==
    /\ cmd = CommandOf(flags)
    /\ stage = "execute" => ClapAccepts(flags) /\ flags.command = "store"
    /\ stage \notin {"parse", "execute"} \cup LastStages => Captures(flags)
    /\ stage \in {"select"} \cup ClosingStages => flags.keyRegex # InvalidRegex
    /\ stage \notin LastStages => outcome = "none"

(* What has been touched so far. *)
Touched ==
    /\ ~Captures(flags) => consumer = "none" /\ storage = "none" /\ tasks = "none"
    /\ flags.keyRegex = InvalidRegex => tasks = "none" /\ attempted = <<>>

Taken == storage = "closed" \/ consumer \in {"closing", "closed"}

(* In which order things are closed. *)
Closing ==
    /\ Taken => run = "returned"
    /\ stage \in SetupStages \cup {"select"} => ~Taken
    /\ stage \in ClosingStages => run = "returned"
    /\ stage \in {"stopConsumer", "closeConsumer", "drainConsumer"} =>
          storage = "closed"
    /\ stage \in {"closeConsumer", "drainConsumer"} =>
          consumer \in {"closing", "closed"}
    /\ outcome = "ok" /\ Captures(flags) =>
          /\ run = "returned" /\ storage = "closed"
          /\ consumer \in {"closing", "closed"}

Stages == Types /\ Passed /\ Touched /\ Closing

LEMMA InitStages ==
    ASSUME Init
    PROVE  Stages
  BY CloseDeadlineAssumption
  DEF Init, Pump!Init, Stages, Types, Passed, Touched, Closing, Taken, SetupStages,
      ClosingStages, LastStages, Outcomes, Signals

(* A step of store() or main before select! leaves the pump alone.         *)
LEMMA SetupStagesKept ==
    ASSUME Stages, Setup,
           UNCHANGED <<listening, flags, raised, pumpVars>>
    PROVE  Stages'
<1> USE DEF Stages, Types, Passed, Touched, Closing, Taken, SetupStages,
            ClosingStages, LastStages, Outcomes, At, Goto, Return, consumerVars,
            storageVars, pumpVars
<1>1. CASE ParseCommandLine
  BY <1>1 DEF ParseCommandLine, NotImplemented, Captures
<1>2. CASE Execute
  BY <1>2 DEF Execute, Captures
<1>3. CASE CreateConsumer
  BY <1>3 DEF CreateConsumer
<1>4. CASE Initialize
  BY <1>4 DEF Initialize
<1>5. CASE FetchMetadata
  BY <1>5 DEF FetchMetadata
<1>6. CASE OffsetsForTimes
  BY <1>6 DEF OffsetsForTimes
<1>7. CASE Assign
  BY <1>7 DEF Assign
<1>8. CASE FetchOffsetPositions
  BY <1>8 DEF FetchOffsetPositions
<1>9. CASE InitStorage
  BY <1>9 DEF InitStorage
<1>10. CASE CreateTask
  BY <1>10 DEF CreateTask, CommandOf
<1> QED
  BY <1>1, <1>2, <1>3, <1>4, <1>5, <1>6, <1>7, <1>8, <1>9, <1>10 DEF Setup

LEMMA AppStages ==
    ASSUME Stages, App
    PROVE  Stages'
<1>1. UNCHANGED <<flags, raised, pumpVars>>
  BY DEF App
<1> USE DEF Stages, Types, Passed, Touched, Closing, Taken, SetupStages,
            ClosingStages, LastStages, Outcomes, At, Goto, Return, consumerVars,
            storageVars, pumpVars
<1>2. CASE Setup /\ UNCHANGED listening
  BY <1>1, <1>2, SetupStagesKept
<1>3. ASSUME NEW s \in Signals, Listen(s) PROVE Stages'
  BY <1>1, <1>3 DEF Listen
<1>4. ASSUME NEW s \in Signals, SelectSignal(s) PROVE Stages'
  BY <1>1, <1>4 DEF SelectSignal
<1>5. CASE SpawnTasks
  BY <1>1, <1>5 DEF SpawnTasks
<1>6. CASE SelectPump
  BY <1>1, <1>6 DEF SelectPump
<1>7. CASE CloseStorage
  BY <1>1, <1>7 DEF CloseStorage
<1>8. CASE StopConsumer
  BY <1>1, <1>8 DEF StopConsumer
<1>9. CASE DrainConsumer
  BY <1>1, <1>9, CloseDeadlineAssumption DEF DrainConsumer
<1>10. CASE ForgetConsumer
  BY <1>1, <1>10 DEF ForgetConsumer
<1>11. CASE DropConsumer
  BY <1>1, <1>11 DEF DropConsumer, WithConsumer
<1>12. CASE Leave
  BY <1>1, <1>12 DEF Leave
<1>13. CASE Exit
  BY <1>1, <1>13 DEF Exit
<1> QED
  BY <1>2, <1>3, <1>4, <1>5, <1>6, <1>7, <1>8, <1>9, <1>10, <1>11, <1>12, <1>13
  DEF App

LEMMA LibrdkafkaStages ==
    ASSUME Stages, Librdkafka
    PROVE  Stages'
<1>1. UNCHANGED <<flags, raised, pumpVars>>
  BY DEF Librdkafka
<1> USE DEF Stages, Types, Passed, Touched, Closing, Taken, SetupStages,
            ClosingStages, LastStages, Outcomes, At, Goto, storageVars, pumpVars
<1>2. CASE CloseReturns
  BY <1>1, <1>2, CloseDeadlineAssumption DEF CloseReturns
<1>3. CASE ConsumerDestroyed
  BY <1>1, <1>3 DEF ConsumerDestroyed
<1> QED BY <1>2, <1>3 DEF Librdkafka

LEMMA RaiseStages ==
    ASSUME Stages, NEW s \in Signals, Raise(s)
    PROVE  Stages'
  BY DEF Raise, Stages, Types, Passed, Touched, Closing, Taken, SetupStages,
         ClosingStages, LastStages, Outcomes, consumerVars, storageVars, pumpVars

(* A task's step changes nothing but the pump's variables: run, once it has *)
(* returned, stays so, and nothing is attempted before the tasks exist.     *)
LEMMA TaskStages ==
    ASSUME Stages, UNCHANGED appVars, cmd' = cmd,
           run = "returned" => run' = "returned",
           tasks = "none" => attempted' = attempted
    PROVE  Stages'
  BY DEF appVars, consumerVars, storageVars, Stages, Types, Passed, Touched,
         Closing, Taken, SetupStages, ClosingStages, LastStages, Outcomes

LEMMA ProducerStages ==
    ASSUME Stages, Producer
    PROVE  Stages'
<1>1. UNCHANGED appVars
  BY DEF Producer
<1>2. UNCHANGED <<cmd, run, attempted>>
  BY DEF Producer, Pump!Producer, Pump!writerVars, Pump!runVars, SendError,
         writerVars
<1> QED BY <1>1, <1>2, TaskStages

LEMMA WriterStages ==
    ASSUME Stages, Writer
    PROVE  Stages'
<1>1. UNCHANGED appVars /\ tasks # "none"
  BY DEF Writer, Alive
<1>2. UNCHANGED <<cmd, run>>
  BY DEF Writer, Pump!Writer, Pump!runVars
<1> QED BY <1>1, <1>2, TaskStages

LEMMA RunStages ==
    ASSUME Stages, Run
    PROVE  Stages'
<1>1. UNCHANGED appVars
  BY DEF Run
<1>2. UNCHANGED <<cmd, attempted>> /\ run # "returned"
  BY DEF Run, Pump!Run, Pump!writerVars, Pump!JoinProducer, Pump!JoinWriter
<1> QED BY <1>1, <1>2, TaskStages

LEMMA CancelStages ==
    ASSUME Stages, Cancel
    PROVE  Stages'
<1>1. UNCHANGED <<appVars, cmd, run, attempted>>
  BY DEF Cancel, CancelProducer, CancelWriter, writerVars
<1> QED BY <1>1, TaskStages

LEMMA StartStages ==
    ASSUME Stages, StartProducer
    PROVE  Stages'
  BY DEF StartProducer, Stages, Types, Passed, Touched, Closing, Taken, SetupStages,
         ClosingStages, LastStages, Outcomes, consumerVars, storageVars, pumpVars

-----------------------------------------------------------------------------
(* The invariant of the process.                                           *)

Inv == Flow /\ Stages

LEMMA InitInv == Init => Inv
  BY InitFlow, InitStages DEF Inv

LEMMA NextInv == Inv /\ [Next]_vars => Inv'
<1> SUFFICES ASSUME Inv, [Next]_vars PROVE Inv'
  OBVIOUS
<1> USE DEF Inv
<1>1. CASE App
  <2>1. UNCHANGED pumpVars
    BY <1>1 DEF App
  <2> QED BY <1>1, <2>1, StillFlow, AppStages
<1>9. CASE Librdkafka
  <2>1. UNCHANGED pumpVars
    BY <1>9 DEF Librdkafka
  <2> QED BY <1>9, <2>1, StillFlow, LibrdkafkaStages
<1>2. ASSUME NEW s \in Signals, Raise(s) PROVE Inv'
  <2>1. UNCHANGED pumpVars
    BY <1>2 DEF Raise
  <2> QED BY <1>2, <2>1, StillFlow, RaiseStages
<1>3. CASE StartProducer
  <2>1. UNCHANGED pumpVars
    BY <1>3 DEF StartProducer
  <2> QED BY <1>3, <2>1, StillFlow, StartStages
<1>4. CASE Producer
  BY <1>4, ProducerFlow, ProducerStages
<1>5. CASE Writer
  BY <1>5, WriterFlow, WriterStages DEF Writer
<1>6. CASE Run
  BY <1>6, RunFlow, RunStages DEF Run
<1>7. CASE Cancel
  BY <1>7, CancelFlow, CancelStages
<1>8. CASE UNCHANGED vars
  <2>1. UNCHANGED pumpVars /\ UNCHANGED appVars
    BY <1>8 DEF vars
  <2>2. UNCHANGED <<cmd, run, attempted>>
    BY <2>1 DEF pumpVars
  <2> QED BY <2>1, <2>2, StillFlow, TaskStages
<1> QED
  BY <1>1, <1>2, <1>3, <1>4, <1>5, <1>6, <1>7, <1>8, <1>9 DEF Next

(* Inv holds in every state the process goes through. *)
THEOREM StoreInvariant == Spec => []Inv
  BY InitInv, NextInv, PTL DEF Spec

-----------------------------------------------------------------------------
(* What follows from it.                                                   *)

(* Type correctness of the process's state. *)
THEOREM StoreTypeOK == Spec => []TypeOK
<1>1. Inv => TypeOK
  BY DEF Inv, Flow, Stages, Types, TypeOK
<1> QED BY <1>1, StoreInvariant, PTL

(* A command line that clap or execute turns down, that only simulates, or  *)
(* that is not for `store` creates no consumer, storage or task; nothing is *)
(* polled with a filter that does not compile.                              *)
THEOREM StoreRefusedTouchesNothing == Spec => []RefusedTouchesNothing
<1>1. Inv => RefusedTouchesNothing
  BY DEF Inv, Stages, Touched, RefusedTouchesNothing
<1> QED BY <1>1, StoreInvariant, PTL

(* Success means that every accepted message was offered to the storage,    *)
(* which was closed, and that the consumer was stopped.                     *)
THEOREM StoreOkIsComplete == Spec => []OkIsComplete
<1>1. Inv => OkIsComplete
  <2> SUFFICES ASSUME Inv, outcome = "ok", Captures(flags)
               PROVE  /\ run = "returned" /\ attempted = accepted
                      /\ storage = "closed" /\ consumer \in {"closing", "closed"}
    BY DEF OkIsComplete
  <2>1. /\ run = "returned" /\ storage = "closed"
        /\ consumer \in {"closing", "closed"}
    BY DEF Inv, Stages, Closing
  <2>2. /\ producer = "done" /\ writer = "done"
        /\ inHand = <<>> /\ inFlight = <<>> /\ channel = <<>>
    BY <2>1 DEF Inv, Flow, Hands, Joins
  <2>3. attempted \in Seq(Pump!Message)
    BY DEF Inv, Flow, Pump!TypeOK
  <2>4. attempted = accepted
    BY <2>2, <2>3, ConcatEmptySeq DEF Inv, Flow, Pump!Conservation
  <2> QED BY <2>1, <2>4
<1> QED BY <1>1, StoreInvariant, PTL

(* However the capture ends, what was offered is a prefix of what was       *)
(* accepted, and at most the channel and a message in each hand is lost.    *)
THEOREM StoreLossIsBounded == Spec => []LossIsBounded
<1>1. Inv => LossIsBounded
  <2> SUFFICES ASSUME Inv PROVE LossIsBounded
    OBVIOUS
  <2>1. /\ attempted \in Seq(Pump!Message) /\ inFlight \in Seq(Pump!Message)
        /\ channel \in Seq(Pump!Message) /\ inHand \in Seq(Pump!Message)
    BY DEF Inv, Flow, Pump!TypeOK
  <2>2. /\ Len(inFlight) <= 1 /\ Len(inHand) <= 1
        /\ Len(channel) <= ChannelCapacity
    BY DEF Inv, Flow, Hands
  <2>3. accepted = attempted \o inFlight \o channel \o inHand
    BY DEF Inv, Flow, Pump!Conservation
  <2>4. /\ Len(accepted) = Len(attempted) + Len(inFlight) + Len(channel)
                           + Len(inHand)
        /\ SubSeq(accepted, 1, Len(attempted)) = attempted
    BY <2>1, <2>3, OfferedIsPrefix
  <2>5. /\ Len(attempted) \in Nat /\ Len(inFlight) \in Nat
        /\ Len(channel) \in Nat /\ Len(inHand) \in Nat
    BY <2>1
  <2> QED BY <2>2, <2>4, <2>5, StoreAssumption DEF LossIsBounded
<1> QED BY <1>1, StoreInvariant, PTL

(* Once the storage is closed or the consumer taken, no task polls or       *)
(* stores: both came to their end before.                                   *)
THEOREM StoreQuietAfterClose == Spec => QuietAfterClose
<1> DEFINE Quiet == storage = "closed" \/ consumer \in {"closing", "closed"}
                    => UNCHANGED <<next, emptyPolls, attempted>>
<1>1. Inv /\ [Next]_vars => [Quiet]_vars
  <2> SUFFICES ASSUME Inv, Next, Taken
               PROVE  UNCHANGED <<next, emptyPolls, attempted>>
    BY DEF Taken
  <2>1. run = "returned" /\ producer = "done" /\ writer = "done"
    BY DEF Inv, Stages, Closing, Flow, Joins
  <2>2. CASE App \/ Librdkafka \/ StartProducer \/ \E s \in Signals : Raise(s)
    <3>1. UNCHANGED pumpVars
      BY <2>2 DEF App, Librdkafka, StartProducer, Raise
    <3> QED BY <3>1 DEF pumpVars
  <2>3. ~Producer
    BY <2>1
    DEF Producer, SendError, Pump!Producer, Pump!Send, Pump!Recv,
        Pump!RecvRejected, Pump!RecvPastLimit, Pump!RecvAccepted, Pump!Deliver,
        Pump!RecvNoise, Pump!RecvNothing, Pump!RecvError
  <2>4. ~Writer
    BY <2>1
    DEF Writer, Pump!Writer, Pump!WriterRecv, Pump!WriterClosed,
        Pump!StoreMessage, Pump!Flush
  <2>5. ~Run
    BY <2>1 DEF Run, Pump!Run, Pump!JoinProducer, Pump!JoinWriter
  <2>6. ~Cancel
    BY <2>1 DEF Cancel, CancelProducer, CancelWriter
  <2> QED BY <2>2, <2>3, <2>4, <2>5, <2>6 DEF Next
<1> QED BY <1>1, StoreInvariant, PTL DEF Spec, QuietAfterClose

-----------------------------------------------------------------------------
(* Where the capture starts. *)

(* --from-offsets, which nothing reads, aside. *)
AskedStarts ==
    /\ DOMAIN assignment = Partitions
    /\ flags.fromOffsets = None =>
          \A p \in Partitions : AskedStart(p, RawOf(assignment[p]))

(* How the assignment comes about on the way to assign(). *)
Positions ==
    /\ stage \in {"parse", "execute", "createConsumer", "initialize",
                  "fetchMetadata", "offsetsForTimes", "assign"}
          => consumer # "assigned"
    /\ stage = "offsetsForTimes" =>
          ~flags.fromBeginning /\ flags.fromTimestamp # None
    /\ stage = "assign" => AskedStarts
    /\ consumer = "assigned" => AskedStarts /\ TplToRdkafkaSucceeds(assignment)

LEMMA RawOfKind ==
    /\ RawOf(Beginning) = RawBeginning
    /\ RawOf(End) = RawEnd
    /\ \A n : RawOf(Offset(n)) = n
<1>1. RawOf(Beginning) = RawBeginning
  <2>1. Beginning.kind = "Beginning"
    BY DEF Beginning
  <2> QED BY <2>1 DEF RawOf
<1>2. RawOf(End) = RawEnd
  <2>1. End.kind = "End"
    BY DEF End
  <2> QED BY <2>1 DEF RawOf
<1>3. ASSUME NEW n PROVE RawOf(Offset(n)) = n
  <2>1. Offset(n).kind = "Offset" /\ Offset(n).n = n
    BY DEF Offset
  <2> QED BY <2>1 DEF RawOf
<1> QED BY <1>1, <1>2, <1>3

LEMMA RawOfDomain == \A raw : RawOf(DomainOf(raw)) = raw
<1> SUFFICES ASSUME NEW raw PROVE RawOf(DomainOf(raw)) = raw
  OBVIOUS
<1>1. RawBeginning # RawEnd
  BY DEF RawBeginning, RawEnd
<1>2. CASE raw = RawBeginning
  BY <1>1, <1>2, RawOfKind DEF DomainOf
<1>3. CASE raw = RawEnd
  BY <1>1, <1>3, RawOfKind DEF DomainOf
<1>4. CASE raw # RawBeginning /\ raw # RawEnd
  BY <1>4, RawOfKind DEF DomainOf
<1> QED BY <1>2, <1>3, <1>4

(* The flags exclude each other, so the first that From looks at decides. *)
LEMMA ParsedStart ==
    ASSUME flags \in CommandLines, Captures(flags), cmd = CommandOf(flags),
           cmd.from.kind # "Timestamp",
           assignment' = ParseTopicAssignment(cmd.from, Partitions),
           UNCHANGED flags
    PROVE  AskedStarts'
<1>1. flags.fromBeginning \in BOOLEAN /\ cmd.from = From(flags)
  BY CommandLinesAssumption DEF CommandOf
<1>2. flags.fromBeginning => flags.fromTimestamp = None
  BY DEF Captures, ClapAccepts, AtMostOne, Given
<1>3. DOMAIN assignment' = Partitions
  BY DEF ParseTopicAssignment
<1>4. ASSUME NEW p \in Partitions, flags.fromOffsets = None
      PROVE  AskedStart(p, RawOf(assignment'[p]))
  <2>1. CASE flags.fromBeginning
    <3>1. assignment'[p] = Beginning
      BY <1>1, <2>1 DEF From, ParseTopicAssignment
    <3> QED BY <1>2, <1>4, <2>1, <3>1, RawOfKind DEF AskedStart
  <2>2. CASE ~flags.fromBeginning
    <3>1. flags.fromTimestamp = None
      BY <1>1, <2>2 DEF From
    <3>2. assignment'[p] = End
      BY <1>1, <2>2, <3>1 DEF From, ParseTopicAssignment
    <3> QED BY <1>4, <2>2, <3>1, <3>2, RawOfKind DEF AskedStart
  <2> QED BY <1>1, <2>1, <2>2
<1> QED BY <1>3, <1>4 DEF AskedStarts, AskedStart

LEMMA ResolvedStart ==
    ASSUME ~flags.fromBeginning, flags.fromTimestamp # None,
           NEW tpl \in [Partitions -> RawOffsets],
           assignment' = TplFromRdkafka(tpl), UNCHANGED flags
    PROVE  AskedStarts'
<1>1. DOMAIN assignment' = Partitions
  BY DEF TplFromRdkafka
<1>2. ASSUME NEW p \in Partitions, flags.fromOffsets = None
      PROVE  AskedStart(p, RawOf(assignment'[p]))
  <2>1. RawOf(assignment'[p]) = tpl[p]
    BY RawOfDomain DEF TplFromRdkafka
  <2> QED BY <1>2, <2>1 DEF AskedStart
<1> QED BY <1>1, <1>2 DEF AskedStarts, AskedStart

LEMMA PositionsStep == Inv /\ Positions /\ [Next]_vars => Positions'
<1> SUFFICES ASSUME Inv, Positions, [Next]_vars PROVE Positions'
  OBVIOUS
<1> DEFINE Early == {"parse", "execute", "createConsumer", "initialize",
                     "fetchMetadata", "offsetsForTimes", "assign"}
<1>1. /\ flags' = flags /\ flags \in CommandLines /\ cmd = CommandOf(flags)
      /\ stage \notin {"parse", "execute"} \cup LastStages => Captures(flags)
  BY DEF Inv, Stages, Types, Passed, Next, App, Librdkafka, Raise,
         StartProducer, Producer,
         Writer, Run, Cancel, CancelProducer, CancelWriter, vars, appVars
<1>2. ASSUME assignment' = assignment,
             consumer' = consumer \/ consumer' # "assigned",
             stage' = stage \/ stage' \notin Early
      PROVE  Positions'
  BY <1>1, <1>2 DEF Positions, AskedStarts, AskedStart
<1>3. CASE Setup
  <2> USE DEF At, Goto, Return, consumerVars, storageVars
  <2>1. CASE ParseCommandLine \/ Execute
    <3>1. assignment' = assignment /\ consumer' = consumer
      BY <2>1 DEF ParseCommandLine, Execute
    <3>2. /\ stage \in {"parse", "execute"}
          /\ stage' \in {"execute", "createConsumer", "leaving", "exited"}
      BY <2>1 DEF ParseCommandLine, Execute, NotImplemented
    <3> QED BY <1>1, <3>1, <3>2 DEF Positions, AskedStarts, AskedStart
  <2>2. CASE CreateConsumer \/ Initialize
    BY <1>1, <2>2 DEF CreateConsumer, Initialize, Positions
  <2>3. CASE FetchMetadata
    <3>1. CASE stage' = "leaving"
      BY <1>2, <2>3, <3>1 DEF FetchMetadata
    <3>2. CASE stage' = "assign"
      <4>1. Captures(flags) /\ cmd.from.kind # "Timestamp"
            /\ assignment' = ParseTopicAssignment(cmd.from, Partitions)
        BY <1>1, <2>3, <3>2 DEF FetchMetadata, LastStages
      <4>2. AskedStarts'
        BY <1>1, <4>1, ParsedStart
      <4> QED BY <2>3, <3>2, <4>2 DEF FetchMetadata, Positions
    <3>3. CASE stage' = "offsetsForTimes"
      <4>1. cmd.from.kind = "Timestamp" /\ cmd.from = From(flags)
            /\ flags.fromBeginning \in BOOLEAN
        BY <1>1, <2>3, <3>3, CommandLinesAssumption DEF FetchMetadata, CommandOf
      <4>2. ~flags.fromBeginning /\ flags.fromTimestamp # None
        BY <4>1 DEF From
      <4> QED BY <1>1, <2>3, <3>3, <4>2 DEF FetchMetadata, Positions
    <3> QED BY <2>3, <3>1, <3>2, <3>3 DEF FetchMetadata
  <2>4. CASE OffsetsForTimes
    <3>1. CASE stage' = "leaving"
      BY <1>2, <2>4, <3>1 DEF OffsetsForTimes
    <3>2. CASE stage' = "assign"
      <4>1. PICK tpl \in [Partitions -> RawOffsets] :
                assignment' = TplFromRdkafka(tpl)
        BY <2>4, <3>2 DEF OffsetsForTimes
      <4>2. AskedStarts'
        BY <1>1, <2>4, <4>1, ResolvedStart DEF OffsetsForTimes, Positions
      <4> QED BY <2>4, <3>2, <4>2 DEF OffsetsForTimes, Positions
    <3> QED BY <2>4, <3>1, <3>2 DEF OffsetsForTimes
  <2>5. CASE Assign
    BY <1>1, <2>5
    DEF Assign, Positions, AskedStarts, AskedStart, TplToRdkafkaSucceeds
  <2>6. CASE FetchOffsetPositions \/ InitStorage \/ CreateTask
    BY <1>2, <2>6 DEF FetchOffsetPositions, InitStorage, CreateTask
  <2> QED BY <1>3, <2>1, <2>2, <2>3, <2>4, <2>5, <2>6 DEF Setup
<1>4. CASE App /\ ~Setup
  <2> USE DEF At, Goto, Return, consumerVars, storageVars
  <2>1. /\ assignment' = assignment
        /\ consumer' = consumer \/ consumer' # "assigned"
    BY <1>4
    DEF App, Listen, SelectSignal, SpawnTasks, SelectPump, CloseStorage,
        StopConsumer, DrainConsumer, ForgetConsumer, DropConsumer, Leave, Exit
  <2>2. stage' = stage \/ stage' \notin Early
    BY <1>4
    DEF App, Listen, SelectSignal, SpawnTasks, SelectPump, CloseStorage,
        StopConsumer, DrainConsumer, ForgetConsumer, DropConsumer, Leave, Exit
  <2> QED BY <1>2, <2>1, <2>2
<1>5. CASE \E s \in Signals : Raise(s)
  BY <1>2, <1>5 DEF Raise, consumerVars
<1>8. CASE Librdkafka
  BY <1>2, <1>8 DEF Librdkafka, CloseReturns, ConsumerDestroyed, At, Goto
<1>6. CASE StartProducer \/ UNCHANGED appVars
  BY <1>2, <1>6 DEF StartProducer, appVars, consumerVars
<1>7. UNCHANGED vars => UNCHANGED appVars
  BY DEF vars
<1> QED
  BY <1>3, <1>4, <1>5, <1>6, <1>7, <1>8
  DEF Next, Producer, Writer, Run, Cancel, CancelProducer, CancelWriter

(* Unless --from-offsets was given, every partition is assigned the start   *)
(* the flags ask for, and one that librdkafka can take.                     *)
THEOREM StoreStartsWhereAsked ==
    Spec => [](flags.fromOffsets = None => StartsWhereAsked)
<1>1. Init => Positions
  BY DEF Init, Positions
<1>2. Positions => (flags.fromOffsets = None => StartsWhereAsked)
  BY DEF Positions, AskedStarts, StartsWhereAsked
<1> QED BY <1>1, <1>2, InitInv, NextInv, PositionsStep, PTL DEF Spec

-----------------------------------------------------------------------------
(* What is captured. *)

AtMost(count) == IF count = 0 THEN 1 ELSE count

(* The message in the producer's hand is accepted but not yet counted; the  *)
(* limit stops the producer only once it has them all.                      *)
Counted ==
    /\ Len(accepted) = produced + Len(inHand)
    /\ stopReason = "limitAfter" =>
          cmd.count # None /\ Len(accepted) >= cmd.count
    /\ cmd.count # None =>
          /\ Len(accepted) <= AtMost(cmd.count)
          /\ producer = "recv" => produced = 0 \/ produced < cmd.count

(* Said of the command. *)
Selected ==
    \A i \in DOMAIN accepted :
        Matches(cmd, accepted[i]) /\ ~ShouldStopBefore(cmd, accepted[i])

(* The kind and the format of the storage are the command's. *)
Destination ==
    /\ stage \in SetupStages \ {"createTask"} => storage = "none"
    /\ stage \in {"createTask", "select"} \cup ClosingStages => storage # "none"
    /\ storage # "none" => backend = CreateStorage(cmd)

(* The pump selects as MessageSelection does. *)
LEMMA PumpSelection ==
    ASSUME NEW c, NEW m, NEW n
    PROVE  /\ Pump!Matches(c, m) <=> Matches(c, m)
           /\ Pump!ShouldStopBefore(c, m) <=> ShouldStopBefore(c, m)
           /\ Pump!ShouldStopAfter(c, n) <=> ShouldStopAfter(c, n)
<1>1. Pump!Matches(c, m) <=> Matches(c, m)
  BY DEF Matches, PartitionMatches, KeyMatches, HeadersMatch, Pump!Matches,
         Pump!PartitionMatches, Pump!KeyMatches, Pump!HeadersMatch
<1>2. Pump!ShouldStopBefore(c, m) <=> ShouldStopBefore(c, m)
  BY DEF ShouldStopBefore, AsI64, Pump!ShouldStopBefore, Pump!AsI64
<1>3. Pump!ShouldStopAfter(c, n) <=> ShouldStopAfter(c, n)
  BY DEF ShouldStopAfter, Pump!ShouldStopAfter
<1> QED BY <1>1, <1>2, <1>3

(* Only two steps touch what Counted and Selected speak of.                 *)
LEMMA AcceptedSteps ==
    ASSUME Inv, [Next]_vars
    PROVE  /\ UNCHANGED <<cmd, flags>>
           /\ \/ \E p \in Partitions : Pump!RecvAccepted(p) /\ UNCHANGED channel
              \/ Pump!Send
              \/ /\ UNCHANGED <<accepted, produced, inHand>>
                 /\ producer' = "recv" => producer = "recv"
                 /\ stopReason' = "limitAfter" => stopReason = "limitAfter"
<1> DEFINE Quiet == /\ UNCHANGED <<accepted, produced, inHand>>
                    /\ producer' = "recv" => producer = "recv"
                    /\ stopReason' = "limitAfter" => stopReason = "limitAfter"
<1>1. UNCHANGED <<cmd, flags>>
  BY DEF Next, App, Librdkafka, Raise, StartProducer, Producer, Writer, Run, Cancel,
         CancelProducer, CancelWriter, vars, appVars, pumpVars, Pump!Producer,
         Pump!Writer, Pump!Run, SendError
<1>2. UNCHANGED pumpVars => Quiet
  BY DEF pumpVars
<1>3. CASE \/ App \/ Librdkafka \/ StartProducer \/ UNCHANGED vars
           \/ \E s \in Signals : Raise(s)
  BY <1>1, <1>2, <1>3 DEF App, Librdkafka, StartProducer, Raise, vars
<1>4. CASE Writer \/ Run \/ Cancel
  BY <1>1, <1>4
  DEF Writer, Run, Cancel, CancelProducer, CancelWriter, Pump!Writer, Pump!Run,
      Pump!producerVars
<1>5. CASE Producer
  <2>1. CASE SendError
    BY <1>1, <2>1 DEF SendError, Pump!StopProducer
  <2>2. CASE Pump!Recv /\ UNCHANGED channel
    BY <1>1, <2>2
    DEF Pump!Recv, Pump!RecvRejected, Pump!RecvPastLimit, Pump!RecvNoise,
        Pump!RecvNothing, Pump!RecvError, Pump!Deliver, Pump!StopProducer
  <2> QED BY <1>1, <1>5, <2>1, <2>2 DEF Producer, Pump!Producer
<1> QED BY <1>3, <1>4, <1>5 DEF Next

LEMMA CountedStep == Inv /\ Counted /\ [Next]_vars => Counted'
<1> SUFFICES ASSUME Inv, Counted, [Next]_vars PROVE Counted'
  OBVIOUS
<1>1. /\ accepted \in Seq(Pump!Message) /\ inHand \in Seq(Pump!Message)
      /\ produced \in Nat /\ Len(accepted) \in Nat /\ Len(<<>>) = 0
  BY DEF Inv, Flow, Pump!TypeOK
<1>2. cmd' = cmd /\ (cmd.count # None => cmd.count \in Nat)
  <2>1. flags \in CommandLines /\ cmd = CommandOf(flags) /\ cmd' = cmd
    BY AcceptedSteps DEF Inv, Stages, Types, Passed
  <2> QED BY <2>1, CommandLinesAssumption DEF CommandOf
<1>3. ASSUME NEW p \in Partitions, Pump!RecvAccepted(p) PROVE Counted'
  <2> DEFINE m == Pump!NextOf(p)
  <2>1. m \in Pump!Message
    BY <1>3, NextOfIsMessage
    DEF Pump!RecvAccepted, Pump!Deliver, Inv, Flow
  <2>2. /\ accepted' = Append(accepted, m) /\ inHand' = <<m>>
        /\ produced' = produced /\ producer = "recv" /\ producer' = "send"
        /\ stopReason' = stopReason
    BY <1>3 DEF Pump!RecvAccepted, Pump!Deliver
  <2>3. inHand = <<>>
    BY <2>2 DEF Inv, Flow, Hands
  <2> HIDE DEF m
  <2>4. Len(accepted') = Len(accepted) + 1 /\ Len(inHand') = 1
    BY <1>1, <2>1, <2>2, AppendProperties
  <2>5. Len(accepted) = produced
    BY <1>1, <2>3 DEF Counted
  <2>6. cmd.count # None => Len(accepted') <= AtMost(cmd.count)
    BY <1>1, <1>2, <2>2, <2>4, <2>5 DEF Counted, AtMost
  <2> QED BY <1>1, <1>2, <2>2, <2>4, <2>5, <2>6 DEF Counted
<1>4. CASE Pump!Send
  <2>1. /\ inHand' = <<>> /\ produced' = produced + 1 /\ accepted' = accepted
        /\ producer = "send"
        /\ ~ShouldStopAfter(cmd, produced') \/ producer' = "done"
        /\ stopReason' = stopReason \/ ShouldStopAfter(cmd, produced')
    BY <1>4, PumpSelection DEF Pump!Send, Pump!StopProducer
  <2>2. Len(inHand) = 1
    BY <2>1 DEF Inv, Flow, Hands
  <2>3. Len(accepted') = produced' + Len(inHand')
    BY <1>1, <2>1, <2>2 DEF Counted
  <2>4. cmd.count # None /\ producer' = "recv" => produced' < cmd.count
    BY <1>1, <1>2, <2>1 DEF ShouldStopAfter
  <2>5. ShouldStopAfter(cmd, produced') =>
           cmd.count # None /\ Len(accepted') >= cmd.count
    <3>1. Len(inHand') = 0 /\ produced' \in Nat
      BY <1>1, <2>1
    <3> QED BY <2>3, <3>1 DEF ShouldStopAfter
  <2> QED BY <1>2, <2>1, <2>3, <2>4, <2>5 DEF Counted
<1>5. CASE /\ UNCHANGED <<accepted, produced, inHand>>
           /\ producer' = "recv" => producer = "recv"
           /\ stopReason' = "limitAfter" => stopReason = "limitAfter"
  BY <1>2, <1>5 DEF Counted
<1> QED BY <1>3, <1>4, <1>5, AcceptedSteps

LEMMA SelectedStep == Inv /\ Selected /\ [Next]_vars => Selected'
<1> SUFFICES ASSUME Inv, Selected, [Next]_vars PROVE Selected'
  OBVIOUS
<1> DEFINE Kept(c, m) == Matches(c, m) /\ ~ShouldStopBefore(c, m)
<1>1. accepted \in Seq(Pump!Message) /\ cmd' = cmd
  BY AcceptedSteps DEF Inv, Flow, Pump!TypeOK
<1>2. CASE UNCHANGED accepted
  BY <1>1, <1>2 DEF Selected
<1>3. ASSUME NEW p \in Partitions, Pump!RecvAccepted(p) PROVE Selected'
  <2> DEFINE m == Pump!NextOf(p)
  <2>1. m \in Pump!Message
    BY <1>3, NextOfIsMessage
    DEF Pump!RecvAccepted, Pump!Deliver, Inv, Flow
  <2>2. accepted' = Append(accepted, m) /\ Kept(cmd, m)
    BY <1>3, PumpSelection DEF Pump!RecvAccepted
  <2>3. \A i \in DOMAIN accepted : Kept(cmd, accepted[i])
    BY DEF Selected
  <2> HIDE DEF m, Kept
  <2>4. /\ DOMAIN accepted' = 1..(Len(accepted) + 1) /\ Len(accepted) \in Nat
        /\ DOMAIN accepted = 1..Len(accepted)
        /\ accepted'[Len(accepted) + 1] = m
        /\ \A i \in DOMAIN accepted : accepted'[i] = accepted[i]
    BY <1>1, <2>1, <2>2, AppendProperties
  <2>5. ASSUME NEW i \in DOMAIN accepted' PROVE Kept(cmd, accepted'[i])
    <3>1. i \in DOMAIN accepted \/ i = Len(accepted) + 1
      BY <2>4
    <3> QED BY <2>2, <2>3, <2>4, <3>1
  <2>6. \A i \in DOMAIN accepted' : Kept(cmd', accepted'[i])
    BY <1>1, <2>5
  <2> QED BY <2>6 DEF Selected, Kept
<1> QED BY <1>2, <1>3, AcceptedSteps DEF Pump!Send

LEMMA DestinationStep == Inv /\ Destination /\ [Next]_vars => Destination'
<1> SUFFICES ASSUME Inv, Destination, [Next]_vars PROVE Destination'
  OBVIOUS
<1>1. cmd' = cmd
  BY AcceptedSteps
<1> USE DEF Destination, SetupStages, ClosingStages, At, Goto, Return,
            consumerVars, storageVars
<1>2. ASSUME UNCHANGED storageVars, stage' = stage \/ stage' = "exited"
      PROVE  Destination'
  BY <1>1, <1>2
<1>3. CASE Setup
  <2>1. CASE InitStorage
    BY <1>1, <2>1 DEF InitStorage
  <2>2. CASE ParseCommandLine \/ Execute \/ CreateConsumer \/ Initialize
    BY <1>1, <2>2
    DEF ParseCommandLine, Execute, NotImplemented, CreateConsumer, Initialize
  <2>3. CASE FetchMetadata \/ OffsetsForTimes \/ Assign \/ FetchOffsetPositions
    BY <1>1, <2>3 DEF FetchMetadata, OffsetsForTimes, Assign, FetchOffsetPositions
  <2>4. CASE CreateTask
    BY <1>1, <2>4 DEF CreateTask
  <2> QED BY <1>3, <2>1, <2>2, <2>3, <2>4 DEF Setup
<1>4. CASE App /\ ~Setup
  BY <1>1, <1>4
  DEF App, Listen, SelectSignal, SpawnTasks, SelectPump, CloseStorage,
      StopConsumer, DrainConsumer, ForgetConsumer, DropConsumer, Leave, Exit
<1>8. CASE Librdkafka
  BY <1>1, <1>8 DEF Librdkafka, CloseReturns, ConsumerDestroyed
<1>5. CASE StartProducer \/ \E s \in Signals : Raise(s)
  BY <1>2, <1>5 DEF StartProducer, Raise
<1>6. CASE UNCHANGED appVars
  BY <1>2, <1>6 DEF appVars
<1>7. UNCHANGED vars => UNCHANGED appVars
  BY DEF vars
<1> QED
  BY <1>3, <1>4, <1>5, <1>6, <1>7, <1>8
  DEF Next, Producer, Writer, Run, Cancel, CancelProducer, CancelWriter

(* Of the last --header with a name that h names, the value. *)
LEMMA HeadersAsked ==
    ASSUME flags \in CommandLines, cmd = CommandOf(flags), NEW m,
           HeadersMatch(cmd, m), flags.header # None,
           NEW i \in DOMAIN flags.header, Len(flags.header[i]) = 2
    PROVE  \E j \in i..Len(flags.header) :
              /\ Len(flags.header[j]) = 2
              /\ flags.header[j][1] = flags.header[i][1]
              /\ AskedHeader(m, flags.header[j][1], flags.header[j][2])
<1> DEFINE h == flags.header
           n == Len(h)
           I == {j \in DOMAIN h : Len(h[j]) = 2}
           k == h[i][1]
           hs == Inserted(h, I)
<1>1. n \in Nat /\ DOMAIN h = 1..n
  BY CommandLinesAssumption
<1>2. I \in SUBSET (0..n) /\ i \in I
  BY <1>1
<1>3. k \in Keys(h, I)
  BY <1>2 DEF Keys
<1>4. cmd.headers = hs /\ cmd.headers # None
  BY HeadersAssumption DEF CommandOf, HeadersMap
<1> HIDE DEF h, n, I, hs
<1>5. /\ DOMAIN hs = Keys(h, I)
      /\ \E j \in I : /\ h[j][1] = k
                      /\ \A l \in I : h[l][1] = k => l <= j
                      /\ hs[k] = h[j][2]
  BY <1>1, <1>2, <1>3, InsertedHoldsLast DEF hs
<1>6. PICK j \in I : h[j][1] = k /\ i <= j /\ hs[k] = h[j][2]
  BY <1>2, <1>5
<1>7. AskedHeader(m, k, hs[k])
  BY <1>3, <1>4, <1>5 DEF HeadersMatch, AskedHeader
<1>8. j \in i..n /\ Len(h[j]) = 2
  BY <1>1, <1>2, <1>6 DEF I
<1> QED BY <1>6, <1>7, <1>8 DEF h, n

(* Selected said of the flags. *)
LEMMA SelectedIsAsked ==
    ASSUME flags \in CommandLines, cmd = CommandOf(flags),
           NEW m \in Pump!Message, Matches(cmd, m), ~ShouldStopBefore(cmd, m)
    PROVE  AskedFor(m)
<1>1. /\ cmd.partitions = flags.partitions /\ cmd.keyRegex = flags.keyRegex
      /\ cmd.untilOffset = flags.untilOffset
      /\ cmd.untilTimestamp = flags.untilTimestamp
  BY DEF CommandOf
<1>2. PartitionMatches(cmd, m) /\ KeyMatches(cmd, m) /\ HeadersMatch(cmd, m)
  BY DEF Matches
<1>3. /\ flags.untilOffset # None => flags.untilOffset \in Nat
      /\ flags.untilTimestamp # None => flags.untilTimestamp \in Int
      /\ m.offset \in Int /\ (m.timestamp # None => m.timestamp \in Int)
  BY CommandLinesAssumption, StoreAssumption
<1>4. flags.untilOffset # None => m.offset < flags.untilOffset
  <2> SUFFICES ASSUME flags.untilOffset # None PROVE m.offset < flags.untilOffset
    OBVIOUS
  <2> DEFINE u == flags.untilOffset
  <2>1. ~(m.offset >= AsI64(u))
    BY <1>1 DEF ShouldStopBefore
  <2>2. AsI64(u) <= u /\ AsI64(u) \in Int
    BY <1>3, MaxI64Assumption DEF AsI64
  <2> QED BY <1>3, <2>1, <2>2
<1>5. flags.untilTimestamp # None /\ m.timestamp # None =>
         m.timestamp < flags.untilTimestamp
  BY <1>1, <1>3 DEF ShouldStopBefore
<1>6. /\ flags.partitions # None => m.partition \in flags.partitions
      /\ flags.keyRegex # None => m.key \in flags.keyRegex
  BY <1>1, <1>2 DEF PartitionMatches, KeyMatches
<1>7. flags.header # None =>
         \A i \in DOMAIN flags.header :
            Len(flags.header[i]) = 2 =>
               \E j \in i..Len(flags.header) :
                  /\ Len(flags.header[j]) = 2
                  /\ flags.header[j][1] = flags.header[i][1]
                  /\ AskedHeader(m, flags.header[j][1], flags.header[j][2])
  BY <1>2, HeadersAsked
<1> QED BY <1>4, <1>5, <1>6, <1>7 DEF AskedFor

(* The names that mean what they are documented to mean. *)
LEMMA FormatDocumented ==
    ASSUME NEW name, name \notin {"json-hybrid", "hybrid"}
    PROVE  ParseFormat(name) = DocumentedFormat(name)
<1>1. CASE name = "json"
  BY <1>1, Zenon DEF ParseFormat, DocumentedFormat
<1>2. CASE name = "json-hybrid-base64" \/ name = "base64"
  BY <1>2 DEF ParseFormat, DocumentedFormat
<1>3. CASE name = "json-hybrid-utf8" \/ name = "utf8"
  BY <1>3 DEF ParseFormat, DocumentedFormat
<1>4. CASE name = "json-hybrid-force-utf8" \/ name = "force-utf8"
  BY <1>4 DEF ParseFormat, DocumentedFormat
<1>5. CASE name = "json-hybrid-value" \/ name = "value"
  BY <1>5 DEF ParseFormat, DocumentedFormat
<1>6. CASE name \notin {"json", "json-hybrid-base64", "base64", "json-hybrid-utf8",
                       "utf8", "json-hybrid-force-utf8", "force-utf8",
                       "json-hybrid-value", "value"}
  BY <1>6 DEF ParseFormat, DocumentedFormat
<1> QED BY <1>1, <1>2, <1>3, <1>4, <1>5, <1>6

(* Every message that is captured is one all well-formed flags allow; but   *)
(* for --count 0, a capture that --count ends has exactly that many, and no *)
(* capture has more; and they go to the storage and, but for json-hybrid,   *)
(* in the encoding that is documented, whatever the flags were, from the    *)
(* command line through the command, the filter, the limits and the channel. *)
THEOREM StoreCapturedAsAsked == Spec => []CapturedAsAsked
<1>1. Init => Counted /\ Selected /\ Destination
  <2> SUFFICES ASSUME Init PROVE Counted /\ Selected /\ Destination
    OBVIOUS
  <2>1. /\ accepted = <<>> /\ inHand = <<>> /\ produced = 0 /\ stage = "parse"
        /\ stopReason = "none" /\ storage = "none"
        /\ flags \in CommandLines /\ cmd = CommandOf(flags)
    BY DEF Init, Pump!Init
  <2>2. cmd.count # None => cmd.count \in Nat
    BY <2>1, CommandLinesAssumption DEF CommandOf
  <2> QED BY <2>1, <2>2
       DEF Counted, AtMost, Selected, Destination, SetupStages, ClosingStages
<1>2. Inv /\ Counted /\ Selected /\ Destination => CapturedAsAsked
  <2> SUFFICES ASSUME Inv, Counted, Selected, Destination PROVE CapturedAsAsked
    OBVIOUS
  <2>1. flags \in CommandLines /\ cmd = CommandOf(flags)
    BY DEF Inv, Stages, Types, Passed
  <2>2. ASSUME NEW i \in DOMAIN accepted PROVE AskedFor(accepted[i])
    <3>1. accepted[i] \in Pump!Message
      BY DEF Inv, Flow, Pump!TypeOK
    <3> QED BY <2>1, <3>1, SelectedIsAsked DEF Selected
  <2>3. flags.count # 0 => CountIsObeyed
    <3>1. cmd.count = flags.count
      BY <2>1 DEF CommandOf
    <3>2. Len(accepted) \in Nat /\ (flags.count # None => flags.count \in Nat)
      BY <2>1, CommandLinesAssumption DEF Inv, Flow, Pump!TypeOK
    <3> QED BY <3>1, <3>2 DEF Counted, AtMost, CountIsObeyed
  <2>4. ASSUME storage # "none"
        PROVE  /\ flags.toDir # None <=> backend.kind = "Directory"
               /\ flags.toFile # None <=> backend.kind = "SingleFile"
               /\ flags.format \notin {"json-hybrid", "hybrid"} =>
                     FormatIsDocumented
    <3>1. ~Refused(flags)
      BY <2>4 DEF Inv, Stages, Touched, Captures
    <3>2. (flags.toDir = None) # (flags.toFile = None)
      BY <3>1 DEF Refused
    <3>3. /\ cmd.to = IF flags.toDir # None THEN "Directory" ELSE "SingleFile"
          /\ cmd.format = ParseFormat(flags.format)
      BY <2>1 DEF CommandOf
    <3>4. backend = CreateStorage(cmd)
      BY <2>4 DEF Destination
    <3>5. /\ flags.toDir # None <=> backend.kind = "Directory"
          /\ flags.toFile # None <=> backend.kind = "SingleFile"
          /\ backend.format = ParseFormat(flags.format)
      BY <3>2, <3>3, <3>4 DEF CreateStorage, DirectoryConfig, SingleFileConfig
    <3> QED BY <3>5, FormatDocumented DEF FormatIsDocumented
  <2>5. flags.format \notin {"json-hybrid", "hybrid"} => FormatIsDocumented
    BY <2>4 DEF FormatIsDocumented
  <2> QED BY <2>2, <2>3, <2>4, <2>5 DEF CapturedAsAsked
<1> QED
  BY <1>1, <1>2, InitInv, NextInv, CountedStep, SelectedStep, DestinationStep,
     PTL DEF Spec
=============================================================================
