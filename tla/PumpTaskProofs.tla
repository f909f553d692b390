--------------------------- MODULE PumpTaskProofs ---------------------------
(***************************************************************************)
(* What holds of PumpTask for every topic, every set of commands, every    *)
(* channel capacity and every timing.  Inv is inductive: Conservation says *)
(* where the accepted messages are, HandOver which of the places may be    *)
(* occupied in each state of the tasks.                                    *)
(***************************************************************************)
EXTENDS PumpTask, SequenceLemmas

Inv == TypeOK /\ Conservation /\ HandOver

-----------------------------------------------------------------------------
(* The first lines of the steps: what the tasks have in common.            *)

LEMMA NextOfIsMessage ==
    ASSUME TypeOK, NEW p \in Partitions, next[p] <= Len(Topic[p])
    PROVE  NextOf(p) \in Message
<1>1. next[p] \in Nat \ {0} /\ Topic[p] \in Seq(Message)
  BY PumpAssumption DEF TypeOK
<1>2. next[p] \in DOMAIN Topic[p]
  BY <1>1
<1> QED BY <1>2 DEF NextOf, Message

LEMMA InitInv == Init => Inv
<1> SUFFICES ASSUME Init PROVE Inv
  OBVIOUS
<1>1. <<>> \in Seq(Message) /\ <<>> \o <<>> \o <<>> \o <<>> = <<>> /\ Len(<<>>) = 0
  BY EmptySeq, ConcatEmptySeq
<1>2. TypeOK
  BY <1>1 DEF Init, TypeOK, StopReasons
<1>3. Conservation
  BY <1>1 DEF Init, Conservation
<1>4. HandOver
  BY <1>1, PumpAssumption DEF Init, HandOver
<1> QED BY <1>2, <1>3, <1>4 DEF Inv

(* A poll that accepts nothing: everything is left where it was. *)
LEMMA QuietPoll ==
    ASSUME Inv, producer = "recv",
           next' \in [Partitions -> Nat \ {0}],
           producer' \in {"recv", "done"}, stopReason' \in StopReasons,
           elapsed' \in Nat, emptyPolls' \in Nat,
           UNCHANGED <<cmd, inHand, produced, accepted, channel, writerVars,
                       runVars>>
    PROVE  Inv'
<1>1. TypeOK'
  BY DEF Inv, TypeOK, writerVars, runVars
<1>2. Conservation'
  BY DEF Inv, Conservation, writerVars
<1>3. HandOver'
  BY DEF Inv, HandOver, writerVars, runVars
<1> QED BY <1>1, <1>2, <1>3 DEF Inv

LEMMA RecvInv ==
    ASSUME Inv, Recv, UNCHANGED <<cmd, channel, writerVars, runVars>>
    PROVE  Inv'
<1> USE DEF Inv
<1>1. ASSUME NEW p \in Partitions, RecvRejected(p) PROVE Inv'
  <2>1. next' \in [Partitions -> Nat \ {0}]
    BY <1>1 DEF RecvRejected, Deliver, TypeOK
  <2> QED BY <2>1, <1>1, QuietPoll DEF RecvRejected, Deliver, TypeOK
<1>2. ASSUME NEW p \in Partitions, RecvPastLimit(p) PROVE Inv'
  <2>1. next' \in [Partitions -> Nat \ {0}]
    BY <1>2 DEF RecvPastLimit, Deliver, TypeOK
  <2> QED
    BY <2>1, <1>2, QuietPoll
    DEF RecvPastLimit, Deliver, StopProducer, StopReasons, TypeOK
<1>3. ASSUME NEW p \in Partitions, RecvAccepted(p) PROVE Inv'
  <2> DEFINE m == NextOf(p)
  <2>1. m \in Message
    BY <1>3, NextOfIsMessage DEF RecvAccepted, Deliver
  <2>2. next' \in [Partitions -> Nat \ {0}]
    BY <1>3 DEF RecvAccepted, Deliver, TypeOK
  <2>3. /\ inHand' = <<m>> /\ accepted' = Append(accepted, m)
        /\ producer = "recv" /\ producer' = "send" /\ emptyPolls' = 0
        /\ UNCHANGED <<produced, elapsed, stopReason>>
    BY <1>3 DEF RecvAccepted, Deliver
  <2> HIDE DEF m
  <2>4. /\ <<m>> \in Seq(Message) /\ Len(<<m>>) = 1
        /\ accepted' \in Seq(Message) /\ accepted' = accepted \o <<m>>
    BY <2>1, <2>3, SingletonIsSeq, AppendProperties, AppendIsConcat DEF TypeOK
  <2>5. TypeOK'
    BY <2>2, <2>3, <2>4 DEF TypeOK, writerVars, runVars
  <2>6. Conservation'
    <3>1. accepted = attempted \o inFlight \o channel
      <4>1. inHand = <<>>
        BY <2>3 DEF HandOver
      <4>2. attempted \o inFlight \o channel \in Seq(Message)
        BY ThreeConcat DEF TypeOK
      <4> QED BY <4>1, <4>2, ConcatEmptySeq DEF Conservation
    <3> QED BY <3>1, <2>3, <2>4 DEF Conservation, writerVars
  <2>7. HandOver'
    BY <2>3, <2>4 DEF HandOver, writerVars, runVars
  <2> QED BY <2>5, <2>6, <2>7
<1>4. ASSUME RecvNoise PROVE Inv'
  BY <1>4, QuietPoll DEF RecvNoise, TypeOK
<1>5. ASSUME RecvNothing PROVE Inv'
  <2>1. elapsed' \in Nat
    BY <1>5, PumpAssumption DEF RecvNothing, TypeOK
  <2> QED
    BY <2>1, <1>5, QuietPoll DEF RecvNothing, StopProducer, StopReasons, TypeOK
<1>6. ASSUME RecvError PROVE Inv'
  BY <1>6, QuietPoll DEF RecvError, StopProducer, StopReasons, TypeOK
<1> QED BY <1>1, <1>2, <1>3, <1>4, <1>5, <1>6 DEF Recv

LEMMA SendInv ==
    ASSUME Inv, Send, UNCHANGED <<cmd, writerVars, runVars>>
    PROVE  Inv'
<1> USE DEF Inv
<1>1. /\ inHand \in Seq(Message) /\ Len(inHand) = 1
      /\ channel \in Seq(Message) /\ Len(channel) < ChannelCapacity
      /\ channel' = channel \o inHand /\ inHand' = <<>>
      /\ producer = "send" /\ producer' \in {"recv", "done"}
      /\ stopReason' \in StopReasons /\ produced' \in Nat /\ elapsed' \in Nat
      /\ UNCHANGED <<next, emptyPolls, accepted>>
  BY DEF Send, StopProducer, StopReasons, TypeOK, HandOver
<1>2. channel' \in Seq(Message) /\ Len(channel') = Len(channel) + 1
  BY <1>1, ConcatProperties
<1>3. TypeOK'
  BY <1>1, <1>2, EmptySeq DEF TypeOK, writerVars, runVars
<1>4. Conservation'
  <2> DEFINE stored == attempted \o inFlight
  <2>1. stored \in Seq(Message)
    BY ConcatProperties DEF TypeOK
  <2>5. accepted = (stored \o channel) \o inHand
    BY DEF Conservation
  <2>6. stored' = stored
    BY DEF writerVars
  <2> HIDE DEF stored
  <2>2. (stored \o channel) \o inHand = stored \o (channel \o inHand)
    BY <1>1, <2>1, ConcatAssociative
  <2>3. stored \o channel' \in Seq(Message)
    BY <1>2, <2>1, ConcatProperties
  <2>4. (stored \o channel') \o <<>> = stored \o channel'
    BY <2>3, ConcatEmptySeq
  <2>7. accepted' = (stored' \o channel') \o inHand'
    BY <1>1, <2>2, <2>4, <2>5, <2>6
  <2> QED BY <2>7 DEF Conservation, stored
<1>5. HandOver'
  <2>1. Len(channel') <= ChannelCapacity
    BY <1>1, <1>2, PumpAssumption
  <2>2. writer \notin {"flush", "done"}
    BY <1>1 DEF HandOver
  <2> QED BY <1>1, <2>1, <2>2 DEF HandOver, writerVars, runVars
<1> QED BY <1>3, <1>4, <1>5

LEMMA ProducerInv ==
    ASSUME Inv, Producer
    PROVE  Inv'
  BY RecvInv, SendInv DEF Producer, writerVars, runVars

LEMMA WriterInv ==
    ASSUME Inv, Writer
    PROVE  Inv'
<1> USE DEF Inv
<1>1. UNCHANGED <<cmd, producerVars, runVars>>
  BY DEF Writer
<1>2. CASE WriterRecv
  <2> DEFINE m == Head(channel)
  <2>1. /\ writer = "recv" /\ writer' = "store" /\ inFlight = <<>>
        /\ channel \in Seq(Message) /\ channel # <<>>
        /\ inFlight' = <<m>> /\ channel' = Tail(channel)
        /\ UNCHANGED <<consumed, attempted>>
    BY <1>2 DEF WriterRecv, HandOver, TypeOK
  <2>2. /\ m \in Message /\ channel' \in Seq(Message)
        /\ Len(channel') = Len(channel) - 1
    BY <2>1, HeadTailProperties
  <2>3. <<m>> \in Seq(Message) /\ Len(<<m>>) = 1
    BY <2>2, SingletonIsSeq
  <2>4. <<m>> \o channel' = channel
    BY <2>1, HeadThenTail
  <2> HIDE DEF m
  <2>5. TypeOK'
    BY <1>1, <2>1, <2>2, <2>3 DEF TypeOK, producerVars, runVars
  <2>6. Conservation'
    <3>1. attempted \in Seq(Message)
      BY DEF TypeOK
    <3>2. (attempted \o <<>>) \o channel = (attempted \o <<m>>) \o channel'
      BY <2>1, <2>2, <2>3, <2>4, <3>1, ConcatAssociative, ConcatEmptySeq
    <3> QED BY <1>1, <2>1, <3>2 DEF Conservation, producerVars
  <2>7. HandOver'
    <3>1. Len(channel') <= ChannelCapacity
      BY <2>1, <2>2, PumpAssumption DEF HandOver
    <3> QED BY <1>1, <2>1, <2>3, <3>1 DEF HandOver, producerVars, runVars
  <2> QED BY <2>5, <2>6, <2>7
<1>3. CASE WriterClosed
  BY <1>1, <1>3
  DEF WriterClosed, TypeOK, Conservation, HandOver, producerVars, runVars
<1>4. CASE StoreMessage
  <2>1. /\ attempted' = attempted \o inFlight /\ inFlight' = <<>>
        /\ writer = "store" /\ writer' = "recv" /\ UNCHANGED channel
        /\ consumed' \in Nat
    BY <1>4 DEF StoreMessage, TypeOK
  <2>2. attempted' \in Seq(Message)
    BY <2>1, ConcatProperties DEF TypeOK
  <2>3. TypeOK'
    BY <1>1, <2>1, <2>2, EmptySeq DEF TypeOK, producerVars, runVars
  <2>4. Conservation'
    BY <1>1, <2>1, <2>2, ConcatEmptySeq DEF Conservation, producerVars
  <2>5. HandOver'
    BY <1>1, <2>1 DEF HandOver, producerVars, runVars
  <2> QED BY <2>3, <2>4, <2>5
<1>5. CASE Flush
  BY <1>1, <1>5
  DEF Flush, TypeOK, Conservation, HandOver, producerVars, runVars
<1> QED BY <1>2, <1>3, <1>4, <1>5 DEF Writer

LEMMA RunInv ==
    ASSUME Inv, Run
    PROVE  Inv'
<1> USE DEF Inv
<1>1. UNCHANGED <<cmd, producerVars, channel, writerVars>>
  BY DEF Run
<1>2. CASE JoinProducer
  BY <1>1, <1>2
  DEF JoinProducer, TypeOK, Conservation, HandOver, producerVars, writerVars
<1>3. CASE JoinWriter
  BY <1>1, <1>3
  DEF JoinWriter, TypeOK, Conservation, HandOver, producerVars, writerVars
<1> QED BY <1>2, <1>3 DEF Run

LEMMA NextInv == Inv /\ [Next]_vars => Inv'
<1> SUFFICES ASSUME Inv, [Next]_vars PROVE Inv'
  OBVIOUS
<1>1. CASE Next
  BY <1>1, ProducerInv, WriterInv, RunInv DEF Next
<1>2. CASE UNCHANGED vars
  BY <1>2 DEF vars, Inv, TypeOK, Conservation, HandOver
<1> QED BY <1>1, <1>2

(* Inv holds in every state of every behaviour of the pump. *)
THEOREM PumpInvariant == Spec => []Inv
  BY InitInv, NextInv, PTL DEF Spec

-----------------------------------------------------------------------------
(* What follows from the invariant.                                        *)

(* Type correctness of the pump's state. *)
THEOREM PumpTypeOK == Spec => []TypeOK
  BY PumpInvariant, PTL DEF Inv

(* No accepted message is lost, doubled or reordered on its way through the *)
(* producer's hand, the channel and the writer's hand.                      *)
THEOREM PumpConservation == Spec => []Conservation
  BY PumpInvariant, PTL DEF Inv

(* Messages are only where the state of the tasks lets them be. *)
THEOREM PumpHandOver == Spec => []HandOver
  BY PumpInvariant, PTL DEF Inv

(* The messages in memory are at most the channel and one in each hand,     *)
(* however slow the storage and however fast the topic.                     *)
THEOREM PumpBackpressure == Spec => []Backpressure
<1>1. Inv => Backpressure
  <2> SUFFICES ASSUME Inv PROVE Backpressure
    OBVIOUS
  <2> USE DEF Inv
  <2>1. Len(inFlight) <= 1 /\ Len(inHand) <= 1
    <3>1. Len(<<>>) = 0
      OBVIOUS
    <3>2. inFlight = <<>> \/ Len(inFlight) = 1
      BY DEF HandOver, TypeOK
    <3>3. inHand = <<>> \/ Len(inHand) = 1
      BY DEF HandOver, TypeOK
    <3> QED BY <3>1, <3>2, <3>3
  <2> DEFINE stored == attempted \o inFlight
  <2>2. stored \in Seq(Message) /\ Len(stored) = Len(attempted) + Len(inFlight)
    BY ConcatProperties DEF TypeOK
  <2>3. accepted = stored \o channel \o inHand
    BY DEF Conservation
  <2>4. /\ channel \in Seq(Message) /\ inHand \in Seq(Message)
        /\ attempted \in Seq(Message) /\ inFlight \in Seq(Message)
        /\ Len(channel) <= ChannelCapacity
    BY DEF TypeOK, HandOver
  <2> HIDE DEF stored, Inv
  <2>5. Len(accepted) = Len(stored) + Len(channel) + Len(inHand)
    <3>1. /\ stored \o channel \in Seq(Message)
          /\ Len(stored \o channel) = Len(stored) + Len(channel)
      BY <2>2, <2>4, ConcatProperties
    <3>2. Len((stored \o channel) \o inHand) = Len(stored \o channel) + Len(inHand)
      BY <2>4, <3>1, ConcatProperties
    <3> QED BY <2>3, <3>1, <3>2
  <2> QED BY <2>1, <2>2, <2>4, <2>5, PumpAssumption DEF Backpressure
<1> QED BY <1>1, PumpInvariant, PTL

(* run returns only after every accepted message was offered to the storage *)
(* and the writer was done, and returns the writer's count.                 *)
THEOREM PumpReturnIsComplete == Spec => []ReturnIsComplete
<1>1. Inv => ReturnIsComplete
  <2> SUFFICES ASSUME Inv, run = "returned" PROVE ReturnIsComplete
    BY DEF ReturnIsComplete
  <2> USE DEF Inv
  <2>1. /\ producer = "done" /\ writer = "done" /\ result = consumed
        /\ inHand = <<>> /\ inFlight = <<>> /\ channel = <<>>
    BY DEF HandOver
  <2>2. accepted = attempted
    BY <2>1, ConcatEmptySeq DEF Conservation, TypeOK
  <2> QED BY <2>1, <2>2 DEF ReturnIsComplete
<1> QED BY <1>1, PumpInvariant, PTL

-----------------------------------------------------------------------------
(* The pump implements the abstract capture: its steps add to the end of    *)
(* the pending messages, take from their front, or move messages between    *)
(* hands and channel, which the abstraction does not see.                   *)

Pending == inFlight \o channel \o inHand

Phase == IF run = "returned" THEN "finished"
         ELSE IF producer = "done" THEN "draining" ELSE "open"

LEMMA AbstractInit == Init => Abstract!Init
<1> SUFFICES ASSUME Init PROVE Abstract!Init
  OBVIOUS
<1>1. <<>> \o <<>> \o <<>> = <<>>
  BY EmptySeq, ConcatEmptySeq
<1> QED BY <1>1 DEF Init, Abstract!Init

(* A poll that accepts nothing stutters, or closes the capture. *)
LEMMA AbstractQuietPoll ==
    ASSUME Inv, producer = "recv", producer' \in {"recv", "done"},
           UNCHANGED <<inHand, channel, writerVars, runVars>>
    PROVE  Abstract!Close \/ UNCHANGED Abstract!cvars
<1>1. run = "joinProducer"
  BY DEF Inv, HandOver, TypeOK
<1>2. Phase = "open" /\ Phase' = IF producer' = "done" THEN "draining" ELSE "open"
  BY <1>1 DEF Phase, runVars
<1>3. Pending' = Pending /\ attempted' = attempted /\ consumed' = consumed
      /\ result' = result
  BY DEF Pending, writerVars, runVars
<1> QED
  BY <1>2, <1>3 DEF Abstract!Close, Abstract!cvars, Pending, Phase

LEMMA AbstractRecv ==
    ASSUME Inv, Recv, UNCHANGED <<channel, writerVars, runVars>>
    PROVE  Abstract!Next \/ UNCHANGED Abstract!cvars
<1>1. ASSUME NEW p \in Partitions, RecvAccepted(p) PROVE Abstract!Accept
  <2> DEFINE m == NextOf(p)
            front == inFlight \o channel
  <2>1. m \in Message
    BY <1>1, NextOfIsMessage DEF RecvAccepted, Deliver, Inv
  <2>2. inHand' = <<m>> /\ producer = "recv" /\ producer' = "send"
    BY <1>1 DEF RecvAccepted, Deliver
  <2>3. inHand = <<>> /\ run = "joinProducer" /\ run' = run
    BY <2>2 DEF Inv, HandOver, TypeOK, runVars
  <2>4. /\ inFlight \in Seq(Message) /\ channel \in Seq(Message)
        /\ front' = front
    BY DEF Inv, TypeOK, writerVars
  <2>5. front \in Seq(Message) /\ Len(front) = Len(inFlight) + Len(channel)
    BY <2>4, ConcatProperties
  <2>6. Len(front) < ChannelCapacity + 2
    <3>1. Len(<<>>) = 0
      OBVIOUS
    <3>2. inFlight = <<>> \/ Len(inFlight) = 1
      BY DEF Inv, HandOver, TypeOK
    <3>3. Len(channel) <= ChannelCapacity /\ Len(channel) \in Nat
      BY <2>4 DEF Inv, HandOver
    <3>4. Len(inFlight) \in Nat /\ Len(inFlight) <= 1
      BY <2>4, <3>1, <3>2
    <3> HIDE DEF front
    <3> QED BY <2>5, <3>3, <3>4, PumpAssumption
  <2> HIDE DEF m, front
  <2>7. front \o inHand = front /\ front' \o inHand' = Append(front, m)
    BY <2>1, <2>2, <2>3, <2>4, <2>5, ConcatEmptySeq, AppendIsConcat
  <2>8. Phase = "open" /\ Phase' = "open" /\ UNCHANGED <<attempted, consumed, result>>
    BY <2>2, <2>3 DEF Phase, writerVars, runVars
  <2>9. /\ Len(Pending) < ChannelCapacity + 2
        /\ Pending' = Append(Pending, m)
    BY <2>6, <2>7 DEF Pending, front
  <2> QED BY <2>1, <2>8, <2>9 DEF Abstract!Accept, Pending, Phase
<1>2. CASE \E p \in Partitions : RecvAccepted(p)
  BY <1>1, <1>2 DEF Abstract!Next
<1>3. CASE ~\E p \in Partitions : RecvAccepted(p)
  <2>1. producer = "recv" /\ producer' \in {"recv", "done"} /\ UNCHANGED inHand
    BY <1>3
    DEF Recv, RecvRejected, RecvPastLimit, RecvNoise, RecvNothing, RecvError,
        Deliver, StopProducer
  <2> QED BY <2>1, AbstractQuietPoll DEF Abstract!Next
<1> QED BY <1>2, <1>3

LEMMA AbstractSend ==
    ASSUME Inv, Send, UNCHANGED <<writerVars, runVars>>
    PROVE  Abstract!Next \/ UNCHANGED Abstract!cvars
<1>1. /\ producer = "send" /\ producer' \in {"recv", "done"}
      /\ channel' = channel \o inHand /\ inHand' = <<>>
  BY DEF Send, StopProducer
<1>2. run = "joinProducer" /\ UNCHANGED <<run, result, attempted, consumed>>
  BY <1>1 DEF Inv, HandOver, TypeOK, runVars, writerVars
<1>3. Pending' = Pending
  <2>1. /\ inFlight \in Seq(Message) /\ channel \in Seq(Message)
        /\ inHand \in Seq(Message) /\ inFlight' = inFlight
    BY DEF Inv, TypeOK, writerVars
  <2>2. inFlight \o (channel \o inHand) \in Seq(Message)
    BY <2>1, ConcatProperties
  <2>3. inFlight \o channel \o inHand = inFlight \o (channel \o inHand)
    BY <2>1, ConcatAssociative
  <2> QED BY <1>1, <2>1, <2>2, <2>3, ConcatEmptySeq DEF Pending
<1>4. Phase = "open" /\ Phase' = IF producer' = "done" THEN "draining" ELSE "open"
  BY <1>1, <1>2 DEF Phase
<1> QED
  BY <1>1, <1>2, <1>3, <1>4
  DEF Abstract!Next, Abstract!Close, Abstract!cvars, Pending, Phase

LEMMA AbstractWriter ==
    ASSUME Inv, Writer
    PROVE  Abstract!Next \/ UNCHANGED Abstract!cvars
<1>1. UNCHANGED <<producer, inHand, run, result>>
  BY DEF Writer, producerVars, runVars
<1>2. Phase' = Phase
  BY <1>1 DEF Phase
<1>3. CASE WriterRecv
  <2>1. /\ inFlight = <<>> /\ channel \in Seq(Message) /\ channel # <<>>
        /\ inFlight' = <<Head(channel)>> /\ channel' = Tail(channel)
        /\ UNCHANGED <<consumed, attempted>>
    BY <1>3 DEF WriterRecv, Inv, HandOver, TypeOK
  <2>2. inFlight' \o channel' = inFlight \o channel
    BY <2>1, HeadThenTail, ConcatEmptySeq
  <2>3. Pending' = Pending
    BY <1>1, <2>2 DEF Pending
  <2> QED BY <1>1, <1>2, <2>1, <2>3 DEF Abstract!cvars, Pending, Phase
<1>4. CASE StoreMessage
  <2> DEFINE m == inFlight[1]
            rest == channel \o inHand
  <2>1. /\ writer = "store" /\ attempted' = attempted \o inFlight
        /\ inFlight' = <<>> /\ UNCHANGED channel
        /\ consumed' \in {consumed, consumed + 1}
    BY <1>4 DEF StoreMessage
  <2>2. /\ inFlight \in Seq(Message) /\ Len(inFlight) = 1
        /\ channel \in Seq(Message) /\ inHand \in Seq(Message)
        /\ attempted \in Seq(Message)
    BY <2>1 DEF Inv, HandOver, TypeOK
  <2>3. m \in Message /\ inFlight = <<m>>
    <3>1. m \in Message
      <4>1. 1 \in 1..Len(inFlight)
        BY <2>2
      <4> QED BY <2>2, <4>1, ElementOfSeq
    <3>2. <<m>> \in Seq(Message) /\ Len(<<m>>) = 1 /\ <<m>>[1] = m
      BY <3>1
    <3> QED BY <2>2, <3>1, <3>2, SeqEqual
  <2>4. rest \in Seq(Message) /\ rest' = rest
    BY <1>1, <2>1, <2>2, ConcatProperties
  <2>5. Pending = inFlight \o rest /\ Pending' = inFlight' \o rest'
    <3>1. <<>> \in Seq(Message)
      OBVIOUS
    <3> QED BY <1>1, <2>1, <2>2, <3>1, ConcatAssociative DEF Pending
  <2> HIDE DEF m, rest
  <2>6. Pending' = rest
    BY <2>1, <2>4, <2>5, ConcatEmptySeq
  <2>7. Pending # <<>> /\ Head(Pending) = m /\ Tail(Pending) = rest
    BY <2>3, <2>4, <2>5, HeadTailOfCons
  <2>8. attempted' = Append(attempted, m)
    BY <2>1, <2>2, <2>3, AppendIsConcat
  <2>9. Phase # "finished"
    BY <2>1 DEF Inv, HandOver, Phase
  <2>10. Abstract!Attempt
    BY <1>1, <1>2, <2>1, <2>6, <2>7, <2>8, <2>9
    DEF Abstract!Attempt, Pending, Phase
  <2> QED BY <2>10 DEF Abstract!Next
<1>5. CASE WriterClosed \/ Flush
  <2>1. UNCHANGED <<channel, inFlight, consumed, attempted>>
    BY <1>5 DEF WriterClosed, Flush
  <2>2. Pending' = Pending
    BY <1>1, <2>1 DEF Pending
  <2> QED BY <1>1, <1>2, <2>1, <2>2 DEF Abstract!cvars, Pending, Phase
<1> QED BY <1>3, <1>4, <1>5 DEF Writer

LEMMA AbstractRun ==
    ASSUME Inv, Run
    PROVE  Abstract!Next \/ UNCHANGED Abstract!cvars
<1>1. UNCHANGED <<producer, inHand, channel, inFlight, consumed, attempted>>
  BY DEF Run, producerVars, writerVars
<1>2. Pending' = Pending
  BY <1>1 DEF Pending
<1>3. CASE JoinProducer
  <2>1. Phase = "draining" /\ Phase' = "draining" /\ result' = result
    BY <1>1, <1>3 DEF JoinProducer, Phase
  <2> QED BY <1>1, <1>2, <2>1 DEF Abstract!cvars, Pending, Phase
<1>4. CASE JoinWriter
  <2>1. /\ producer = "done" /\ writer = "done" /\ run = "joinWriter"
        /\ run' = "returned" /\ result' = consumed
    BY <1>4 DEF JoinWriter, Inv, HandOver
  <2>2. Phase = "draining" /\ Phase' = "finished"
    BY <2>1 DEF Phase
  <2>3. Pending = <<>>
    BY <2>1, EmptySeq, ConcatEmptySeq DEF Inv, HandOver, Pending
  <2>4. Abstract!Finish
    BY <1>1, <1>2, <2>1, <2>2, <2>3 DEF Abstract!Finish, Pending, Phase
  <2> QED BY <2>4 DEF Abstract!Next
<1> QED BY <1>3, <1>4 DEF Run

LEMMA AbstractNext == Inv /\ [Next]_vars => [Abstract!Next]_(Abstract!cvars)
<1> SUFFICES ASSUME Inv, [Next]_vars
             PROVE  Abstract!Next \/ UNCHANGED Abstract!cvars
  OBVIOUS
<1>1. CASE Producer
  BY <1>1, AbstractRecv, AbstractSend DEF Producer
<1>2. CASE Writer
  BY <1>2, AbstractWriter
<1>3. CASE Run
  BY <1>3, AbstractRun
<1>4. CASE UNCHANGED vars
  BY <1>4 DEF vars, Abstract!cvars
<1> QED BY <1>1, <1>2, <1>3, <1>4 DEF Next

(* Every behaviour of the pump is, seen through the mapping, a behaviour of *)
(* the abstract capture.                                                    *)
THEOREM PumpImplementsCapture == Spec => Abstract!SafeSpec
  BY AbstractInit, AbstractNext, PumpInvariant, PTL DEF Spec, Abstract!SafeSpec
=============================================================================
