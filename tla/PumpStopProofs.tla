--------------------------- MODULE PumpStopProofs ---------------------------
(***************************************************************************)
(* What the pump accepts and when it stops, for every topic and timing: it *)
(* keeps what the filter and the limits leave of each partition, a limit   *)
(* ends it at the first record that reaches it, and the idle stop comes    *)
(* neither before the idle time has been spent in empty polls nor after.   *)
(***************************************************************************)
EXTENDS PumpTaskProofs

(* last_message_at against the empty polls since then. *)
IdleClock ==
    /\ producer = "recv" =>
          /\ emptyPolls * PollTimeout <= elapsed
          /\ elapsed <= emptyPolls * (PollTimeout + MaxDelay)
          /\ elapsed < IdleShutdownAfter
    /\ producer = "send" => emptyPolls = 0
    /\ producer # "done" => stopReason = "none"
    /\ stopReason = "idle" =>
          emptyPolls * (PollTimeout + MaxDelay) >= IdleShutdownAfter

LEMMA NextPoll ==
    ASSUME NEW e \in Nat, NEW n \in Nat, NEW p \in Nat, NEW d \in Nat,
           NEW late \in 0..d, n * p <= e, e <= n * (p + d)
    PROVE  /\ (n + 1) * p <= e + p + late
           /\ e + p + late <= (n + 1) * (p + d)
<1>1. (n + 1) * p = n * p + p
  OBVIOUS
<1>2. (n + 1) * (p + d) = n * (p + d) + p + d
  OBVIOUS
<1> QED BY <1>1, <1>2

LEMMA InitIdleClock == Init => IdleClock
<1>1. \A n \in Nat : 0 * n = 0
  OBVIOUS
<1> QED BY <1>1, PumpAssumption DEF Init, IdleClock

LEMMA IdleClockStep == Inv /\ IdleClock /\ [Next]_vars => IdleClock'
<1> SUFFICES ASSUME Inv, IdleClock, [Next]_vars PROVE IdleClock'
  OBVIOUS
<1>1. /\ elapsed \in Nat /\ emptyPolls \in Nat /\ PollTimeout \in Nat
      /\ MaxDelay \in Nat /\ IdleShutdownAfter \in Nat \ {0}
  BY PumpAssumption DEF Inv, TypeOK
<1>2. \A n \in Nat : 0 * n = 0
  OBVIOUS
<1>3. CASE UNCHANGED <<producer, elapsed, emptyPolls, stopReason>>
  BY <1>3 DEF IdleClock
<1>4. ASSUME NEW p \in Partitions, RecvRejected(p) PROVE IdleClock'
  BY <1>1, <1>2, <1>4 DEF RecvRejected, Deliver, IdleClock
<1>5. ASSUME NEW p \in Partitions, RecvPastLimit(p) PROVE IdleClock'
  BY <1>5 DEF RecvPastLimit, Deliver, StopProducer, IdleClock
<1>6. ASSUME NEW p \in Partitions, RecvAccepted(p) PROVE IdleClock'
  BY <1>6 DEF RecvAccepted, Deliver, IdleClock
<1>7. CASE RecvNoise
  BY <1>1, <1>2, <1>7 DEF RecvNoise, IdleClock
<1>8. CASE RecvNothing
  <2>1. PICK late \in 0..MaxDelay : elapsed' = elapsed + PollTimeout + late
    BY <1>8 DEF RecvNothing
  <2>2. /\ emptyPolls * PollTimeout <= elapsed
        /\ elapsed <= emptyPolls * (PollTimeout + MaxDelay)
        /\ producer = "recv" /\ stopReason = "none"
        /\ emptyPolls' = emptyPolls + 1
    BY <1>8 DEF RecvNothing, IdleClock
  <2>3. /\ emptyPolls' * PollTimeout <= elapsed'
        /\ elapsed' <= emptyPolls' * (PollTimeout + MaxDelay)
    BY <1>1, <2>1, <2>2, NextPoll
  <2>4. elapsed' \in Nat /\ emptyPolls' * (PollTimeout + MaxDelay) \in Int
    BY <1>1, <2>1, <2>2
  <2>5. CASE elapsed' >= IdleShutdownAfter
    <3>1. producer' = "done" /\ stopReason' = "idle"
      BY <1>8, <2>5 DEF RecvNothing, StopProducer
    <3> QED BY <1>1, <2>3, <2>4, <2>5, <3>1 DEF IdleClock
  <2>6. CASE ~(elapsed' >= IdleShutdownAfter)
    <3>1. producer' = "recv" /\ stopReason' = "none"
      BY <1>8, <2>2, <2>6 DEF RecvNothing
    <3> QED BY <1>1, <2>3, <2>4, <2>6, <3>1 DEF IdleClock
  <2> QED BY <2>5, <2>6
<1>9. CASE RecvError
  BY <1>9 DEF RecvError, StopProducer, IdleClock
<1>10. CASE Send
  BY <1>1, <1>2, <1>10 DEF Send, StopProducer, IdleClock
<1>11. CASE Writer \/ Run \/ UNCHANGED vars
  BY <1>3, <1>11 DEF Writer, Run, producerVars, vars
<1> QED
  BY <1>4, <1>5, <1>6, <1>7, <1>8, <1>9, <1>10, <1>11
  DEF Next, Producer, Recv

(* A producer that still polls has not seen the idle time pass, and one     *)
(* that ended as idle has seen empty polls that can have taken that long.   *)
THEOREM PumpIdleWindow == Spec => []IdleWindow
<1>1. Inv /\ IdleClock => IdleWindow
  <2> SUFFICES ASSUME Inv, IdleClock, producer = "recv"
               PROVE  emptyPolls * PollTimeout < IdleShutdownAfter
    BY DEF IdleWindow, IdleClock
  <2>1. /\ elapsed \in Nat /\ emptyPolls * PollTimeout \in Int
        /\ IdleShutdownAfter \in Nat
    BY PumpAssumption DEF Inv, TypeOK
  <2> QED BY <2>1 DEF IdleClock
<1> QED
  BY <1>1, InitInv, NextInv, InitIdleClock, IdleClockStep, PTL DEF Spec

-----------------------------------------------------------------------------
(* Limits. *)

LEMMA LimitsStep == Inv /\ LimitsStopAtOnce /\ [Next]_vars => LimitsStopAtOnce'
<1> SUFFICES ASSUME Inv, LimitsStopAtOnce, [Next]_vars
             PROVE  LimitsStopAtOnce'
  OBVIOUS
<1>1. /\ next \in [Partitions -> Nat \ {0}] /\ cmd \in Commands
      /\ cmd' = cmd /\ produced \in Nat
  BY DEF Inv, TypeOK, Next, Producer, Writer, Run, vars
<1>2. CASE producer' \in {"done", "cancelled"}
  BY <1>2 DEF LimitsStopAtOnce
<1>3. CASE UNCHANGED <<producer, next, produced>>
  BY <1>1, <1>3 DEF LimitsStopAtOnce
<1>4. ASSUME NEW p \in Partitions, RecvRejected(p) \/ RecvAccepted(p)
      PROVE  LimitsStopAtOnce'
  <2>1. /\ producer = "recv" /\ UNCHANGED produced
        /\ next' = [next EXCEPT ![p] = @ + 1]
        /\ Matches(cmd, NextOf(p)) => ~ShouldStopBefore(cmd, NextOf(p))
    BY <1>4 DEF RecvRejected, RecvAccepted, Deliver
  <2>2. ASSUME NEW q \in Partitions, NEW i \in 1..(next'[q] - 1),
               Matches(cmd, Topic[q][i])
        PROVE  ~ShouldStopBefore(cmd, Topic[q][i])
    <3>1. CASE i \in 1..(next[q] - 1)
      BY <2>1, <2>2, <3>1 DEF LimitsStopAtOnce
    <3>2. CASE i \notin 1..(next[q] - 1)
      <4>1. q = p /\ i = next[p]
        BY <1>1, <2>1, <3>2
      <4> QED BY <2>1, <2>2, <4>1 DEF NextOf
    <3> QED BY <3>1, <3>2
  <2> QED BY <1>1, <2>1, <2>2 DEF LimitsStopAtOnce
<1>5. CASE Send /\ producer' = "recv"
  <2>1. /\ producer = "send" /\ UNCHANGED next
        /\ ~ShouldStopAfter(cmd, produced') /\ produced' = produced + 1
    BY <1>5 DEF Send, StopProducer
  <2>2. cmd.count # None => produced' < cmd.count
    BY <1>1, <2>1, PumpAssumption DEF ShouldStopAfter
  <2> QED BY <1>1, <2>1, <2>2 DEF LimitsStopAtOnce
<1>6. CASE Producer
  <2>1. CASE \E p \in Partitions : RecvRejected(p) \/ RecvAccepted(p)
    BY <1>4, <2>1
  <2>2. CASE RecvNoise
    BY <1>3, <2>2 DEF RecvNoise
  <2>3. CASE RecvNothing
    BY <1>2, <1>3, <2>3 DEF RecvNothing, StopProducer
  <2>4. CASE RecvError \/ \E p \in Partitions : RecvPastLimit(p)
    BY <1>2, <2>4 DEF RecvError, RecvPastLimit, StopProducer
  <2>5. CASE Send
    BY <1>2, <1>5, <2>5 DEF Send, StopProducer
  <2> QED BY <1>6, <2>1, <2>2, <2>3, <2>4, <2>5 DEF Producer, Recv
<1>7. CASE Writer \/ Run \/ UNCHANGED vars
  BY <1>3, <1>7 DEF Writer, Run, producerVars, vars
<1> QED BY <1>6, <1>7 DEF Next

(* While the producer runs, nothing it was delivered lies past a limit and  *)
(* the count is not reached: the first record to reach a limit ends it.     *)
THEOREM PumpLimitsStopAtOnce == Spec => []LimitsStopAtOnce
<1>1. Init => LimitsStopAtOnce
  BY DEF Init, LimitsStopAtOnce
<1> QED BY <1>1, InitInv, NextInv, LimitsStep, PTL DEF Spec

-----------------------------------------------------------------------------
(* What is accepted. *)

Delivered(p) == {Topic[p][i] : i \in 1..(next[p] - 1)}

LEMMA DeliveredGrows ==
    ASSUME TypeOK, NEW p \in Partitions, Deliver(p), NEW q \in Partitions
    PROVE  Delivered(q)' = Delivered(q) \cup (IF q = p THEN {NextOf(p)} ELSE {})
<1>1. next[q] \in Nat \ {0} /\ next'[q] = IF q = p THEN next[q] + 1 ELSE next[q]
  BY DEF TypeOK, Deliver
<1>2. CASE q = p
  <2>1. 1..(next'[q] - 1) = 1..(next[q] - 1) \cup {next[q]}
    BY <1>1, <1>2
  <2>2. Delivered(q)' = {Topic[q][i] : i \in 1..(next[q] - 1) \cup {next[q]}}
    BY <2>1 DEF Delivered
  <2> QED BY <1>2, <2>2 DEF Delivered, NextOf
<1>3. CASE q # p
  BY <1>1, <1>3 DEF Delivered
<1> QED BY <1>2, <1>3

(* A record that is not wanted leaves the accepted ones as they are. *)
LEMMA UnwantedStep ==
    ASSUME TypeOK, PartitionFaithful, NEW p \in Partitions, Deliver(p),
           ~Wanted(NextOf(p)), UNCHANGED <<cmd, accepted>>
    PROVE  PartitionFaithful'
<1>1. \A m : Wanted(m) <=> (Matches(cmd', m) /\ ~ShouldStopBefore(cmd', m))
  BY DEF Wanted
<1>2. ASSUME NEW q \in Partitions
      PROVE  {m \in Delivered(q)' : Wanted(m)} = {m \in Delivered(q) : Wanted(m)}
  BY DeliveredGrows
<1>3. \A q : Of(q)' = Of(q)
  BY DEF Of
<1> QED
  BY <1>1, <1>2, <1>3 DEF PartitionFaithful, Delivered, Wanted

LEMMA WantedStep ==
    ASSUME TypeOK, PartitionFaithful, NEW p \in Partitions, Deliver(p),
           Wanted(NextOf(p)), accepted' = Append(accepted, NextOf(p)),
           UNCHANGED cmd
    PROVE  PartitionFaithful'
<1> DEFINE m == NextOf(p)
          n == Len(accepted) + 1
<1>1. m \in Message
  BY NextOfIsMessage DEF Deliver
<1>2. /\ next[p] \in DOMAIN Topic[p] /\ m = Topic[p][next[p]]
  BY PumpAssumption DEF Deliver, TypeOK, NextOf
<1>3. m.partition = p /\ \A j \in 1..(next[p] - 1) : Topic[p][j].offset < m.offset
  BY <1>2, OffsetsAssumption
<1>4. accepted' = Append(accepted, m) /\ Wanted(m)
  OBVIOUS
<1> HIDE DEF m
<1>5. /\ Len(accepted) \in Nat /\ DOMAIN accepted = 1..Len(accepted)
      /\ DOMAIN accepted' = 1..n /\ accepted'[n] = m
      /\ \A i \in DOMAIN accepted : accepted'[i] = accepted[i]
  <2>1. accepted \in Seq(Message)
    BY DEF TypeOK
  <2> QED BY <1>1, <1>4, <2>1, AppendProperties
<1> SUFFICES ASSUME NEW q \in Partitions
             PROVE  /\ {accepted'[i] : i \in Of(q)'} =
                           {r \in Delivered(q)' : Wanted(r)}
                    /\ \A i, j \in Of(q)' :
                           i < j => accepted'[i].offset < accepted'[j].offset
  <2>1. \A r : Wanted(r) <=> (Matches(cmd', r) /\ ~ShouldStopBefore(cmd', r))
    BY DEF Wanted
  <2> QED BY <2>1 DEF PartitionFaithful, Delivered, Wanted
<1>6. /\ {accepted[i] : i \in Of(q)} = {r \in Delivered(q) : Wanted(r)}
      /\ \A i, j \in Of(q) : i < j => accepted[i].offset < accepted[j].offset
  BY DEF PartitionFaithful, Delivered
<1>7. Delivered(q)' = Delivered(q) \cup (IF q = p THEN {m} ELSE {})
  BY DeliveredGrows DEF m
<1>8. Of(q)' = Of(q) \cup (IF q = p THEN {n} ELSE {})
  BY <1>3, <1>5 DEF Of
<1>9. \A i \in Of(q) : i \in DOMAIN accepted /\ i < n /\ i \in Nat
                        /\ accepted'[i] = accepted[i]
  BY <1>5 DEF Of
<1>10. CASE q # p
  BY <1>6, <1>7, <1>8, <1>9, <1>10
<1>11. CASE q = p
  <2>1. \A i \in Of(q) : accepted[i] \in Delivered(q)
    BY <1>6
  <2>2. \A i \in Of(q) : accepted[i].offset < m.offset
    BY <1>3, <1>11, <2>1 DEF Delivered
  <2>3. {accepted'[i] : i \in Of(q)'} = {accepted[i] : i \in Of(q)} \cup {m}
    BY <1>5, <1>8, <1>9, <1>11
  <2>4. ASSUME NEW i \in Of(q)', NEW j \in Of(q)', i < j
        PROVE  accepted'[i].offset < accepted'[j].offset
    <3>1. i \in Of(q)
      BY <1>5, <1>8, <1>9, <1>11, <2>4
    <3> QED BY <1>5, <1>6, <1>8, <1>9, <1>11, <2>2, <2>4, <3>1
  <2> QED BY <1>4, <1>6, <1>7, <1>11, <2>3, <2>4
<1> QED BY <1>10, <1>11

(* Filter and limits act record by record: of each partition exactly the    *)
(* delivered records that match and lie before the limits are accepted,     *)
(* each once and in offset order, however the partitions interleave.        *)
THEOREM PumpPartitionFaithful == Spec => []PartitionFaithful
<1>1. Init => PartitionFaithful
  BY DEF Init, PartitionFaithful, Of
<1>2. Inv /\ PartitionFaithful /\ [Next]_vars => PartitionFaithful'
  <2> SUFFICES ASSUME Inv, PartitionFaithful, [Next]_vars
               PROVE  PartitionFaithful'
    OBVIOUS
  <2>1. TypeOK /\ cmd' = cmd
    BY DEF Inv, Next, Producer, Writer, Run, vars
  <2>2. CASE UNCHANGED <<next, accepted>>
    BY <2>1, <2>2 DEF PartitionFaithful, Of, Wanted
  <2>3. ASSUME NEW p \in Partitions,
               RecvRejected(p) \/ RecvPastLimit(p) \/ RecvAccepted(p)
        PROVE  PartitionFaithful'
    <3>1. CASE RecvRejected(p) \/ RecvPastLimit(p)
      BY <2>1, <3>1, UnwantedStep DEF RecvRejected, RecvPastLimit, Wanted
    <3>2. CASE RecvAccepted(p)
      BY <2>1, <3>2, WantedStep DEF RecvAccepted, Wanted
    <3> QED BY <2>3, <3>1, <3>2
  <2>4. CASE RecvNoise \/ RecvNothing \/ RecvError \/ Send
    BY <2>2, <2>4 DEF RecvNoise, RecvNothing, RecvError, Send
  <2>5. CASE Writer \/ Run \/ UNCHANGED vars
    BY <2>2, <2>5 DEF Writer, Run, producerVars, vars
  <2> QED BY <2>3, <2>4, <2>5 DEF Next, Producer, Recv
<1> QED BY <1>1, <1>2, InitInv, NextInv, PTL DEF Spec
=============================================================================
