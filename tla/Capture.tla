------------------------------ MODULE Capture ------------------------------
(***************************************************************************)
(* What a capture promises, with no tasks, channel, polls or timers in it: *)
(* the messages it accepts form one bounded queue; every one of them is    *)
(* offered to the storage exactly once and in the order it was accepted;   *)
(* the capture finishes only when it has stopped accepting and the queue   *)
(* is empty, and reports how many of the offers the storage took.          *)
(***************************************************************************)
EXTENDS Naturals, Sequences

CONSTANTS
    Message,    \* the messages there may be
    Bound       \* how many accepted messages may wait at a time

VARIABLES
    pending,    \* accepted, not yet offered to the storage
    attempted,  \* offered to the storage, oldest first
    taken,      \* how many offers succeeded
    phase,      \* "open", "draining" or "finished"
    reported    \* the number the finished capture returned

cvars == <<pending, attempted, taken, phase, reported>>

Init ==
    /\ pending = <<>>
    /\ attempted = <<>>
    /\ taken = 0
    /\ phase = "open"
    /\ reported = 0

Accept ==
    /\ phase = "open"
    /\ Len(pending) < Bound
    /\ \E m \in Message : pending' = Append(pending, m)
    /\ UNCHANGED <<attempted, taken, phase, reported>>

Attempt ==
    /\ phase # "finished"
    /\ pending # <<>>
    /\ attempted' = Append(attempted, Head(pending))
    /\ pending' = Tail(pending)
    /\ taken' \in {taken, taken + 1}
    /\ UNCHANGED <<phase, reported>>

Close ==
    /\ phase = "open"
    /\ phase' = "draining"
    /\ UNCHANGED <<pending, attempted, taken, reported>>

Finish ==
    /\ phase = "draining"
    /\ pending = <<>>
    /\ phase' = "finished"
    /\ reported' = taken
    /\ UNCHANGED <<pending, attempted, taken>>

Next == Accept \/ Attempt \/ Close \/ Finish

SafeSpec == Init /\ [][Next]_cvars

(* The queue is drained, and a drained closed capture does finish. *)
Spec == SafeSpec /\ WF_cvars(Attempt) /\ WF_cvars(Finish)
=============================================================================
