---------------------------- MODULE MCSingleFile ----------------------------
(***************************************************************************)
(* Small instances of SingleFileStorage: two callers, single messages,     *)
(* batches and flushes.                                                    *)
(***************************************************************************)
EXTENDS SingleFileStorage, TLC

CONSTANTS c1, c2, m1, m2, m3, m4

CallOf(op, msgs) == [op |-> op, msgs |-> msgs]
Flush == CallOf("flush", <<>>)

MixedWork ==
    c1 :> <<CallOf("message", <<m1>>), CallOf("batch", <<m2, m3>>)>>
    @@ c2 :> <<CallOf("message", <<m4>>), CallOf("batch", <<>>), Flush>>
=============================================================================
