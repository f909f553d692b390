---------------------------- MODULE MCPumpTask ----------------------------
(***************************************************************************)
(* Small instances of PumpTask: two partitions with three and two records, *)
(* among them a gap in the offsets, a record without a timestamp, one      *)
(* without a key, one with a key that is not UTF-8, and timestamps that do *)
(* not follow the offsets.  i64 is four bits wide.                         *)
(***************************************************************************)
EXTENDS PumpTask, TLC

CONSTANTS k1, k2, bad

MCPartitions == {0, 1}

Record(p, o, ts, key, headers) ==
    [partition |-> p, offset |-> o, timestamp |-> ts, key |-> key,
     headers |-> headers]

NoHeaders == [h \in {} |-> ""]
Header(v) == [h \in {"app"} |-> v]

MCTopic ==
    0 :> <<Record(0, 0, 5, k1, Header("a")),
           Record(0, 1, None, None, NoHeaders),
           Record(0, 3, 7, k2, Header("b"))>>
    @@
    1 :> <<Record(1, 0, 6, bad, Header("a")),
           Record(1, 1, 4, k1, NoHeaders)>>

MCNoise == Record(1, 9, 1, None, NoHeaders)

NoLimits ==
    [partitions |-> None, keyRegex |-> None, headers |-> None,
     count |-> None, untilOffset |-> None, untilTimestamp |-> None]

(* Every filter and every limit alone, two of them together, and an offset  *)
(* that is negative as an i64 of four bits.                                 *)
MCCommands ==
    {NoLimits,
     [NoLimits EXCEPT !.partitions = {1}],
     [NoLimits EXCEPT !.keyRegex = {k1, bad}],
     [NoLimits EXCEPT !.headers = Header("a")],
     [NoLimits EXCEPT !.headers = NoHeaders],
     [NoLimits EXCEPT !.count = 0],
     [NoLimits EXCEPT !.count = 2],
     [NoLimits EXCEPT !.untilOffset = 1],
     [NoLimits EXCEPT !.untilOffset = 12],
     [NoLimits EXCEPT !.untilTimestamp = 6],
     [NoLimits EXCEPT !.partitions = {0}, !.untilTimestamp = 6],
     [NoLimits EXCEPT !.keyRegex = {k1, bad}, !.count = 1]}
=============================================================================
