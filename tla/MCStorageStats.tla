--------------------------- MODULE MCStorageStats ---------------------------
(***************************************************************************)
(* A small instance of StorageStats: three callers, two topics of which    *)
(* one is met twice, a message without a timestamp, and a latest message   *)
(* that is stored first.                                                   *)
(***************************************************************************)
EXTENDS StorageStats, TLC

CONSTANTS c1, c2, c3, t1, t2

Msg(t, p, size, ts) ==
    [topic |-> t, partition |-> p, size |-> size, timestamp |-> ts]

MCWork ==
    c1 :> <<Msg(t1, 0, 3, 9), Msg(t1, 1, 2, 4)>>
    @@ c2 :> <<Msg(t2, 0, 5, None), Msg(t1, 1, 1, 7)>>
    @@ c3 :> <<Msg(t2, 2, 4, 6)>>
=============================================================================
