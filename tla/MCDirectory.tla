----------------------------- MODULE MCDirectory -----------------------------
(***************************************************************************)
(* A small instance of DirectoryStorage: two callers, one with a batch of  *)
(* two messages and one with two single ones.                              *)
(***************************************************************************)
EXTENDS DirectoryStorage

CONSTANTS c1, c2, t1, t2

Msg(t, p, o) == [topic |-> t, partition |-> p, offset |-> o]

MCWork == c1 :> <<<<Msg(t1, 0, 0), Msg(t1, 1, 0)>>>>
          @@ c2 :> <<<<Msg(t2, 0, 0)>>, <<Msg(t1, 1, 1)>>>>
=============================================================================
