------------------------------ MODULE HashMaps ------------------------------
(***************************************************************************)
(* HashMap as the code fills it: one insert per pair, in the order given,  *)
(* and a key inserted again takes its last value.                          *)
(***************************************************************************)
EXTENDS Integers, Sequences

(* The keys of the pairs at the positions I. *)
Keys(pairs, I) == {pairs[i][1] : i \in I}

(* Mutant: entry().or_insert(), which keeps the value a key had first. *)
InsertedFirst(pairs, I) ==
    [k \in Keys(pairs, I) |->
        LET i == CHOOSE i \in I :
                    /\ pairs[i][1] = k
                    /\ \A j \in I : pairs[j][1] = k => i <= j
        IN  pairs[i][2]]

(* The map once the pairs at the positions I were inserted. *)
Inserted(pairs, I) ==
    [k \in Keys(pairs, I) |->
        LET i == CHOOSE i \in I :
                    /\ pairs[i][1] = k
                    /\ \A j \in I : pairs[j][1] = k => j <= i
        IN  pairs[i][2]]
=============================================================================
