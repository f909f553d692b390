--------------------------- MODULE StorageBackend ---------------------------
(***************************************************************************)
(* The StorageBackend trait of storage/mod.rs, as its callers may rely on  *)
(* it: messages come to be stored one at a time while a store call runs,   *)
(* an acknowledged message is stored, a successful flush or close makes    *)
(* durable at least what was acknowledged, and a crash loses the rest at   *)
(* worst.  Files, handles, locks and partial writes do not show.           *)
(***************************************************************************)
CONSTANT Message

VARIABLES
    stored,     \* the messages a reader of the backend would find whole
    acked,      \* those whose store returned Ok to this process
    durable     \* those that survive a crash

svars == <<stored, acked, durable>>

Init == stored = {} /\ acked = {} /\ durable = {}

(* One more message arrives, in a call that may still fail. *)
Store ==
    /\ \E m \in Message : stored' = stored \cup {m}
    /\ UNCHANGED <<acked, durable>>

(* store_message or store_messages returns Ok. *)
Acknowledge ==
    /\ \E S \in SUBSET stored : acked' = acked \cup S
    /\ UNCHANGED <<stored, durable>>

(* flush or close returns Ok. *)
Flush ==
    /\ durable' \in SUBSET stored
    /\ durable \cup acked \subseteq durable'
    /\ UNCHANGED <<stored, acked>>

(* The next process starts with what is left, and nothing acknowledged. *)
Crash ==
    /\ stored' \in SUBSET stored
    /\ durable \subseteq stored'
    /\ acked' = {}
    /\ UNCHANGED durable

Next == Store \/ Acknowledge \/ Flush \/ Crash

Spec == Init /\ [][Next]_svars
=============================================================================
