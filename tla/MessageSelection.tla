-------------------------- MODULE MessageSelection --------------------------
(***************************************************************************)
(* Which messages a capture keeps, and which message ends it: the pure     *)
(* domain half of core/store_usecase.rs (MessageFilter, MessageLimits).    *)
(*                                                                         *)
(* A message is a record with fields partition, offset, timestamp, key and *)
(* headers; timestamp and key may be None, and headers maps the names of   *)
(* the headers that are present to their values.  A command c carries the  *)
(* filter (partitions, keyRegex, headers) and the limits (count,           *)
(* untilOffset, untilTimestamp), each of them None when the flag was not   *)
(* given.  A regular expression stands for the set of keys it matches.     *)
(***************************************************************************)
EXTENDS Integers

CONSTANTS
    None,       \* the absent Option
    Utf8Keys,   \* the keys whose bytes are valid UTF-8
    MaxI64      \* the largest offset an i64 holds (2^63 - 1 in the program)

ASSUME MaxI64Assumption == MaxI64 \in Nat

(* The cast `n as i64` of a u64: the upper half of the range wraps around. *)
AsI64(n) == IF n <= MaxI64 THEN n ELSE n - 2 * (MaxI64 + 1)

PartitionMatches(c, m) ==
    c.partitions # None => m.partition \in c.partitions

(* A keyless message, or one whose key is not UTF-8, never matches a regex. *)
KeyMatches(c, m) ==
    c.keyRegex # None => /\ m.key # None
                         /\ m.key \in Utf8Keys
                         /\ m.key \in c.keyRegex

HeadersMatch(c, m) ==
    c.headers # None =>
        \A h \in DOMAIN c.headers :
            /\ h \in DOMAIN m.headers
            /\ m.headers[h] = c.headers[h]

Matches(c, m) ==
    /\ PartitionMatches(c, m)
    /\ KeyMatches(c, m)
    /\ HeadersMatch(c, m)

(* The limits that exclude the message itself; partitions play no part. *)
ShouldStopBefore(c, m) ==
    \/ /\ c.untilTimestamp # None
       /\ m.timestamp # None
       /\ m.timestamp >= c.untilTimestamp
    \/ /\ c.untilOffset # None
       /\ m.offset >= AsI64(c.untilOffset)

(* The count limit is looked at only once a message has been handed over. *)
ShouldStopAfter(c, produced) ==
    /\ c.count # None
    /\ produced >= c.count
=============================================================================
