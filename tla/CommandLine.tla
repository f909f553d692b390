----------------------------- MODULE CommandLine -----------------------------
(***************************************************************************)
(* From the flags of one invocation to the command it runs: what clap      *)
(* accepts (cli/mod.rs, cli/commands/store.rs), what `kscribe store`       *)
(* refuses on its own, and the StoreKafkaCommand it builds of the rest.    *)
(*                                                                         *)
(* A repeated string flag is a sequence with one element per occurrence,   *)
(* and a string of the form a=b=... is the sequence of its parts between   *)
(* the '=' signs; of --from-offsets, a part that parses as a number is    *)
(* that number, any other a model value.  A flag that was not given is     *)
(* None, a switch FALSE.  Of the flags that only reach a log line (--live, *)
(* --batch-size, --buffer-size, --timeout, --verbose, --quiet,             *)
(* --table-name) only --live is kept: it takes part in a group.            *)
(***************************************************************************)
EXTENDS TopicAssignment, HashMaps, FiniteSets

CONSTANTS
    InvalidRegex,   \* a --key-regex that does not compile
    CommandLines    \* the invocations

Subcommands == {"store", "replay", "stats", "completion"}

(* Cli and StoreCommand: the record one parsed command line fills.          *)
CommandLineShape ==
    {"command", "toDir", "toFile", "toDb", "format", "fromBeginning",
     "fromOffsets", "fromTimestamp", "count", "untilOffset",
     "untilTimestamp", "live", "partitions", "keyRegex", "header", "threads",
     "compression", "dryRun"}

ASSUME CommandLinesAssumption ==
    \A f \in CommandLines :
        /\ DOMAIN f = CommandLineShape
        /\ f.command \in Subcommands
        /\ f.fromBeginning \in BOOLEAN
        /\ \A flag \in {"count", "untilOffset"} : f[flag] # None => f[flag] \in Nat
        /\ f.untilTimestamp # None => f.untilTimestamp \in Int
        /\ f.header # None =>
              Len(f.header) \in Nat /\ DOMAIN f.header = 1..Len(f.header)

Given(f, flag) ==
    IF flag \in {"fromBeginning", "live"} THEN f[flag] ELSE f[flag] # None

AtMostOne(f, group) ==
    \A x, y \in group : Given(f, x) /\ Given(f, y) => x = y

(* The groups destination, start_position and end_position of the flags.    *)
(* The other subcommands' own groups are not looked into.                   *)
ClapAccepts(f) ==
    /\ AtMostOne(f, {"toDir", "toFile", "toDb"})
    /\ AtMostOne(f, {"fromBeginning", "fromOffsets", "fromTimestamp"})
    /\ AtMostOne(f, {"count", "untilOffset", "untilTimestamp", "live"})

(* "json" is the strict format, the rest the BinaryEncoding of the hybrid   *)
(* one; names planned for Phase 2 and unknown names are errors.             *)
ParseFormat(name) ==
    CASE name = "json" -> "json"
      [] name \in {"json-hybrid", "hybrid"} -> "JsonValue"
      [] name \in {"json-hybrid-base64", "base64"} -> "Base64"
      [] name \in {"json-hybrid-utf8", "utf8"} -> "Utf8WithFallback"
      [] name \in {"json-hybrid-force-utf8", "force-utf8"} -> "ForceUtf8"
      [] name \in {"json-hybrid-value", "value"} -> "JsonValue"
      [] OTHER -> None

(* The encoding that the documentation of --format lists for a name; hybrid *)
(* is named as the short alias of json-hybrid.                              *)
DocumentedFormat(name) ==
    CASE name = "json" -> "json"
      [] name \in {"json-hybrid", "hybrid", "json-hybrid-utf8", "utf8"} ->
            "Utf8WithFallback"
      [] name \in {"json-hybrid-base64", "base64"} -> "Base64"
      [] name \in {"json-hybrid-force-utf8", "force-utf8"} -> "ForceUtf8"
      [] name \in {"json-hybrid-value", "value"} -> "JsonValue"
      [] OTHER -> None

(* parse_from_offsets; nothing but its tests calls it.                      *)
FromOffsetsParse(strings) ==
    \A i \in DOMAIN strings :
        /\ Len(strings[i]) = 2
        /\ strings[i][1] \in Int
        /\ strings[i][2] \in Nat

ParseFromOffsets(strings) == Inserted(strings, DOMAIN strings)

(* A --header with no '=' or more than one is warned about and dropped.     *)
HeadersMap(strings) ==
    IF strings = None THEN None
    ELSE Inserted(strings, {i \in DOMAIN strings : Len(strings[i]) = 2})

ASSUME HeadersAssumption ==
    \A f \in CommandLines : HeadersMap(f.header) = None => f.header = None

(* What execute turns down before it has touched anything.                  *)
Refused(f) ==
    \/ f.toDb # None
    \/ f.threads # None
    \/ f.compression # "none"
    \/ (f.toDir = None) = (f.toFile = None)
    \/ ParseFormat(f.format) = None

From(f) ==
    CASE f.fromBeginning -> [kind |-> "Begining", at |-> None]
      [] ~f.fromBeginning /\ f.fromTimestamp # None ->
            [kind |-> "Timestamp", at |-> f.fromTimestamp]
      [] OTHER -> [kind |-> "End", at |-> None]

(* Mutant: the limits land in each other's fields. *)
CommandWithSwappedLimits(f) ==
    [from |-> From(f),
     to |-> IF f.toDir # None THEN "Directory" ELSE "SingleFile",
     format |-> ParseFormat(f.format),
     keyRegex |-> f.keyRegex, headers |-> HeadersMap(f.header),
     partitions |-> f.partitions,
     count |-> f.untilOffset, untilOffset |-> f.count,
     untilTimestamp |-> f.untilTimestamp]

(* The StoreKafkaCommand, without the broker, the topic and the group id.   *)
CommandOf(f) ==
    [from |-> From(f),
     to |-> IF f.toDir # None THEN "Directory" ELSE "SingleFile",
     format |-> ParseFormat(f.format),
     keyRegex |-> f.keyRegex, headers |-> HeadersMap(f.header),
     partitions |-> f.partitions,
     count |-> f.count, untilOffset |-> f.untilOffset,
     untilTimestamp |-> f.untilTimestamp]

(* An invocation that goes on to store messages. *)
Captures(f) ==
    /\ ClapAccepts(f)
    /\ f.command = "store"
    /\ ~Refused(f)
    /\ ~f.dryRun
=============================================================================
