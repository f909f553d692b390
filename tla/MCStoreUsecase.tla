--------------------------- MODULE MCStoreUsecase ---------------------------
(***************************************************************************)
(* Small instances of StoreUsecase: two partitions with three and one      *)
(* records, and command lines that start at every kind of position, use    *)
(* every filter and limit, or do not lead to a capture at all.             *)
(***************************************************************************)
EXTENDS StoreUsecase, TLC

CONSTANTS k1, k2, path

MCPartitions == {0, 1}
MCRawOffsets == {RawEnd, RawInvalid, 0, 2}

NoHeaders == [h \in {} |-> ""]

Record(p, o, ts, key, headers) ==
    [partition |-> p, offset |-> o, timestamp |-> ts, key |-> key,
     headers |-> headers]

MCTopic == 0 :> <<Record(0, 0, 5, k1, "app" :> "b"),
                  Record(0, 1, None, k2, NoHeaders),
                  Record(0, 3, 4, k1, NoHeaders)>>
           @@ 1 :> <<Record(1, 0, 6, k2, "app" :> "a")>>

MCNoise == Record(1, 9, 1, k2, NoHeaders)

(* kscribe store TOPIC --from-beginning --to-file path *)
Plain ==
    [command |-> "store", toDir |-> None, toFile |-> path, toDb |-> None,
     format |-> "json", fromBeginning |-> TRUE, fromOffsets |-> None,
     fromTimestamp |-> None, count |-> None, untilOffset |-> None,
     untilTimestamp |-> None, live |-> FALSE, partitions |-> None,
     keyRegex |-> None, header |-> None, threads |-> None,
     compression |-> "none", dryRun |-> FALSE]

FromEnd == [Plain EXCEPT !.fromBeginning = FALSE]
FromTime(t) == [FromEnd EXCEPT !.fromTimestamp = t]

Capturing ==
    {Plain,
     [FromEnd EXCEPT !.partitions = {0}, !.live = TRUE,
                     !.toFile = None, !.toDir = path],
     [FromTime(5) EXCEPT !.count = 1, !.format = "json-hybrid"],
     [FromTime(-5) EXCEPT !.format = "base64"],
     [FromEnd EXCEPT !.untilTimestamp = 6, !.keyRegex = {k1},
                     !.format = "utf8"],
     [FromEnd EXCEPT !.untilOffset = 1, !.format = "force-utf8"],
     [Plain EXCEPT !.header = <<<<"app", "b">>, <<"app", "a">>, <<"x">>>>],
     [Plain EXCEPT !.header = <<<<"app", "a", "">>>>, !.count = 0,
                   !.format = "value"]}

NotCapturing ==
    {[Plain EXCEPT !.dryRun = TRUE],
     [Plain EXCEPT !.toDir = path],
     [Plain EXCEPT !.toFile = None],
     [Plain EXCEPT !.toFile = None, !.toDb = path],
     [Plain EXCEPT !.fromTimestamp = 5],
     [Plain EXCEPT !.count = 1, !.untilOffset = 2],
     [Plain EXCEPT !.threads = 2],
     [Plain EXCEPT !.compression = "gzip"],
     [Plain EXCEPT !.format = "avro"],
     [FromEnd EXCEPT !.command = "replay", !.toFile = None],
     [FromEnd EXCEPT !.command = "completion", !.toFile = None]}

MCCommandLines ==
    Capturing \cup NotCapturing \cup {[Plain EXCEPT !.keyRegex = InvalidRegex]}

PlainCommands == {Plain}
PartitionCommands == {[Plain EXCEPT !.partitions = {0}]}

(* --from-offsets 0=1 --from-offsets 1=0 --count 0 --header x               *)
(* --format json-hybrid                                                     *)
IgnoredCommands ==
    {[FromEnd EXCEPT !.fromOffsets = <<<<0, 1>>, <<1, 0>>>>, !.count = 0,
                     !.header = <<<<"x">>>>, !.format = "json-hybrid"]}
=============================================================================
