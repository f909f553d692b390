---------------------------- MODULE StoreUsecase ----------------------------
(***************************************************************************)
(* The process: main() under #[tokio::main], the parsing of the command    *)
(* line, `kscribe store` (StoreCommand::execute) and store() of            *)
(* core/store_usecase.rs, from setting up the consumer, the storage and    *)
(* the pump over the select! between SIGINT, SIGTERM and the pump to       *)
(* closing, and what happens to the consumer and to the two pump tasks     *)
(* when store() returns without them and the runtime is shut down.         *)
(*                                                                         *)
(* The pump is the module PumpTask over the same variables, with the       *)
(* command the flags ask for.  store() runs on the main thread, which also *)
(* polls PumpTask::run; the producer and the writer run on the workers of  *)
(* the runtime.                                                            *)
(***************************************************************************)
EXTENDS CommandLine

CONSTANTS
    Partitions, Topic, ChannelCapacity, PollTimeout,
    IdleShutdownAfter, MaxDelay, Noise, NoiseMessage,   \* of PumpTask
    RawOffsets,     \* the raw offsets the broker may resolve a timestamp to
    CloseDeadline   \* how many polls fit into the 5 s that stop() drains for

ASSUME CloseDeadlineAssumption == CloseDeadline \in Nat

VARIABLES
    cmd, next, producer, inHand, produced, elapsed, stopReason, channel,
    writer, inFlight, consumed, run, result, emptyPolls, accepted,
    attempted,      \* of PumpTask
    flags,          \* the command line
    stage,          \* the call the process is at; "leaving" (store() returns),
                    \* "shutdown" (of the runtime), "exited"
    assignment,     \* topic_assignment
    consumer,       \* "none", "created", "assigned"; taken by stop: "closing",
                    \* "closed"; dropped without it: "dropping", "destroyed"
    closeLeft,      \* the polls left to the drain loop of stop()
    backend,        \* what create_storage built
    storage,        \* "none", "open", "closed"
    tasks,          \* "none", "queued" (spawned), "running"
    listening,      \* the signals whose handler is installed
    raised,         \* the signals that reached a handler
    outcome         \* what the process reports

StoreCommands == {CommandOf(f) : f \in CommandLines}

Pump == INSTANCE PumpTask WITH Commands <- StoreCommands

ASSUME StoreAssumption ==
    /\ \A p \in Partitions : Topic[p] \in Seq(Pump!Message)
    /\ \A m \in Pump!Message :
          m.offset \in Int /\ (m.timestamp # None => m.timestamp \in Int)
    /\ ChannelCapacity \in Nat \ {0}
    /\ PollTimeout \in Nat \ {0}
    /\ MaxDelay \in Nat

pumpVars == <<cmd, next, producer, inHand, produced, elapsed, stopReason,
              channel, writer, inFlight, consumed, run, result, emptyPolls,
              accepted, attempted>>
writerVars == <<writer, inFlight, consumed, attempted>>
consumerVars == <<assignment, consumer, closeLeft>>
storageVars == <<backend, storage>>
appVars == <<flags, stage, consumerVars, storageVars, tasks, listening,
             raised, outcome>>
vars == <<pumpVars, appVars>>

Signals == {"SIGINT", "SIGTERM"}

SetupStages == {"parse", "execute", "createConsumer", "initialize",
                "fetchMetadata", "offsetsForTimes", "assign",
                "fetchOffsetPositions", "initStorage", "createTask"}
ClosingStages == {"closeStorage", "stopConsumer", "closeConsumer", "drainConsumer"}
LastStages == {"leaving", "shutdown", "exited"}
Outcomes == {"none", "ok", "error", "interrupted", "terminated", "killed"}

TypeOK ==
    /\ Pump!TypeOK
    /\ flags \in CommandLines
    /\ stage \in SetupStages \cup {"select"} \cup ClosingStages \cup LastStages
    /\ consumer \in {"none", "created", "assigned", "closing", "closed",
                    "dropping", "destroyed"}
    /\ closeLeft \in 0..CloseDeadline
    /\ storage \in {"none", "open", "closed"}
    /\ tasks \in {"none", "queued", "running"}
    /\ listening \subseteq Signals
    /\ raised \subseteq Signals
    /\ outcome \in Outcomes

(* cmd is what execute makes of the flags, and nothing looks at it before.  *)
Init ==
    /\ flags \in CommandLines
    /\ Pump!Init
    /\ cmd = CommandOf(flags)
    /\ stage = "parse"
    /\ assignment = <<>>
    /\ consumer = "none" /\ closeLeft = 0
    /\ backend = None
    /\ storage = "none" /\ tasks = "none"
    /\ listening = {} /\ raised = {}
    /\ outcome = "none"

-----------------------------------------------------------------------------
(* Setting up. *)

At(s) == stage = s
Goto(s) == stage' = s /\ UNCHANGED outcome

(* store() returns: `?`, or the return in an arm of select!. *)
Return(o) == stage' = "leaving" /\ outcome' = o

(* replay, stats and completion print a line. *)
NotImplemented == Return("ok")

(* clap turns a command line down by exiting at once; of the other          *)
(* subcommands' flags it may think anything.                                *)
ParseCommandLine ==
    /\ At("parse")
    /\ \/ /\ ~ClapAccepts(flags) \/ flags.command # "store"
          /\ stage' = "exited" /\ outcome' = "error"
       \/ ClapAccepts(flags) /\ flags.command # "store" /\ NotImplemented
       \/ ClapAccepts(flags) /\ flags.command = "store" /\ Goto("execute")
    /\ UNCHANGED <<consumerVars, storageVars, tasks>>

(* Mutant: --dry-run is not looked at. *)
ExecuteDryRun ==
    /\ At("execute")
    /\ IF Refused(flags) THEN Return("error") ELSE Goto("createConsumer")
    /\ UNCHANGED <<consumerVars, storageVars, tasks>>

Execute ==
    /\ At("execute")
    /\ CASE Refused(flags) -> Return("error")
         [] ~Refused(flags) /\ flags.dryRun -> Return("ok")
         [] OTHER -> Goto("createConsumer")
    /\ UNCHANGED <<consumerVars, storageVars, tasks>>

CreateConsumer ==
    /\ At("createConsumer")
    /\ \/ Goto("initialize") /\ consumer' = "created"
       \/ Return("error") /\ UNCHANGED consumer
    /\ UNCHANGED <<assignment, closeLeft, storageVars, tasks>>

(* The topic must exist. *)
Initialize ==
    /\ At("initialize")
    /\ Goto("fetchMetadata") \/ Return("error")
    /\ UNCHANGED <<consumerVars, storageVars, tasks>>

(* Mutant: the timestamp is assigned as if it were an offset. *)
FetchMetadataUnresolved ==
    /\ At("fetchMetadata")
    /\ assignment' = ParseTopicAssignment(cmd.from, Partitions)
    /\ Goto("assign") /\ UNCHANGED <<consumer, closeLeft, storageVars, tasks>>

(* Every partition of the topic is assigned, whatever the filter says. *)
FetchMetadata ==
    /\ At("fetchMetadata")
    /\ \/ /\ assignment' = ParseTopicAssignment(cmd.from, Partitions)
          /\ Goto(IF cmd.from.kind = "Timestamp" THEN "offsetsForTimes"
                                                 ELSE "assign")
       \/ Return("error") /\ UNCHANGED assignment
    /\ UNCHANGED <<consumer, closeLeft, storageVars, tasks>>

(* The broker resolves each partition's timestamp on its own; a partition   *)
(* it has no answer for comes back as RawEnd or RawInvalid.                 *)
OffsetsForTimes ==
    /\ At("offsetsForTimes")
    /\ \/ /\ TplToRdkafkaSucceeds(assignment)
          /\ \E tpl \in [Partitions -> RawOffsets] :
                assignment' = TplFromRdkafka(tpl)
          /\ Goto("assign")
       \/ Return("error") /\ UNCHANGED assignment
    /\ UNCHANGED <<consumer, closeLeft, storageVars, tasks>>

Assign ==
    /\ At("assign")
    /\ \/ /\ TplToRdkafkaSucceeds(assignment)
          /\ consumer' = "assigned"
          /\ Goto("fetchOffsetPositions")
       \/ Return("error") /\ UNCHANGED consumer
    /\ UNCHANGED <<assignment, closeLeft, storageVars, tasks>>

FetchOffsetPositions ==
    /\ At("fetchOffsetPositions")
    /\ Goto("initStorage") \/ Return("error")
    /\ UNCHANGED <<consumerVars, storageVars, tasks>>

(* create_storage: the storage's own defaults but for the path and the      *)
(* format.  SingleFileStorage.tla has a newline after every record.         *)
DirectoryConfig(format) ==
    [kind |-> "Directory", format |-> format, create_if_missing |-> TRUE]

SingleFileConfig(format) ==
    [kind |-> "SingleFile", format |-> format, create_if_missing |-> TRUE,
     append_newline |-> TRUE]

CreateStorage(c) ==
    IF c.to = "Directory" THEN DirectoryConfig(c.format)
                          ELSE SingleFileConfig(c.format)

InitStorage ==
    /\ At("initStorage")
    /\ backend' = CreateStorage(cmd)
    /\ \/ Goto("createTask") /\ storage' = "open"
       \/ Return("error") /\ UNCHANGED storage
    /\ UNCHANGED <<consumerVars, tasks>>

(* The key regex is compiled only here, after the storage was opened. *)
CreateTask ==
    /\ At("createTask")
    /\ IF cmd.keyRegex = InvalidRegex THEN Return("error") ELSE Goto("select")
    /\ UNCHANGED <<consumerVars, storageVars, tasks>>

Setup ==
    \/ ParseCommandLine \/ Execute
    \/ CreateConsumer \/ Initialize \/ FetchMetadata \/ OffsetsForTimes
    \/ Assign \/ FetchOffsetPositions \/ InitStorage \/ CreateTask

-----------------------------------------------------------------------------
(* select!: its first poll visits the three branches in a random order;     *)
(* each signal's handler is installed when its branch is first polled, and  *)
(* the pump's two tasks are spawned when its branch is.                     *)

Listen(s) ==
    /\ At("select")
    /\ s \notin listening
    /\ listening' = listening \cup {s}
    /\ UNCHANGED <<stage, consumerVars, storageVars, tasks, outcome>>

SpawnTasks ==
    /\ At("select")
    /\ tasks = "none"
    /\ tasks' = "queued"
    /\ UNCHANGED <<stage, consumerVars, storageVars, listening, outcome>>

AllPolled == listening = Signals /\ tasks # "none"

(* Mutant: a signal closes the storage and the consumer under the tasks. *)
SelectSignalCloses(s) ==
    /\ At("select") /\ AllPolled /\ s \in raised
    /\ Goto("closeStorage")
    /\ UNCHANGED <<consumerVars, storageVars, tasks, listening>>

(* The losing branch is dropped: run's future goes, and the join handles in *)
(* it detach the tasks, which keep running.                                 *)
SelectSignal(s) ==
    /\ At("select")
    /\ AllPolled
    /\ s \in raised
    /\ Return(IF s = "SIGINT" THEN "interrupted" ELSE "terminated")
    /\ UNCHANGED <<consumerVars, storageVars, tasks, listening>>

(* Mutant: only the producer is waited for. *)
SelectPumpEarly ==
    /\ At("select") /\ AllPolled /\ producer = "done"
    /\ Goto("closeStorage")
    /\ UNCHANGED <<consumerVars, storageVars, tasks, listening>>

SelectPump ==
    /\ At("select")
    /\ AllPolled
    /\ run = "returned"
    /\ Goto("closeStorage")
    /\ UNCHANGED <<consumerVars, storageVars, tasks, listening>>

(* A storage that cannot be closed ends store() before the consumer's stop. *)
CloseStorage ==
    /\ At("closeStorage")
    /\ \/ Goto("stopConsumer") /\ storage' = "closed"
       \/ Return("error") /\ UNCHANGED storage
    /\ UNCHANGED <<consumerVars, backend, tasks, listening>>

(* stop takes the consumer out of its mutex, unassigns it and calls         *)
(* rd_kafka_consumer_close.  It only fails on a poisoned lock, and nothing  *)
(* panics under the lock.                                                   *)
StopConsumer ==
    /\ At("stopConsumer")
    /\ consumer' = "closing"
    /\ Goto("closeConsumer")
    /\ UNCHANGED <<assignment, closeLeft, storageVars, tasks, listening>>

(* rd_kafka_consumer_close returns, if it does; librdkafka may have more to *)
(* do before the consumer is closed.                                        *)
CloseReturns ==
    /\ At("closeConsumer")
    /\ consumer' \in {"closing", "closed"}
    /\ closeLeft' = CloseDeadline
    /\ Goto("drainConsumer")
    /\ UNCHANGED <<assignment, storageVars, tasks, listening>>

(* Polled until librdkafka says that it is closed, or the deadline is past. *)
DrainConsumer ==
    /\ At("drainConsumer")
    /\ consumer = "closing"
    /\ closeLeft > 0
    /\ consumer' \in {"closing", "closed"}
    /\ closeLeft' = closeLeft - 1
    /\ UNCHANGED <<stage, outcome, assignment, storageVars, tasks, listening>>

(* Mutant: stop waits until the consumer is closed, deadline or not. *)
ForgetConsumerClosed ==
    /\ At("drainConsumer") /\ consumer = "closed" /\ Return("ok")
    /\ UNCHANGED <<consumerVars, storageVars, tasks, listening>>

(* The handle is leaked, closed or not. *)
ForgetConsumer ==
    /\ At("drainConsumer")
    /\ consumer = "closed" \/ closeLeft = 0
    /\ Return("ok")
    /\ UNCHANGED <<consumerVars, storageVars, tasks, listening>>

TasksGone ==
    \/ tasks = "none"
    \/ /\ producer \in {"done", "cancelled"}
       /\ writer \in {"done", "cancelled"}

(* Until it ends, the producer task shares the consumer with store(). *)
ProducerHolds == tasks # "none" /\ producer \notin {"done", "cancelled"}

(* A consumer that stop has not taken. *)
WithConsumer == consumer \in {"created", "assigned"}

(* The last to let go of a consumer that was not stopped drops it: store()  *)
(* on its way out, or the producer task when it ends or is cancelled.       *)
(* BaseConsumer::drop closes the consumer and polls it until librdkafka     *)
(* says that it is closed, without a deadline.                              *)
DropConsumer ==
    /\ stage \in {"leaving", "shutdown"}
    /\ WithConsumer /\ ~ProducerHolds
    /\ consumer' = "dropping"
    /\ UNCHANGED <<stage, outcome, assignment, closeLeft, storageVars, tasks,
                   listening>>

ConsumerDestroyed ==
    /\ consumer = "dropping"
    /\ consumer' = "destroyed"
    /\ UNCHANGED <<stage, outcome, assignment, closeLeft, storageVars, tasks,
                   listening>>

(* main returns, unless it is the one that has the consumer to drop. *)
Leave ==
    /\ At("leaving")
    /\ consumer # "dropping"
    /\ WithConsumer => ProducerHolds
    /\ Goto("shutdown")
    /\ UNCHANGED <<consumerVars, storageVars, tasks, listening>>

(* Dropping the runtime waits until no worker runs a task, or a destructor, *)
(* any more.                                                                *)
Exit ==
    /\ At("shutdown")
    /\ TasksGone
    /\ ~WithConsumer /\ consumer # "dropping"
    /\ Goto("exited")
    /\ UNCHANGED <<consumerVars, storageVars, tasks, listening>>

App ==
    /\ \/ Setup /\ UNCHANGED listening
       \/ \E s \in Signals : Listen(s) \/ SelectSignal(s)
       \/ SpawnTasks \/ SelectPump \/ CloseStorage
       \/ StopConsumer \/ DrainConsumer \/ ForgetConsumer
       \/ DropConsumer \/ Leave \/ Exit
    /\ UNCHANGED <<flags, raised, pumpVars>>

(* What only librdkafka brings about. *)
Librdkafka ==
    /\ CloseReturns \/ ConsumerDestroyed
    /\ UNCHANGED <<flags, raised, pumpVars>>

(* A signal without a handler kills the process; one with a handler is      *)
(* noted, and noticed only by a select! that is still waiting.              *)
Raise(s) ==
    /\ stage # "exited"
    /\ IF s \in listening
         THEN /\ s \notin raised
              /\ raised' = raised \cup {s}
              /\ UNCHANGED <<stage, outcome>>
         ELSE stage' = "exited" /\ outcome' = "killed" /\ UNCHANGED raised
    /\ UNCHANGED <<flags, consumerVars, storageVars, tasks, listening,
                   pumpVars>>

-----------------------------------------------------------------------------
(* The spawned tasks, and what the shutdown of the runtime does to them.    *)

Alive == tasks # "none" /\ stage # "exited"

(* A worker picks the producer up for the first time. *)
StartProducer ==
    /\ Alive
    /\ tasks = "queued"
    /\ tasks' = "running"
    /\ UNCHANGED <<flags, stage, consumerVars, storageVars, listening, raised,
                   outcome, pumpVars>>

(* The receiver is gone: tx.send fails, and the loop is left. *)
SendError ==
    /\ producer = "send"
    /\ writer = "cancelled"
    /\ Pump!StopProducer("closed")
    /\ UNCHANGED <<cmd, next, inHand, produced, elapsed, emptyPolls, accepted,
                   channel, writerVars, run, result>>

(* A consumer that was taken answers every call with an error. *)
Producer ==
    /\ Alive
    /\ tasks = "running"
    /\ Pump!Producer \/ SendError
    /\ producer = "recv" /\ ~WithConsumer => stopReason' = "error"
    /\ UNCHANGED appVars

Writer ==
    /\ Alive
    /\ Pump!Writer
    /\ UNCHANGED appVars

(* run is polled by select!. *)
Run ==
    /\ At("select")
    /\ AllPolled
    /\ Pump!Run
    /\ UNCHANGED appVars

(* A task is cancelled only where it gives its worker back.  recv_next      *)
(* blocks its thread and never does; tx.send does.                          *)
CancelProducer ==
    /\ At("shutdown")
    /\ \/ tasks = "queued" /\ producer = "recv"
       \/ producer = "send"
    /\ producer' = "cancelled"
    /\ UNCHANGED <<cmd, next, inHand, produced, elapsed, stopReason,
                   emptyPolls, accepted, channel, writerVars, run,
                   result, appVars>>

(* What the channel and the writer held is dropped; whether the storage has *)
(* the message it was writing is not known.                                 *)
CancelWriter ==
    /\ At("shutdown")
    /\ tasks # "none"
    /\ writer \in {"recv", "store", "flush"}
    /\ writer' = "cancelled"
    /\ UNCHANGED <<cmd, next, producer, inHand, produced, elapsed, stopReason,
                   emptyPolls, accepted, channel, inFlight, consumed,
                   attempted, run, result, appVars>>

Cancel == CancelProducer \/ CancelWriter

Next ==
    \/ App \/ Librdkafka \/ (\E s \in Signals : Raise(s))
    \/ StartProducer \/ Producer \/ Writer \/ Run \/ Cancel

(***************************************************************************)
(* The calls store() makes with a timeout return, the runtime keeps        *)
(* polling the tasks that are ready, and its shutdown cancels every task   *)
(* that gives its worker back.  Signals may or may not come, and nothing   *)
(* is promised of the two calls that wait for librdkafka without a         *)
(* timeout, closing a consumer and destroying it.                          *)
(***************************************************************************)
Fairness ==
    /\ WF_vars(App)
    /\ WF_vars(StartProducer)
    /\ WF_vars(Producer)
    /\ WF_vars(Writer)
    /\ WF_vars(Run)
    /\ WF_vars(CancelProducer)
    /\ WF_vars(CancelWriter)

Spec == Init /\ [][Next]_vars /\ Fairness

-----------------------------------------------------------------------------
(* Properties. *)

AskedStart(p, raw) ==
    CASE flags.fromBeginning -> raw = RawBeginning
      [] flags.fromTimestamp # None -> raw \in RawOffsets
      [] flags.fromOffsets # None ->
            LET offsets == ParseFromOffsets(flags.fromOffsets)
            IN  p \in DOMAIN offsets => raw = offsets[p]
      [] OTHER -> raw = RawEnd

(* The capture starts where the flags say: every partition of the topic is  *)
(* assigned a position librdkafka can take, which is the beginning, the end *)
(* or the offset that was asked for, and for a timestamp what the broker    *)
(* resolved it to, never the timestamp itself that rode in the offset slot. *)
StartsWhereAsked ==
    consumer = "assigned" =>
        /\ DOMAIN assignment = Partitions
        /\ TplToRdkafkaSucceeds(assignment)
        /\ flags.fromOffsets # None => FromOffsetsParse(flags.fromOffsets)
        /\ \A p \in Partitions : AskedStart(p, RawOf(assignment[p]))

AskedHeader(m, name, value) == name \in DOMAIN m.headers /\ m.headers[name] = value

(* Said of the flags themselves, not of the command made of them. *)
AskedFor(m) ==
    /\ flags.partitions # None => m.partition \in flags.partitions
    /\ flags.keyRegex # None => m.key \in flags.keyRegex
    /\ flags.header # None =>
          \A i \in DOMAIN flags.header :
             Len(flags.header[i]) = 2 =>
                \E j \in i..Len(flags.header) :
                   /\ Len(flags.header[j]) = 2
                   /\ flags.header[j][1] = flags.header[i][1]
                   /\ AskedHeader(m, flags.header[j][1], flags.header[j][2])
    /\ flags.untilOffset # None => m.offset < flags.untilOffset
    /\ flags.untilTimestamp # None /\ m.timestamp # None =>
          m.timestamp < flags.untilTimestamp

(* Claimed by the help of --count, "Capture exactly N messages": never more *)
(* than that, and a capture that --count ends has them all.                 *)
CountIsObeyed ==
    flags.count # None =>
        /\ Len(accepted) <= flags.count
        /\ stopReason = "limitAfter" => Len(accepted) = flags.count

(* Claimed by the documentation of --format: the storage is set up with the *)
(* encoding that is listed for the name.                                    *)
FormatIsDocumented ==
    storage # "none" => backend.format = DocumentedFormat(flags.format)

(* Claimed by the test of an invalid --header, which expects an error: with *)
(* one that is not NAME=VALUE nothing is captured.                          *)
BadHeaderIsRefused ==
    flags.header # None /\ (\E i \in DOMAIN flags.header : Len(flags.header[i]) # 2)
        => accepted = <<>>

(* From the command line to the storage: each message that is captured is   *)
(* one every well-formed flag allows (of several --header with one name,    *)
(* one), a capture that --count ends has exactly that many and none has     *)
(* more, and they go to the kind of storage and in the encoding that are    *)
(* documented.  Not so for --count 0 and for the format json-hybrid, which  *)
(* SomeFlagIsHonoured is about.                                             *)
CapturedAsAsked ==
    /\ \A i \in DOMAIN accepted : AskedFor(accepted[i])
    /\ flags.count # 0 => CountIsObeyed
    /\ flags.format \notin {"json-hybrid", "hybrid"} => FormatIsDocumented
    /\ storage # "none" =>
          /\ flags.toDir # None <=> backend.kind = "Directory"
          /\ flags.toFile # None <=> backend.kind = "SingleFile"

(* Claimed by the help texts and a test, each on its own: --from-offsets is *)
(* where the capture starts, --count is how many messages it has, a bad     *)
(* --header is refused, and --format json-hybrid is Utf8WithFallback.  This *)
(* only says that no capture breaks all four at once.                       *)
SomeFlagIsHonoured ==
    StartsWhereAsked \/ CountIsObeyed \/ BadHeaderIsRefused \/ FormatIsDocumented

(* --dry-run promises to make no changes, and so does every refusal: no     *)
(* consumer is created and no storage opened for a command line that clap   *)
(* or execute turns down, that only simulates, or that is not for `store`;  *)
(* and a filter that does not compile keeps every message from being polled. *)
RefusedTouchesNothing ==
    /\ ~Captures(flags) =>
          consumer = "none" /\ storage = "none" /\ tasks = "none"
    /\ flags.keyRegex = InvalidRegex => tasks = "none" /\ attempted = <<>>

(* Success of a capture is reported only for a pump that ran to its end:    *)
(* every accepted message was offered to the storage, which was then        *)
(* closed, and only then was the consumer stopped.                          *)
OkIsComplete ==
    outcome = "ok" /\ Captures(flags) =>
        /\ run = "returned"
        /\ attempted = accepted
        /\ storage = "closed"
        /\ consumer \in {"closing", "closed"}

(* However a capture ends, by its limits, an error, a signal or the         *)
(* shutdown in mid-flight: what the storage was offered is a gapless prefix *)
(* of what was accepted, and no more than the channel and two hands of      *)
(* messages is lost.                                                        *)
LossIsBounded ==
    /\ Len(attempted) <= Len(accepted)
    /\ attempted = SubSeq(accepted, 1, Len(attempted))
    /\ Len(accepted) - Len(attempted) <= ChannelCapacity + 2

(* A task that outlives select! never touches what has been closed: nothing *)
(* is stored once the storage is closed, nothing polled once the consumer   *)
(* is taken.                                                                *)
QuietAfterClose ==
    [][storage = "closed" \/ consumer \in {"closing", "closed"}
         => UNCHANGED <<next, emptyPolls, attempted>>]_vars

(* Inside a call of librdkafka that has no timeout. *)
InLibrdkafka == At("closeConsumer") \/ consumer = "dropping"

(* A signal taken by a waiting select! ends the process, provided the topic *)
(* falls silent and librdkafka closes its consumer: the producer leaves by  *)
(* the idle time, a limit, a failed send or cancellation.                   *)
SignalEndsProcess ==
    []<>~InLibrdkafka =>
        \A s \in Signals : (At("select") /\ s \in raised) ~> At("exited")

(* The process ends, signal or not, unless librdkafka never comes back: the *)
(* drain loop of stop, the calls that fail and the runtime do not keep it.  *)
ProcessEnds == []<>~InLibrdkafka => <>At("exited")

(* Claimed by the log lines and the task list, a signal shuts the process   *)
(* down gracefully: when it has ended, the storage is closed and the        *)
(* consumer was taken by stop, and not dropped where it may hang.           *)
SignalIsGraceful ==
    At("exited") /\ outcome \in {"interrupted", "terminated"} =>
        storage = "closed" /\ consumer \in {"closing", "closed"}

(* Claimed by the disk exhaustion test: a capture that could not store a    *)
(* message does not succeed.                                                *)
StoreFailureIsReported ==
    outcome = "ok" /\ Captures(flags) => result = Len(accepted)
=============================================================================
