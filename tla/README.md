# A TLA+ model of kafka-scribe

`kafka-scribe store` captures records of a Kafka topic into files.  This
directory holds TLA+ modules that model the process from its command line to its
end, the two file storages, the statistics they keep and the formats they write;
TLC configurations that check the modules on small instances; and TLAPS proofs
of the main properties for every topic, command line, channel size, number of
callers and number of faults.  Paths below are relative to the repository, whose
crate is in `src/src`.

## The system

| component | state | operations | interacts through |
|---|---|---|---|
| `main`, `Cli`, `StoreCommand::execute` (`main.rs`, `cli/`) | the flags | parse, refuse, simulate, build a `StoreKafkaCommand` | calls `store()` |
| `store()` (`core/store_usecase.rs`) | the call it is at, consumer, storage, signal handlers | set up, `select!` between SIGINT, SIGTERM and the pump, close, stop | calls; spawns tasks |
| `PumpTask::run` (same file) | producer loop, bounded channel of 100, writer loop, counters, `last_message_at` | poll, filter, limits, send; receive, store, flush; join | mpsc channel, join handles |
| `MessageFilter`, `MessageLimits` (same file) | none | pure predicates | called by the producer |
| `RdKafkaConsumer` (`kafka/consumer.rs`) | a mutex around an optional librdkafka consumer | metadata, assign, offsets for times, poll, stop with its drain loop; conversions | called by `store()` and the producer |
| `SingleFileStorage` | one file, `file_mutex`, statistics | `store_message`, `store_messages`, `flush`, `close` | called by the writer |
| `DirectoryStorage` | one file per message, statistics | the same; `flush` and `close` do nothing | called by the writer |
| `StorageStats` in both | counts, time range, sets of topics and partitions, three locks | `update_stats`, `get_stats` | called by the storages |
| `JsonFormat`, `JsonHybridFormat` (`formats/`) | none | serialize, deserialize, also in batches | called by the storages |
| `replay`, `stats`, `completion` | none | parse flags, print a line, return Ok | called by `main` |
| `Config`, errors, `utils` | none | a YAML record nobody reads; error texts; empty files | nothing |

What is hard here:

* **Three threads of control.** The producer and the writer are tokio tasks on
  worker threads, `run` and `select!` are polled on the main thread.  Only the
  channel and the join handles order them.
* **Ending.** A capture ends by a limit, by 500 ms without a record, by a Kafka
  error, by a failed send, by a signal, or by the shutdown of the runtime in the
  middle of anything.  `recv_next` blocks its thread (`block_in_place`) and
  never yields; `tx.send` and the storage calls do.
* **Failure.** A failed store is logged and skipped; a failed receive ends the
  loop; a flush that fails is ignored; a close that fails skips `stop`.  tokio's
  `File` reports the error of a write at the next operation on the handle.
* **librdkafka.**  Closing a consumer (`rd_kafka_consumer_close`, in `stop`) and
  dropping one that was not stopped (on every path that returns early) have no
  deadline; `stop` leaks its handle "to avoid hanging in rd_kafka_destroy".
* **Crashes and reruns.** The files outlive the process and the next capture
  appends to or truncates what it finds.
* **Translation.** A flag goes through three records before it is a filter, a
  limit, a start position, a kind of storage or an encoding, and some are
  dropped on the way; a key or a value goes through an encoding that a reader
  has to undo, and JSON is read only to a depth of 127.

For each component, what makes it correct:

* command line: what is refused or simulated touches nothing; what is captured,
  from where and into what is what the flags say;
* pump: nothing that passed the filter and the limits is lost, doubled or
  reordered; limits stop at the first record that reaches them; the idle clock
  neither cuts a capture short nor lets it run on; memory is bounded; the
  capture ends, and only when everything was offered to the storage;
* `store()`: what is polled was resolved; success means a complete capture, a
  closed storage and a stopped consumer; however it ends, what was offered is a
  prefix of what was accepted; nothing touches what was closed; the process ends;
* single file: it keeps the promises of `StorageBackend`; records keep to their
  lines, a fault spoils at most one, the mutex comes back;
* directory: messages keep apart, an acknowledged file stays whole, a rerun
  repairs, nothing but a crash or a rewrite destroys a copy;
* statistics: every update counts once, no older number replaces a newer one;
* formats: exactly which keys, values and headers come back as they went.

## The modules

`EXTENDS` and `INSTANCE` between them (the proofs extend what they are named for):

    MessageSelection <-- PumpTask <-- MCPumpTask
                            |  ^----- PumpTaskProofs <-- PumpStopProofs
                            |  ^----- StoreUsecase (INSTANCE, same variables)
                            `-------> Capture (INSTANCE, refinement)
    MessageSelection <-- TopicAssignment <-.
                             HashMaps <--- CommandLine <-- StoreUsecase <-- MCStoreUsecase
                                 ^                              ^---------- StoreUsecaseProofs
                                 `-------- MessageFormat <-- MCMessageFormat, FormatProofs
    SingleFileStorage <-- MCSingleFile, SingleFileProofs
            `-------> StorageBackend (INSTANCE, refinement)
    DirectoryStorage <-- MCDirectory, DirectoryProofs
    StorageStats <-- MCStorageStats, StorageStatsProofs
    HashMaps <-- SequenceLemmas <-- PumpTaskProofs, StoreUsecaseProofs,
                                    DirectoryProofs, FormatProofs

**MessageSelection** holds the predicates of the filter and the limits.  A regex
is the set of keys it matches; keys are model values, some of them not UTF-8.
`AsI64` is the cast `as i64` with the width `MaxI64`.

**PumpTask** models `PumpTask::run`.  `producer`, `writer` and `run` are the
program counters of the two tasks and of the function that joins them.  One
producer step is one trip round the loop up to the next await: a poll with the
filter and the limits (`RecvRejected`, `RecvPastLimit`, `RecvAccepted`,
`RecvNothing`, `RecvError`), or a send with the count limit (`Send`).  The writer
receives, stores (success or failure), sees the end of the channel and flushes.
`inHand` and `inFlight` are the messages the two tasks hold.  `elapsed` counts
ticks of 100 ms since `last_message_at`; it is looked at only by an empty poll,
so only empty polls advance it, by the poll's timeout and up to `MaxDelay` ticks
more.  The broker is the constant `Topic`, a finite sequence of records per
partition that interleave freely; with `Noise` there is also an endless flow of
one more record, delivered only if the filter rejects it.  `accepted`,
`attempted` and `emptyPolls` are history variables.

**Capture** is what the pump promises, without tasks: a bounded FIFO whose
elements are each offered to the storage once, in order, and which finishes when
closed and empty.  `ImplementsCapture` is the refinement, with the pending
messages mapped to `inFlight \o channel \o inHand`.

**TopicAssignment** holds `parse_topic_assignment` and the conversions of offsets
to and from librdkafka's raw numbers.  **HashMaps** is how the code fills a
`HashMap`: one insert per pair, the last of a name wins.

**CommandLine** goes from the flags to the command: the groups clap enforces, what
`execute` refuses on its own (databases, threads, compression, no destination or
two, unknown formats), `parse_format`, `parse_from_offsets`, the headers, and the
`StoreKafkaCommand`.  Flags that only reach a log line are left out.

**StoreUsecase** models the process.  `stage` is the call it is at, from
`ParseCommandLine` and `Execute` over the setup, one action per call with its
failure, to `select!`, which polls its three branches in a random order, so that
the signal handlers are installed (`Listen`) and the tasks spawned (`SpawnTasks`)
in any order.  A signal with no handler kills the process, one with a handler is
noted and noticed only by a waiting `select!`.  `stop` takes the consumer and asks
librdkafka to close it (`StopConsumer`), which may take for ever (`CloseReturns`),
then polls until it is closed or five seconds are past (`DrainConsumer`), and
leaks the handle (`ForgetConsumer`).  When `store()` returns (`Return`, stage
"leaving") without having got that far, the consumer is still there and the last
to hold it drops it (`DropConsumer`): the main thread before it leaves `main`
(`Leave`), or the producer task, which shares it, when it ends or is cancelled.
Such a drop closes the consumer and waits for librdkafka without a deadline
(`ConsumerDestroyed`).  Then the runtime is dropped (stage "shutdown"): a task is
cancelled where it gives its worker back (`CancelProducer`, `CancelWriter`), which
the polling producer never does, and the process exits when no task is left and
no worker is still in the drop (`Exit`).  The pump's actions are those of
`PumpTask` over the same variables.

**StorageBackend** is what the trait's documentation promises of any storage:
what is acknowledged is stored, a flush makes durable all that was acknowledged,
and only a crash takes away, never what is durable.

**SingleFileStorage** models calls of several tasks to one file.  The file is a
sequence of pieces: whole or torn records and newlines.  A write is handed to a
background thread; `lastWrite` is its fate, which the next operation of the call
learns (`ReportFailure`).  `synced` is the durable prefix.  `Crash` is the death
of the process or of the machine, with the loss of any unsynced suffix, and the
same work begins again.  `ImplementsStorage` is its refinement of
`StorageBackend`, where a record that is whole in the file is a stored message.

**DirectoryStorage** does the same for one file per message.  A file is empty,
torn or whole; a batch goes through the provided `store_messages`, which gives
up at the first error.  `flush` and `close` have no effect and no action, which
is why this storage does not implement `StorageBackend`: nothing in it is ever
durable.

**StorageStats** models `update_stats` by its lock steps: the count under the
write lock; then, with the mutexes of topics and partitions, the publication.
A snapshot of `get_stats` is the value of `stats` in a state.

**MessageFormat** follows a batch from the broker (`Receive`, the conversion with
its headers) through serialize to deserialize, with a record torn on the way or
not.  Byte strings are told apart as far as the conversions do: UTF-8, the prefix
`base64:`, JSON in serde_json's own spelling or another, and how deep that JSON is
nested.  `serde_json::from_slice` refuses 128 levels (`RecursionLimit`): a payload
that deep is no JSON to `bytes_to_value` (`IsJson`), and one of 127 levels is, but
its record, where it is one level down (`Embeds`), is refused by `validate_json`.

Comments `Mutant:` mark operators that are not part of any specification.  Each
is a definition with a plausible mistake in it; put in the place of the one it
names, it makes TLC report a property as violated.  They show that the property
depends on the code.

## The runs

Twelve runs, in `PROJECT.json` with the properties they check.  Six of them pass:

| run | instance | shows |
|---|---|---|
| `pump` | two partitions with three and two records, twelve commands, capacity 2, 57,220 states | conservation, per-partition faithfulness, limits, idle clock, backpressure, completeness, termination, `AcceptedIsAttempted`, refinement of `Capture` |
| `store` | two partitions with three and one records, twenty command lines, capacity 1, 340,571 states | the capture starts where the flags say and takes what they say; what is refused touches nothing; success is complete; losses are bounded; nothing is touched after closing; a signal ends the process, and so does everything else, if librdkafka comes back |
| `single_file` | two callers, a batch of two, an empty batch, two single messages, a flush, two faults, 330,030 states | no mixed lines, acknowledged means written, damage and miscounts bounded by the faults, durability, refinement of `StorageBackend`, every call returns |
| `directory` | two callers, a batch of two and two single messages, two faults, 9,310 states | acknowledged files stay whole, a clean rerun repairs, what destroys a copy, every call returns |
| `stats` | three callers, five messages, two topics, 245 states | every update counts once at every interleaving, lag bounded by the updates under way, no number goes back, no deadlock |
| `formats` | every format with every kind of key, value and headers, JSON of 126, 127 and 128 levels, batches of one and two, 29,760 states | exactly which messages survive, exactly which cannot be read back and what that costs, which headers are left |

and six end in a counterexample to something the repository says of itself:

| run | claim | what the code does |
|---|---|---|
| `flags_ignored` | `--from-offsets`: "Start from specific offsets"; `--count`: "Capture exactly N messages"; the test that a bad `--header` is an error; "`json-hybrid` (default) — smart binary handling via `BinaryEncoding::Utf8WithFallback`" | offsets are never looked at and the capture starts at the end; `--count 0` captures one message; the header is warned about and dropped; `json-hybrid` is JsonValue |
| `signal_loss` | "shutting down gracefully" | neither close nor stop is called; up to the channel and two messages are dropped, and so is the consumer, where `stop` would not |
| `signal_noise` | the same | with steady traffic that the filter rejects, the process never ends after a signal |
| `store_failure` | "Command should fail due to disk space issues" | failed stores are logged and the command succeeds |
| `directory_torn` | "If files exist, they should be complete and valid" | a failed write leaves an empty or partial file under the final name |
| `format_docs` | "one serialized message per line"; the example of `JsonHybridFormat`, `assert_eq!(message, deserialized)` | the hybrid formats pretty-print, and the single file takes that as it is; the value of the example comes back without its blanks |

The properties of `flags_ignored` and `format_docs` are disjunctions of the claims,
`SomeFlagIsHonoured` and `SomeFormatClaimHolds`: one capture, or one message, breaks
all of them at once.

Divergences seen while modelling that have no run:

* an `--until-offset` of 2^63 or more becomes negative and ends the capture at
  once;
* JSON nested 127 deep is written to a record that cannot be read again, and costs
  its batch (`UnreadableIsKnown` says exactly when);
* a Kafka error ends the capture and is reported as success;
* a write torn in the single file takes the next record down with it
  (`DamageIsLocal` bounds this); a batch is counted before its flush
  (`CountIsClose` bounds this);
* `DirectoryStorage::flush` promises durability and does nothing;
* the help text's `partition=offset,partition=offset` is not what
  `parse_from_offsets` takes, which wants one pair per flag;
* `StoreKafkaFrom::Offset` is never built by the command line; `validate_schema`
  does not look at `required` arrays.

### Bounds

* Two partitions and five records are enough for interleaving, for one partition
  to reach a limit before the other, for a gap in the offsets, for timestamps
  out of order, and for records with and without key, timestamp and headers.
* Capacity 1 or 2 with more records than that fills the channel and blocks the
  producer.  The idle time of five ticks against polls of two is that of the
  program (500 and 200 ms); `MaxDelay = 1` lets a late poll shorten the count of
  polls.
* i64 is four bits wide (`MaxI64 = 7`), and offset 12 wraps.
* The twenty command lines have every start position, filter, limit, destination
  and format, and one line for each way to be turned down; `CloseDeadline = 2`
  lets the drain loop end in every way it can.  Four accepted messages are one more
  than capacity + 2, so that the bound of `LossIsBounded` can be passed.
* `RecursionLimit` has the value of the program: a depth is a number in a payload
  and costs no states.
* Two faults allow a fault while an earlier one is being paid for: a torn write
  and then a crash, or a crash of the rerun.  `MaxFaults` bounds nothing else.
* A batch of two shows what one record does to another; one of more adds nothing,
  since the formats keep no state between records.
* Nothing else is cut off: the state spaces are finite because topics, commands
  and work are.  `CHECK_DEADLOCK FALSE` is set because captures and calls end.

### Fairness

Weak fairness for each task, and for nothing outside the program: tokio's
multi-threaded runtime polls every task that is ready, `recv_next` returns
within its timeout, a mutex wakes a waiter when it is free, background writes
end, the calls of `store()` return, and the shutdown of the runtime cancels every
task that yields.  Nothing is assumed of librdkafka where the code gives it no
timeout: `rd_kafka_consumer_close` in `stop` and the drop of a consumer that was
not stopped are steps of their own (`Librdkafka`), in no fairness condition.  That
the process is not inside one of them for ever, `[]<>~InLibrdkafka`, is the premise
of `SignalEndsProcess` and `ProcessEnds`; if it is, the process does hang, and
there is no timer in the code that would end it.  With the premise the rest is
shown: the drain loop counts down to its deadline though librdkafka may never
report the consumer closed, and no task, failed call or signal keeps the process.
No fairness
is assumed of a choice inside a task: polls may come back empty or with an
error, stores may fail every time, the topic need not be delivered, signals need
not come.  `Terminates` excludes an endless flow of rejected records by its
premise, because the code does not end then (`signal_noise`).

## The proofs

Each theorem holds for all constants that satisfy the named assumptions of its
module, which TLC evaluates on every run.  Every invariant that the runs check is
a theorem; of `StartsWhereAsked`, which command lines with `--from-offsets`
violate, the theorem speaks of all others.

### The pump

`PumpTaskProofs` and `PumpStopProofs`, from `MaxI64Assumption`,
`PumpAssumption` (partitions are sequences of messages; capacity, timeout and
idle time are positive; counts are naturals) and, for `PumpPartitionFaithful`,
`OffsetsAssumption` (Kafka numbers the records of a partition upwards):

| theorem | what |
|---|---|
| `PumpInvariant` | `Spec => []Inv` for the inductive invariant below |
| `PumpTypeOK`, `PumpConservation`, `PumpHandOver` | its three parts |
| `PumpBackpressure` | at most capacity + 2 messages are in memory |
| `PumpReturnIsComplete` | when `run` returns, everything accepted was offered |
| `PumpImplementsCapture` | `Spec => Abstract!SafeSpec`: every step is a step of `Capture` or a stutter |
| `PumpIdleWindow` | a polling producer has not seen the idle time pass, and one that stopped as idle saw empty polls that can have taken that long |
| `PumpLimitsStopAtOnce` | a record that reaches a limit ends the capture |
| `PumpPartitionFaithful` | of each partition, exactly the records that match and lie before the limits are accepted, each once and in offset order |

The inductive invariant is `TypeOK /\ Conservation /\ HandOver`.  `Conservation`
says that the accepted messages are, in order, those offered, the one being
stored, those in the channel and the one in hand.  It is not inductive alone:
that `Send` and `StoreMessage` move exactly one message needs `HandOver`, which
says what each task holds at each point of its loop, and that the writer leaves
its loop only after the producer.  Backpressure is arithmetic on the lengths in
`Conservation`; completeness is `Conservation` with empty hands and channel.  The
refinement maps an acceptance to `Accept`, whose bound `HandOver` gives, a store
to `Attempt`, the end of the producer to `Close`, the return to `Finish`, and all
the rest to stutters.  `PumpIdleWindow` needs the stronger `IdleClock`: `elapsed`
is at least the time of the empty polls since the last record, and below the
idle time while the producer polls.  `PumpPartitionFaithful` is inductive with
`TypeOK`: an acceptance adds the record that `next` was at, whose offset is above
that of all earlier ones, and every other poll moves `next` past a record that
is not wanted.

### The process

`StoreUsecaseProofs`, from `MaxI64Assumption`, `StoreAssumption` (as for the pump;
offsets and timestamps are integers), `CloseDeadlineAssumption`,
`CommandLinesAssumption` (the flags have the types clap gives them) and
`HeadersAssumption` (the map of the headers is not the absent Option), for every
set of command lines:

| theorem | what |
|---|---|
| `StoreInvariant`, `StoreTypeOK` | the inductive invariant and the types |
| `StoreRefusedTouchesNothing` | a refused or simulated command line touches neither Kafka nor a storage |
| `StoreOkIsComplete` | success means a complete capture, a closed storage, a stopped consumer |
| `StoreLossIsBounded` | what was offered is a prefix of what was accepted, short of it by at most capacity + 2 |
| `StoreQuietAfterClose` | no task polls or stores once storage or consumer are closed |
| `StoreStartsWhereAsked` | without `--from-offsets`, every partition is consumed from where the flags say |
| `StoreCapturedAsAsked` | every captured message is one the well-formed flags allow; a capture ended by `--count` has exactly that many and none has more, but for `--count 0`; the storage is of the kind asked for and, but for `json-hybrid`, in the encoding documented |

The pump's invariant does not survive the shutdown of the runtime: a cancelled
task keeps what it held, and a producer whose send failed stops with a message
in hand.  `Flow` is the weaker form that does: `Conservation` as before, but with
`Hands` and `Joins` in place of `HandOver`.  `Stages` says which calls have been
made at each stage, that a command line which does not capture never gets past
`execute`, and that whatever is being closed has no task left running, because
`run` had returned.  Each step of the pump is shown to keep `Flow` once, and the
steps of `store()` to keep `Stages`; completeness and the bound on the loss are
then arithmetic on `Conservation` as above.

`StoreStartsWhereAsked` follows the assignment through the setup (`Positions`):
what `FetchMetadata` and `OffsetsForTimes` leave in it, converted to raw numbers,
is where the flags ask to start, and it is what `Assign` is called with.
`StoreCapturedAsAsked` has one invariant for each thing the flags say: `Selected`,
that the command's filter and limits hold of all that was accepted; `Counted`,
that the count does, and that a producer the count has stopped reached it;
`Destination`, that the storage is the command's.  That the command then says what
the flags say is a lemma about each conversion; `FormatDocumented` compares what
`parse_format` makes of a name with the table in its documentation.  The one
for the headers is about inserting into a map: of several pairs with one name the
last is left (`InsertedHoldsLast`).

### The storages

`SingleFileProofs`, from `SingleFileAssumption` and `WorkAssumption` (a
`store_message` has one message, a batch any number), for any callers, work and
number of faults:

| theorem | what |
|---|---|
| `SingleFileInvariant`, `SingleFileTypeOK` | the inductive invariant and the types |
| `SingleFileExclusion` | no two callers are inside a call at once |
| `SingleFileAckedIsWritten`, `SingleFileFlushedIsDurable` | what Ok means, of a store and of a flush |
| `SingleFileCleanWithoutFaults` | without faults every record has a line of its own |
| `SingleFileDamageIsLocal` | a fault spoils at most one acknowledged message |
| `SingleFileCountIsClose` | the count is right up to the faults |
| `SingleFileImplementsStorage` | every step is a step of `StorageBackend` or a stutter |

`AckedIsWritten` needs to know what of a call is in the file at each point of it
(`Progress`), and that holds only because nobody else writes in between
(`MutualExclusion`).  `CleanWithoutFaults` rests on a second invariant, `Lines`:
without faults, a file that does not end in a newline belongs to a caller that is
about to write one, and by `MutualExclusion` no other caller writes before it.

With faults the argument becomes one of paying for them.  `Damage` counts the
spoiled messages among those acknowledged or sent by a call that may still be:
they are at most the faults, and fewer as long as the end of the file is a line
that a fault left open, for that fault has not taken its message yet.  The next
record lands on that line, is spoiled, and its newline closes the line; a record
with a newline on both sides is never touched again.  A crash keeps what was
synced, and forgets what was acknowledged together with the process.  `Counting`
does the same for the count: a batch is counted in one step, before its flush,
when each of its messages has either its newline in the file or a fault that
took it.

`DirectoryProofs`, from `DirectoryAssumption`, `WorkAssumption` and
`DistinctAssumption` (a capture is handed each record of Kafka once):

| theorem | what |
|---|---|
| `DirectoryInvariant`, `DirectoryTypeOK` | the inductive invariant and the types |
| `DirectoryAckedStaysWhole` | an acknowledged message keeps its whole file while the process runs |
| `DirectoryOnlyRewriteDestroys` | only a crash and a truncation of the same path destroy a copy |
| `DirectoryRerunRepairs` | a process without faults leaves all of its work whole, whatever was there before |

`AckedStaysWhole` is not inductive: that nobody truncates an acknowledged file
needs that no message still waiting has its path (`AckedIsPast`), and that needs
the waiting messages to have different paths (`Distinct`), which must survive the
batches moving up when a call returns.  `RerunRepairs` adds `Covered`: without a
fault, each message of the work still waits or is acknowledged.

`StorageStatsProofs`, from `StatsAssumption` (the messages are finitely many):

| theorem | what |
|---|---|
| `StatsInvariant`, `StatsTypeOK` | the inductive invariant and the types |
| `StatsLockOrder` | the mutex of partitions is only held with that of topics |
| `StatsEveryUpdateCounts` | a snapshot is one of every update past its first part, none counted twice |
| `StatsLagIsBounded` | a snapshot misses at most the updates under way |
| `StatsNeverGoesBack` | no later snapshot shows less |

The sets of topics and partitions lie between those of the updates that returned
and those begun (`Inserted`), the published numbers between those of the updates
that returned and the sets (`Published`); a publication is made of the sets
under their mutexes, and so never lowers a number.  `Tallied` sets the numbers
against the updates themselves: the count is the cardinality of the set of
updates past their first part, the size that of their bytes, and the earliest
and latest timestamp are the bounds of theirs.  A count adds one update that was
not in the set, and publication moves an update from under way to returned
without a change of the set.

### The formats

`FormatProofs`, from `FormatAssumption`, `ByteStringAssumption` (what a prefix or a
JSON string decodes to is a byte string, and a different one: it is shorter; a
nesting depth is a natural),
`BatchesAssumption` and `ErrorAssumption` (an error is not a message), for all
batches of records:

| theorem | what |
|---|---|
| `FormatKeptIsExact` | which batches come back as they went, and which do not |
| `FormatUnreadableIsKnown` | which batches cannot be read, and which can |
| `FormatHeadersSurvive` | which headers are left |

The heart of it is `FieldRoundTrip`: a key or value fits its record and comes back
from an encoding as it went exactly if `Keeps` says so, and does not fit or comes
back as an error exactly if `Unreadable` says so.  The lemmas about a batch carry this to
sequences of records; what is read of the headers is, as in `CommandLine`, what
inserting them one by one leaves of each name.

### Only model-checked

* Liveness: `Terminates`, `AcceptedIsAttempted`, `SignalEndsProcess`, `ProcessEnds`,
  `AllCallsReturn`, `AllUpdatesReturn`, and the fairness of `Capture` in `ImplementsCapture`.
  Fairness and `ENABLED` are out of the prover's reach; the safety part of that
  refinement is `PumpImplementsCapture`.
* The assumptions: TLC evaluates them for the topics, command lines, work and
  batches of the runs; that all real ones satisfy them rests on clap, Kafka and
  the types of the code.

Induction over data, which the library states with an operator as parameter, is
not available either.  Where a proof would need it, for the last pair of a name,
it takes the greatest element of a set of positions instead (`GreatestElement` of
`SequenceLemmas`, by the well-foundedness of the naturals), and the statistics
speak of cardinalities instead of sums.

## Not modelled

* librdkafka and the broker behind `poll`: modelled by what may come out of them,
  and by whether the calls without a timeout return.
* `Config`, the error types and `utils`: a record nothing reads, texts, empty
  files.  The models keep that a call failed and where, not with what message.
* `replay`, `stats` and `completion` hold no behaviour yet beyond printing a line,
  and that is all `NotImplemented` does.  What clap thinks of their flags is a
  nondeterministic choice.
* `validate_schema`, which keeps no state and which only its tests call, and the
  helpers of `KafkaMessage` and the storage configurations that nobody calls.
* Panics of tasks: the join errors of `run` cannot occur without one.
* `append_newline = false` and `create_if_missing = false`, which nothing sets.
* Several processes on one file: nothing in the repository says that they may
  share it.  `initialize` looks for the file and then truncates it, which would
  not be safe there.
* The cancellation of a store in the middle of its writes has no action of its
  own in the storages: what it leaves in the files is among what `Crash` leaves.

## Plan

Done: every component that keeps state or decides anything, the two refinements,
and proofs of every safety property that the runs check.

Left, should the code grow that way:

1. `replay`, once it reads back what was captured: its composition with
   `MessageFormat` and the storages, with the property that what is replayed is
   what was captured, up to `KeptIsExact`.
2. A durable `DirectoryStorage::flush`, and with it the refinement of
   `StorageBackend` that the single file has.
3. The composition of the pump with `SingleFileStorage`, whose calls are so far any
   that a capture may make: with it, that the lines of the file are the accepted
   messages in order, up to the damage `DamageIsLocal` bounds.
