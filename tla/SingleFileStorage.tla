-------------------------- MODULE SingleFileStorage --------------------------
(***************************************************************************)
(* storage/files/single_file.rs: callers append records to one file, each  *)
(* call under file_mutex with a handle of its own.                         *)
(*                                                                         *)
(* The file is a sequence of pieces: the bytes of a record, whole or torn, *)
(* and newlines.  tokio's File buffers: a write returns as soon as its     *)
(* bytes are handed to a background thread, and an error of that thread    *)
(* is reported by the next operation on the same handle.  A fault is a     *)
(* write that failed or a crash; their number is bounded by MaxFaults.     *)
(* After a crash the same work is run again, as a user repeats a capture.  *)
(***************************************************************************)
EXTENDS Integers, Sequences, FiniteSets

CONSTANTS
    Callers,    \* tasks that share the storage
    Work,       \* caller -> sequence of calls [op, msgs]
    MaxFaults,
    Nobody      \* the free mutex

ASSUME SingleFileAssumption == MaxFaults \in Nat /\ Nobody \notin Callers

VARIABLES
    file,       \* the pieces in the file
    synced,     \* how many of them a sync_all has made durable
    holder,     \* who holds file_mutex
    pc,         \* caller -> where its call is
    calls,      \* caller -> the calls it still has to make
    at,         \* caller -> which message of the call is being written
    lastWrite,  \* caller -> "ok" or "failed": the background write
    counted,    \* stats.message_count of this process
    acked,      \* history: messages whose store returned Ok, this process
    flushed,    \* history: messages acked when a flush last succeeded
    faults      \* history: how many faults there were

vars == <<file, synced, holder, pc, calls, at, lastWrite, counted, acked,
          flushed, faults>>

Whole(m) == [kind |-> "whole", msg |-> m]
Torn(m) == [kind |-> "torn", msg |-> m]
Newline == [kind |-> "newline"]

Pieces(c) == calls[c][1].msgs
Op(c) == calls[c][1].op
InCall == {"open", "payload", "newline", "flush", "sync"}

StoredMessage ==
    UNION {UNION {{Work[c][i].msgs[j] : j \in DOMAIN Work[c][i].msgs}
                  : i \in DOMAIN Work[c]} : c \in Callers}

Call ==
    {call \in [op : {"message", "batch", "flush"}, msgs : Seq(StoredMessage)] :
        call.op = "message" => Len(call.msgs) = 1}

ASSUME WorkAssumption == Work \in [Callers -> Seq(Call)]

TypeOK ==
    /\ file \in Seq([kind : {"whole", "torn"}, msg : StoredMessage] \cup {Newline})
    /\ synced \in 0..Len(file)
    /\ holder \in Callers \cup {Nobody}
    /\ pc \in [Callers -> {"idle"} \cup InCall]
    /\ lastWrite \in [Callers -> {"ok", "failed"}]
    /\ counted \in Nat
    /\ faults \in 0..MaxFaults

Init ==
    /\ file = <<>> /\ synced = 0
    /\ holder = Nobody
    /\ pc = [c \in Callers |-> "idle"]
    /\ calls = Work
    /\ at = [c \in Callers |-> 1]
    /\ lastWrite = [c \in Callers |-> "ok"]
    /\ counted = 0 /\ acked = {} /\ flushed = {} /\ faults = 0

-----------------------------------------------------------------------------
(* Parts of a call. *)

Goto(c, s) == pc' = [pc EXCEPT ![c] = s]

(* The call returns: the guard and the handle are dropped. *)
Return(c) ==
    /\ Goto(c, "idle")
    /\ holder' = Nobody
    /\ calls' = [calls EXCEPT ![c] = Tail(@)]
    /\ lastWrite' = [lastWrite EXCEPT ![c] = "ok"]

Stay == UNCHANGED <<holder, calls>>

Messages(c) == {Pieces(c)[i] : i \in DOMAIN Pieces(c)}

(* A write is handed over and done in the background; it succeeds, or fails *)
(* having written nothing or only the beginning.                            *)
Write(c, piece, tornPieces) ==
    \/ /\ file' = Append(file, piece)
       /\ lastWrite' = [lastWrite EXCEPT ![c] = "ok"]
       /\ UNCHANGED faults
    \/ /\ faults < MaxFaults
       /\ faults' = faults + 1
       /\ file' \in {file} \cup {Append(file, t) : t \in tornPieces}
       /\ lastWrite' = [lastWrite EXCEPT ![c] = "failed"]

-----------------------------------------------------------------------------
(* store_message, store_messages, flush and close. *)

(* An empty batch is stored at once. *)
StoreNothing(c) ==
    /\ pc[c] = "idle"
    /\ calls[c] # <<>> /\ Op(c) # "flush" /\ Pieces(c) = <<>>
    /\ calls' = [calls EXCEPT ![c] = Tail(@)]
    /\ UNCHANGED <<file, synced, holder, pc, at, lastWrite, counted, acked,
                   flushed, faults>>

(* The messages are serialized first, which may fail the whole call. *)
SerializeFails(c) ==
    /\ pc[c] = "idle"
    /\ calls[c] # <<>> /\ Op(c) # "flush" /\ Pieces(c) # <<>>
    /\ faults < MaxFaults
    /\ faults' = faults + 1
    /\ calls' = [calls EXCEPT ![c] = Tail(@)]
    /\ UNCHANGED <<file, synced, holder, pc, at, lastWrite, counted, acked,
                   flushed>>

(* Mutant: no mutex. *)
LockNothing(c) ==
    /\ pc[c] = "idle" /\ Goto(c, "open")
    /\ calls[c] # <<>> /\ (Op(c) = "flush" \/ Pieces(c) # <<>>)
    /\ UNCHANGED <<file, synced, holder, calls, at, lastWrite, counted, acked,
                   flushed, faults>>

Lock(c) ==
    /\ pc[c] = "idle"
    /\ calls[c] # <<>> /\ (Op(c) = "flush" \/ Pieces(c) # <<>>)
    /\ holder = Nobody
    /\ holder' = c
    /\ Goto(c, "open")
    /\ UNCHANGED <<file, synced, calls, at, lastWrite, counted, acked,
                   flushed, faults>>

(* Mutant: truncate in place of append. *)
OpenTruncates(c) ==
    /\ pc[c] = "open"
    /\ Goto(c, IF Op(c) = "flush" THEN "sync" ELSE "payload")
    /\ at' = [at EXCEPT ![c] = 1] /\ file' = <<>> /\ synced' = 0
    /\ Stay /\ UNCHANGED <<lastWrite, faults, counted, acked, flushed>>

Open(c) ==
    /\ pc[c] = "open"
    /\ \/ /\ Goto(c, IF Op(c) = "flush" THEN "sync" ELSE "payload")
          /\ at' = [at EXCEPT ![c] = 1]
          /\ Stay /\ UNCHANGED <<lastWrite, faults>>
       \/ /\ faults < MaxFaults
          /\ faults' = faults + 1
          /\ Return(c) /\ UNCHANGED at
    /\ UNCHANGED <<file, synced, counted, acked, flushed>>

(* Mutants: the error path takes the message out of the statistics again,   *)
(* which had not counted it yet; it leaves the mutex locked.                *)
ReportFailureUncounts(c) ==
    /\ pc[c] \in {"payload", "newline", "flush"} /\ lastWrite[c] = "failed"
    /\ counted' = counted - 1 /\ Return(c)
    /\ UNCHANGED <<file, synced, at, acked, flushed, faults>>

ReportFailureLocked(c) ==
    /\ pc[c] \in {"payload", "newline", "flush"} /\ lastWrite[c] = "failed"
    /\ Goto(c, "idle") /\ calls' = [calls EXCEPT ![c] = Tail(@)]
    /\ lastWrite' = [lastWrite EXCEPT ![c] = "ok"]
    /\ UNCHANGED <<file, synced, holder, at, counted, acked, flushed, faults>>

(* An earlier write of this handle failed: the operation that follows it    *)
(* reports the error, and the call ends without writing more.               *)
ReportFailure(c) ==
    /\ pc[c] \in {"payload", "newline", "flush"}
    /\ lastWrite[c] = "failed"
    /\ Return(c)
    /\ UNCHANGED <<file, synced, at, counted, acked, flushed, faults>>

WritePayload(c) ==
    /\ pc[c] = "payload"
    /\ lastWrite[c] = "ok"
    /\ Write(c, Whole(Pieces(c)[at[c]]), {Torn(Pieces(c)[at[c]])})
    /\ Goto(c, "newline")
    /\ Stay
    /\ UNCHANGED <<synced, at, counted, acked, flushed>>

(* Mutants: the newline is left out; every message is counted here and      *)
(* single ones once more after the flush; the error the write of the        *)
(* newline returns, which is that of the payload, is ignored.               *)
WriteNoNewline(c) ==
    /\ pc[c] = "newline" /\ lastWrite[c] = "ok"
    /\ IF at[c] < Len(Pieces(c))
         THEN Goto(c, "payload") /\ at' = [at EXCEPT ![c] = @ + 1]
         ELSE Goto(c, "flush") /\ UNCHANGED at
    /\ Stay /\ UNCHANGED <<file, synced, lastWrite, counted, acked, flushed, faults>>

WriteNewlineCounts(c) ==
    /\ pc[c] = "newline" /\ lastWrite[c] = "ok" /\ Write(c, Newline, {})
    /\ counted' = counted + 1
    /\ IF at[c] < Len(Pieces(c))
         THEN Goto(c, "payload") /\ at' = [at EXCEPT ![c] = @ + 1]
         ELSE Goto(c, "flush") /\ UNCHANGED at
    /\ Stay /\ UNCHANGED <<synced, acked, flushed>>

WriteNewlineRegardless(c) ==
    /\ pc[c] = "newline" /\ Write(c, Newline, {})
    /\ counted' = IF Op(c) = "batch" THEN counted + 1 ELSE counted
    /\ IF at[c] < Len(Pieces(c))
         THEN Goto(c, "payload") /\ at' = [at EXCEPT ![c] = @ + 1]
         ELSE Goto(c, "flush") /\ UNCHANGED at
    /\ Stay /\ UNCHANGED <<synced, acked, flushed>>

(* store_messages counts each message here, before its newline is known to  *)
(* be written, and goes on with the next one.                               *)
WriteNewline(c) ==
    /\ pc[c] = "newline"
    /\ lastWrite[c] = "ok"
    /\ Write(c, Newline, {})
    /\ counted' = IF Op(c) = "batch" THEN counted + 1 ELSE counted
    /\ IF at[c] < Len(Pieces(c))
         THEN Goto(c, "payload") /\ at' = [at EXCEPT ![c] = @ + 1]
         ELSE Goto(c, "flush") /\ UNCHANGED at
    /\ Stay
    /\ UNCHANGED <<synced, acked, flushed>>

(* file.flush() waits for the last write; store_message counts after it. *)
FlushHandle(c) ==
    /\ pc[c] = "flush"
    /\ lastWrite[c] = "ok"
    /\ counted' = IF Op(c) = "message" THEN counted + 1 ELSE counted
    /\ acked' = acked \cup Messages(c)
    /\ Return(c)
    /\ UNCHANGED <<file, synced, at, flushed, faults>>

(* Mutant: nothing is synced. *)
SyncNothing(c) ==
    /\ pc[c] = "sync" /\ flushed' = acked /\ Return(c)
    /\ UNCHANGED <<file, synced, at, counted, acked, faults>>

(* flush(), and close() which is flush(): fsync through a fresh handle. *)
SyncAll(c) ==
    /\ pc[c] = "sync"
    /\ \/ /\ synced' = Len(file)
          /\ flushed' = acked
          /\ UNCHANGED faults
       \/ /\ faults < MaxFaults
          /\ faults' = faults + 1
          /\ UNCHANGED <<synced, flushed>>
    /\ Return(c)
    /\ UNCHANGED <<file, at, counted, acked>>

(* The process is killed, or the machine goes down and the file loses what  *)
(* was not synced.  A write under way may have got any part of its bytes    *)
(* out.  The next process finds the file and initialize leaves it alone.    *)
Crash ==
    /\ faults < MaxFaults
    /\ faults' = faults + 1
    /\ \E k \in synced..Len(file) :
          file' \in {SubSeq(file, 1, k)} \cup
                    {Append(SubSeq(file, 1, i - 1), Torn(file[i].msg)) :
                        i \in {j \in (synced + 1)..k : file[j].kind = "whole"}} \cup
                    {Append(file, Torn(Pieces(c)[at[c]])) :
                        c \in {d \in Callers : pc[d] = "payload"}}
    /\ holder' = Nobody
    /\ pc' = [c \in Callers |-> "idle"]
    /\ calls' = Work
    /\ at' = [c \in Callers |-> 1]
    /\ lastWrite' = [c \in Callers |-> "ok"]
    /\ counted' = 0 /\ acked' = {}
    /\ UNCHANGED <<synced, flushed>>

Step(c) ==
    \/ StoreNothing(c) \/ SerializeFails(c) \/ Lock(c) \/ Open(c)
    \/ ReportFailure(c) \/ WritePayload(c) \/ WriteNewline(c) \/ FlushHandle(c)
    \/ SyncAll(c)

Next == Crash \/ \E c \in Callers : Step(c)

(* Every caller goes on when it can: the runtime polls it, the mutex wakes  *)
(* it, the background writes end.                                           *)
Fairness == \A c \in Callers : WF_vars(Step(c))

Spec == Init /\ [][Next]_vars /\ Fairness

-----------------------------------------------------------------------------
(* Properties. *)

(* Piece i is a record that has a line of its own; the last one may still   *)
(* wait for its newline.                                                    *)
HasOwnLine(i) ==
    /\ file[i].kind = "whole"
    /\ i = 1 \/ file[i - 1] = Newline
    /\ i = Len(file) \/ file[i + 1] = Newline

(* Concurrent calls never mix their bytes: as long as no write failed and   *)
(* nothing crashed, every record in the file has its own line.              *)
CleanWithoutFaults ==
    faults = 0 =>
        \A i \in DOMAIN file : file[i] # Newline => HasOwnLine(i)

(* A message whose store returned Ok is in the file in full.                *)
AckedIsWritten ==
    \A m \in acked : \E i \in DOMAIN file : file[i] = Whole(m)

HasLine(m) == \E i \in DOMAIN file : file[i] = Whole(m) /\ HasOwnLine(i)

(* A fault spoils at most one message that was stored successfully: the one *)
(* that lands on the line the fault left open.                              *)
DamageIsLocal == Cardinality({m \in acked : ~HasLine(m)}) <= faults

(* The statistics are right up to the faults: all that was acknowledged is  *)
(* counted, and a batch counts too much only where a write failed under it. *)
CountIsClose ==
    counted \in Cardinality(acked)
               ..(Cardinality({i \in DOMAIN file : file[i] = Newline}) + faults)

(* What a flush or close has returned Ok for survives every later crash.    *)
FlushedIsDurable ==
    \A m \in flushed : \E i \in 1..synced : file[i] = Whole(m)

WholeIn(pieces) == {m \in StoredMessage : \E i \in DOMAIN pieces : pieces[i] = Whole(m)}

(* The file is a StorageBackend, with each record that is in it whole a     *)
(* stored message and those before the last sync durable: no call disturbs  *)
(* what is there, an acknowledged message is in the file, and a flush       *)
(* covers every acknowledged message, of whichever caller.                  *)
Backend == INSTANCE StorageBackend WITH
    Message <- StoredMessage,
    stored <- WholeIn(file),
    durable <- WholeIn(SubSeq(file, 1, synced))

ImplementsStorage == Backend!Spec

(* Every call is made and returns, whatever fails in it or in the calls of  *)
(* others: no path through a call keeps the mutex.                          *)
AllCallsReturn == \A c \in Callers : <>(calls[c] = <<>>)
=============================================================================
