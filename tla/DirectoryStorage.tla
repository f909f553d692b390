-------------------------- MODULE DirectoryStorage --------------------------
(***************************************************************************)
(* storage/files/directory.rs: one file per message, named by topic,       *)
(* partition and offset.  There is no mutex; flush and close do nothing.   *)
(*                                                                         *)
(* A file is absent, "empty" (created or truncated, not yet written),      *)
(* "torn" or "whole".  Writing goes through tokio's File, so the error of  *)
(* a write is reported by the flush that follows.  After a crash the same  *)
(* work is run again; MaxFaults bounds failed operations and crashes.      *)
(***************************************************************************)
EXTENDS Naturals, Sequences, Functions, TLC

CONSTANTS
    Callers,    \* tasks that share the storage
    Work,       \* caller -> sequence of batches, each a sequence of messages
    MaxFaults

Batches == UNION {{Work[c][i] : i \in DOMAIN Work[c]} : c \in Callers}
Message == UNION {{b[i] : i \in DOMAIN b} : b \in Batches}

ASSUME DirectoryAssumption == MaxFaults \in Nat /\ <<>> \notin Batches

ASSUME WorkAssumption == Work \in [Callers -> Seq(Seq(Message))]

VARIABLES
    files,      \* path -> [state, msg], for the files that exist
    pc,         \* caller -> where its store_message is
    calls,      \* caller -> batches it still has to store, the first in part
    lastWrite,  \* caller -> "ok" or "failed": the background write
    acked,      \* history: messages whose store returned Ok, this process
    clean,      \* history: has every operation of this process succeeded?
    faults      \* history: how many faults there were

vars == <<files, pc, calls, lastWrite, acked, clean, faults>>

(* Mutant: the topic is left out of the path. *)
PathWithoutTopic(m) == <<m.partition, m.offset>>

(* get_message_path *)
Path(m) == <<m.topic, m.partition, m.offset>>

SameRecord(m, n) ==
    m.topic = n.topic /\ m.partition = n.partition /\ m.offset = n.offset

(* A capture is handed each record of Kafka once. *)
ASSUME DistinctAssumption ==
    \A c, d \in Callers :
        \A i \in DOMAIN Work[c], k \in DOMAIN Work[d] :
            \A j \in DOMAIN Work[c][i], l \in DOMAIN Work[d][k] :
                SameRecord(Work[c][i][j], Work[d][k][l])
                    => c = d /\ i = k /\ j = l

Exists(p) == p \in DOMAIN files

IsWhole(m) == Exists(Path(m)) /\ files[Path(m)] = [state |-> "whole", msg |-> m]

TypeOK ==
    /\ DOMAIN files \subseteq {Path(m) : m \in Message}
    /\ \A p \in DOMAIN files :
          files[p] \in [state : {"empty", "torn", "whole"}, msg : Message]
    /\ pc \in [Callers -> {"idle", "create", "write", "flush"}]
    /\ lastWrite \in [Callers -> {"ok", "failed"}]
    /\ acked \subseteq Message
    /\ clean \in BOOLEAN
    /\ faults \in 0..MaxFaults

Init ==
    /\ files = <<>>
    /\ pc = [c \in Callers |-> "idle"]
    /\ calls = Work
    /\ lastWrite = [c \in Callers |-> "ok"]
    /\ acked = {} /\ clean = TRUE /\ faults = 0

-----------------------------------------------------------------------------

Current(c) == calls[c][1][1]

Goto(c, s) == pc' = [pc EXCEPT ![c] = s]

(* store_message returns.  The provided store_messages goes on with the     *)
(* next message of the batch; an error gives the rest of the batch up.      *)
Return(c, ok) ==
    /\ Goto(c, "idle")
    /\ calls' = [calls EXCEPT ![c] =
                    IF ok /\ Len(@[1]) > 1 THEN <<Tail(@[1])>> \o Tail(@)
                                           ELSE Tail(@)]
    /\ lastWrite' = [lastWrite EXCEPT ![c] = "ok"]

Fault ==
    /\ faults < MaxFaults
    /\ faults' = faults + 1
    /\ clean' = FALSE

NoFault == UNCHANGED <<faults, clean>>

SetFile(m, s) ==
    files' = [p \in DOMAIN files \cup {Path(m)} |->
                 IF p = Path(m) THEN [state |-> s, msg |-> m] ELSE files[p]]

(* create_dir_all and the serialization: on failure no file is touched. *)
Prepare(c) ==
    /\ pc[c] = "idle"
    /\ calls[c] # <<>>
    /\ \/ NoFault /\ Goto(c, "create") /\ UNCHANGED <<calls, lastWrite>>
       \/ Fault /\ Return(c, FALSE)
    /\ UNCHANGED <<files, acked>>

(* Mutant: a file that exists is taken for stored. *)
CreateNew(c) ==
    /\ pc[c] = "create" /\ NoFault
    /\ IF Exists(Path(Current(c)))
         THEN Return(c, TRUE) /\ UNCHANGED files
         ELSE SetFile(Current(c), "empty") /\ Goto(c, "write")
              /\ UNCHANGED <<calls, lastWrite>>
    /\ UNCHANGED acked

(* File::create truncates a file that is there already. *)
Create(c) ==
    /\ pc[c] = "create"
    /\ \/ NoFault /\ SetFile(Current(c), "empty") /\ Goto(c, "write")
          /\ UNCHANGED <<calls, lastWrite>>
       \/ Fault /\ Return(c, FALSE) /\ UNCHANGED files
    /\ UNCHANGED acked

(* Mutant: the message goes to a temporary file that is never renamed. *)
WriteAllToTemp(c) ==
    /\ pc[c] = "write" /\ NoFault /\ Goto(c, "flush")
    /\ files' = (<<"tmp", Path(Current(c))>> :> [state |-> "whole", msg |-> Current(c)])
                @@ files
    /\ UNCHANGED <<calls, lastWrite, acked>>

WriteAll(c) ==
    /\ pc[c] = "write"
    /\ \/ /\ NoFault
          /\ SetFile(Current(c), "whole")
          /\ UNCHANGED lastWrite
       \/ /\ Fault
          /\ SetFile(Current(c), "torn") \/ UNCHANGED files
          /\ lastWrite' = [lastWrite EXCEPT ![c] = "failed"]
    /\ Goto(c, "flush")
    /\ UNCHANGED <<calls, acked>>

(* Mutants: a failed write cleans up all of its topic; a failed write is    *)
(* waited for.                                                              *)
FlushHandleCleansUp(c) ==
    /\ pc[c] = "flush" /\ Return(c, lastWrite[c] = "ok") /\ NoFault
    /\ IF lastWrite[c] = "ok"
         THEN acked' = acked \cup {Current(c)} /\ UNCHANGED files
         ELSE /\ files' = Restrict(files, {p \in DOMAIN files : p[1] # Current(c).topic})
              /\ UNCHANGED acked

FlushHandleWaits(c) ==
    /\ pc[c] = "flush" /\ lastWrite[c] = "ok" /\ Return(c, TRUE) /\ NoFault
    /\ acked' = acked \cup {Current(c)}
    /\ UNCHANGED files

FlushHandle(c) ==
    /\ pc[c] = "flush"
    /\ acked' = IF lastWrite[c] = "ok" THEN acked \cup {Current(c)} ELSE acked
    /\ Return(c, lastWrite[c] = "ok")
    /\ NoFault
    /\ UNCHANGED files

(* The process is killed or the machine goes down: of the files any may be  *)
(* lost or cut short, since none was synced.                                *)
Crash ==
    /\ faults < MaxFaults
    /\ faults' = faults + 1
    /\ \E kept \in SUBSET DOMAIN files : \E torn \in SUBSET kept :
          files' = [p \in kept |-> IF p \in torn
                                    THEN [files[p] EXCEPT !.state = "torn"]
                                    ELSE files[p]]
    /\ pc' = [c \in Callers |-> "idle"]
    /\ calls' = Work
    /\ lastWrite' = [c \in Callers |-> "ok"]
    /\ acked' = {} /\ clean' = TRUE

Step(c) == Prepare(c) \/ Create(c) \/ WriteAll(c) \/ FlushHandle(c)

Next == Crash \/ \E c \in Callers : Step(c)

Fairness == \A c \in Callers : WF_vars(Step(c))

Spec == Init /\ [][Next]_vars /\ Fairness

-----------------------------------------------------------------------------
(* Properties. *)

(* With one file per message, a store that returned Ok stays whole while    *)
(* the process runs, whatever happens to the stores of other messages.      *)
AckedStaysWhole == \A m \in acked : IsWhole(m)

(* Repeating a capture repairs what an earlier, broken one left behind:     *)
(* when all is stored again without a fault, every message is whole.        *)
RerunRepairs ==
    clean /\ (\A c \in Callers : calls[c] = <<>>) => \A m \in Message : IsWhole(m)

(* A good copy is only ever destroyed by a crash, or by storing the same    *)
(* message once more, whose File::create truncates it.                      *)
OnlyRewriteDestroys ==
    [][\A m \in Message :
         IsWhole(m) /\ ~IsWhole(m)' =>
            \/ \E c \in Callers : pc[c] = "create" /\ Path(Current(c)) = Path(m)
            \/ faults' = faults + 1 /\ calls' = Work]_vars

(* Every call returns, whatever fails in it: no batch is stuck. *)
AllCallsReturn == \A c \in Callers : <>(calls[c] = <<>>)

(* Claimed by the disk exhaustion test, "If files exist, they should be     *)
(* complete and valid": no call under way means no partial file.            *)
FilesAreComplete ==
    (\A c \in Callers : pc[c] = "idle") =>
        \A p \in DOMAIN files : files[p].state = "whole"
=============================================================================
