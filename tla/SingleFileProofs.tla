--------------------------- MODULE SingleFileProofs ---------------------------
(***************************************************************************)
(* What holds of SingleFileStorage for every number of callers, all work   *)
(* and any number of faults: only the holder of file_mutex is inside a     *)
(* call, what was acknowledged is in the file, what was flushed stays      *)
(* there, a fault spoils one line and one count at most, and the file      *)
(* implements StorageBackend.                                              *)
(*                                                                         *)
(* Inv is inductive.  Progress is the part no run checks on its own: which *)
(* messages of the call under way are in the file at each point of it.     *)
(* Lines, Damage and Counting are inductive on top of it.                  *)
(***************************************************************************)
EXTENDS SingleFileStorage, SequenceTheorems, FiniteSetTheorems, TLAPS

Piece == [kind : {"whole", "torn"}, msg : StoredMessage] \cup {Newline}
TornPiece == [kind : {"torn"}, msg : StoredMessage]
Writing == {"payload", "newline", "flush"}

Types ==
    /\ TypeOK
    /\ calls \in [Callers -> Seq(Call)]
    /\ at \in [Callers -> Nat]
    /\ acked \subseteq StoredMessage
    /\ flushed \subseteq StoredMessage

MutualExclusion == \A c \in Callers : pc[c] # "idle" => holder = c

CallProgress(c) ==
    /\ pc[c] # "idle" => calls[c] # <<>>
    /\ pc[c] = "open" => Op(c) = "flush" \/ Pieces(c) # <<>>
    /\ pc[c] \in Writing =>
          /\ at[c] \in DOMAIN Pieces(c)
          /\ \A i \in 1..(at[c] - 1) : Pieces(c)[i] \in WholeIn(file)
    /\ pc[c] = "newline" /\ lastWrite[c] = "ok" =>
          Pieces(c)[at[c]] \in WholeIn(file)
    /\ pc[c] = "flush" =>
          /\ at[c] = Len(Pieces(c))
          /\ Pieces(c)[at[c]] \in WholeIn(file)

Progress == \A c \in Callers : CallProgress(c)

Inv ==
    /\ Types /\ MutualExclusion /\ Progress
    /\ AckedIsWritten /\ FlushedIsDurable

-----------------------------------------------------------------------------
(* The pieces of a file. *)

LEMMA PieceKinds ==
    /\ \A m \in StoredMessage : Whole(m) \in Piece /\ Torn(m) \in TornPiece
    /\ Newline \in Piece
    /\ TornPiece \subseteq Piece
    /\ \A m : Whole(m) # Newline
    /\ \A m, n : Whole(m) = Whole(n) => m = n
    /\ \A m, p : p \in TornPiece => p # Whole(m)
<1>1. /\ \A m \in StoredMessage : Whole(m) \in Piece /\ Torn(m) \in TornPiece
      /\ Newline \in Piece
  BY DEF Piece, TornPiece, Whole, Torn
<1>2. TornPiece \subseteq Piece
  BY DEF Piece, TornPiece
<1>3. \A m : Whole(m) # Newline
  <2> TAKE m
  <2>1. Whole(m).kind = "whole" /\ Newline.kind = "newline"
    BY DEF Whole, Newline
  <2> QED BY <2>1
<1>4. \A m, n : Whole(m) = Whole(n) => m = n
  <2> TAKE m, n
  <2>1. Whole(m).msg = m /\ Whole(n).msg = n
    BY DEF Whole
  <2> QED BY <2>1
<1>5. \A m, p : p \in TornPiece => p # Whole(m)
  <2> TAKE m, p
  <2>1. Whole(m).kind = "whole" /\ (p \in TornPiece => p.kind = "torn")
    BY DEF Whole, TornPiece
  <2> QED BY <2>1
<1> QED BY <1>1, <1>2, <1>3, <1>4, <1>5

LEMMA CallPieces ==
    ASSUME Types, NEW c \in Callers, calls[c] # <<>>
    PROVE  /\ Pieces(c) \in Seq(StoredMessage)
           /\ Op(c) \in {"message", "batch", "flush"}
           /\ Tail(calls[c]) \in Seq(Call)
<1>1. calls[c] \in Seq(Call)
  BY DEF Types
<1>2. calls[c][1] \in Call /\ Tail(calls[c]) \in Seq(Call)
  BY <1>1
<1> QED BY <1>2 DEF Call, Pieces, Op

(* A file that only grew: everything whole in it still is. *)
LEMMA PrefixKeeps ==
    ASSUME NEW s \in Seq(Piece), NEW t \in Seq(Piece), Len(s) <= Len(t),
           \A i \in 1..Len(s) : t[i] = s[i]
    PROVE  WholeIn(s) \subseteq WholeIn(t)
<1>1. DOMAIN s = 1..Len(s) /\ DOMAIN t = 1..Len(t) /\ Len(s) \in Nat /\ Len(t) \in Nat
  OBVIOUS
<1> QED BY <1>1 DEF WholeIn

LEMMA AppendWholeIn ==
    ASSUME NEW s \in Seq(Piece), NEW p \in Piece
    PROVE  /\ WholeIn(s) \subseteq WholeIn(Append(s, p))
           /\ \A m \in StoredMessage : p = Whole(m) =>
                 WholeIn(Append(s, p)) = WholeIn(s) \cup {m}
           /\ (\A m \in StoredMessage : p # Whole(m)) =>
                 WholeIn(Append(s, p)) = WholeIn(s)
<1> DEFINE t == Append(s, p)
<1>1. /\ t \in Seq(Piece) /\ Len(t) = Len(s) + 1
      /\ \A i \in 1..Len(s) : t[i] = s[i]
      /\ t[Len(s) + 1] = p
      /\ DOMAIN s = 1..Len(s) /\ DOMAIN t = 1..Len(t) /\ Len(s) \in Nat
  BY AppendProperties
<1> HIDE DEF t
<1>2. WholeIn(s) \subseteq WholeIn(t)
  BY <1>1, PrefixKeeps
<1>3. ASSUME NEW m \in WholeIn(t) PROVE m \in WholeIn(s) \/ p = Whole(m)
  <2>1. PICK i \in 1..Len(t) : t[i] = Whole(m)
    BY <1>1, <1>3 DEF WholeIn
  <2>2. CASE i \in 1..Len(s)
    BY <2>1, <2>2, <1>1, <1>3 DEF WholeIn
  <2>3. CASE i = Len(s) + 1
    BY <2>1, <2>3, <1>1
  <2> QED BY <2>1, <2>2, <2>3, <1>1
<1>4. ASSUME NEW m \in StoredMessage, p = Whole(m) PROVE m \in WholeIn(t)
  <2>1. Len(s) + 1 \in DOMAIN t
    BY <1>1
  <2> QED BY <2>1, <1>1, <1>4 DEF WholeIn
<1>5. ASSUME NEW m \in StoredMessage, p = Whole(m)
      PROVE  WholeIn(t) = WholeIn(s) \cup {m}
  BY <1>2, <1>3, <1>4, <1>5, PieceKinds
<1>6. ASSUME \A m \in StoredMessage : p # Whole(m)
      PROVE  WholeIn(t) = WholeIn(s)
  <2>1. WholeIn(t) \subseteq StoredMessage
    BY DEF WholeIn
  <2> QED BY <2>1, <1>2, <1>3, <1>6
<1> QED BY <1>2, <1>5, <1>6 DEF t

(* The durable messages are those before synced. *)
LEMMA WholeInPrefix ==
    ASSUME NEW s \in Seq(Piece), NEW k \in 0..Len(s)
    PROVE  /\ SubSeq(s, 1, k) \in Seq(Piece)
           /\ Len(SubSeq(s, 1, k)) = k
           /\ \A i \in 1..k : SubSeq(s, 1, k)[i] = s[i]
           /\ WholeIn(SubSeq(s, 1, k)) =
                 {m \in StoredMessage : \E i \in 1..k : s[i] = Whole(m)}
<1>1. Len(s) \in Nat /\ k \in Int /\ \A i \in 1..k : s[i] \in Piece
  OBVIOUS
<1> DEFINE t == SubSeq(s, 1, k)
<1>2. /\ t \in Seq(Piece)
      /\ Len(t) = IF 1 <= k THEN k - 1 + 1 ELSE 0
      /\ \A i \in 1..(k - 1 + 1) : t[i] = s[1 + i - 1]
  BY <1>1, SubSeqProperties
<1> HIDE DEF t
<1>3. Len(t) = k /\ \A i \in 1..k : t[i] = s[i]
  BY <1>1, <1>2
<1>4. DOMAIN t = 1..k
  BY <1>2, <1>3
<1>5. WholeIn(t) = {m \in StoredMessage : \E i \in 1..k : s[i] = Whole(m)}
  BY <1>3, <1>4 DEF WholeIn
<1> QED BY <1>2, <1>3, <1>5 DEF t

-----------------------------------------------------------------------------
(* What the parts of a call do to the file and to the callers. *)

LEMMA WriteGrows ==
    ASSUME Types, NEW c \in Callers, NEW p \in Piece,
           NEW T \in SUBSET TornPiece, Write(c, p, T)
    PROVE  /\ file' \in Seq(Piece)
           /\ Len(file) <= Len(file')
           /\ \A i \in 1..Len(file) : file'[i] = file[i]
           /\ WholeIn(file) \subseteq WholeIn(file')
           /\ faults' \in 0..MaxFaults
           /\ lastWrite' \in [Callers -> {"ok", "failed"}]
           /\ lastWrite'[c] = "ok" => file' = Append(file, p)
           /\ file' = Append(file, p) \/ WholeIn(file') = WholeIn(file)
<1>1. /\ file \in Seq(Piece) /\ Len(file) \in Nat /\ faults \in 0..MaxFaults
      /\ lastWrite \in [Callers -> {"ok", "failed"}] /\ MaxFaults \in Nat
  BY SingleFileAssumption DEF Types, TypeOK, Piece
<1>2. CASE /\ file' = Append(file, p)
           /\ lastWrite' = [lastWrite EXCEPT ![c] = "ok"]
           /\ UNCHANGED faults
  <2>1. /\ file' \in Seq(Piece) /\ Len(file') = Len(file) + 1
        /\ \A i \in 1..Len(file) : file'[i] = file[i]
    BY <1>1, <1>2, AppendProperties
  <2>2. WholeIn(file) \subseteq WholeIn(file')
    BY <1>1, <1>2, AppendWholeIn
  <2> QED BY <1>1, <1>2, <2>1, <2>2
<1>3. CASE /\ faults < MaxFaults
           /\ faults' = faults + 1
           /\ file' \in {file} \cup {Append(file, t) : t \in T}
           /\ lastWrite' = [lastWrite EXCEPT ![c] = "failed"]
  <2>1. lastWrite'[c] = "failed" /\ lastWrite' \in [Callers -> {"ok", "failed"}]
    BY <1>1, <1>3
  <2>2. faults' \in 0..MaxFaults
    BY <1>1, <1>3
  <2>3. CASE file' = file
    BY <1>1, <2>1, <2>2, <2>3
  <2>4. ASSUME NEW t \in T, file' = Append(file, t)
        PROVE  /\ file' \in Seq(Piece) /\ Len(file') = Len(file) + 1
               /\ \A i \in 1..Len(file) : file'[i] = file[i]
               /\ WholeIn(file') = WholeIn(file)
    <3>1. t \in Piece /\ \A m \in StoredMessage : t # Whole(m)
      BY PieceKinds
    <3> QED BY <1>1, <2>4, <3>1, AppendProperties, AppendWholeIn
  <2> QED BY <1>1, <1>3, <2>1, <2>2, <2>3, <2>4
<1> QED BY <1>2, <1>3 DEF Write

LEMMA Alone ==
    ASSUME MutualExclusion, NEW c \in Callers, pc[c] # "idle"
    PROVE  \A d \in Callers : d # c => pc[d] = "idle"
  BY DEF MutualExclusion

(* A call that ends leaves no caller in a call. *)
LEMMA ReturnControl ==
    ASSUME Inv, NEW c \in Callers, pc[c] # "idle", Return(c)
    PROVE  /\ MutualExclusion' /\ Progress'
           /\ holder' \in Callers \cup {Nobody}
           /\ pc' \in [Callers -> {"idle"} \cup InCall]
           /\ lastWrite' \in [Callers -> {"ok", "failed"}]
           /\ calls' \in [Callers -> Seq(Call)]
<1>1. \A d \in Callers : pc'[d] = "idle"
  BY Alone DEF Inv, Types, TypeOK, Return, Goto
<1>2. MutualExclusion'
  BY <1>1 DEF MutualExclusion
<1>3. Progress'
  BY <1>1 DEF Progress, CallProgress, Writing
<1>4. calls' \in [Callers -> Seq(Call)]
  <2>1. calls[c] # <<>>
    BY DEF Inv, Progress, CallProgress
  <2>2. Tail(calls[c]) \in Seq(Call)
    BY <2>1, CallPieces DEF Inv
  <2> QED BY <2>2 DEF Inv, Types, Return
<1>5. /\ holder' \in Callers \cup {Nobody}
      /\ pc' \in [Callers -> {"idle"} \cup InCall]
      /\ lastWrite' \in [Callers -> {"ok", "failed"}]
  BY DEF Inv, Types, TypeOK, Return, Goto
<1> QED BY <1>2, <1>3, <1>4, <1>5

(* A call that goes on is the only one. *)
LEMMA InsideControl ==
    ASSUME Inv, NEW c \in Callers, pc[c] # "idle", NEW s \in InCall,
           Goto(c, s), holder' = holder, CallProgress(c)'
    PROVE  /\ MutualExclusion' /\ Progress'
           /\ pc' \in [Callers -> {"idle"} \cup InCall]
<1>1. pc' \in [Callers -> {"idle"} \cup InCall]
  BY DEF Inv, Types, TypeOK, Goto
<1>2. \A d \in Callers : d # c => pc'[d] = "idle"
  BY Alone DEF Inv, Types, TypeOK, Goto
<1>3. MutualExclusion'
  BY <1>2 DEF Inv, MutualExclusion
<1>4. \A d \in Callers : d # c => CallProgress(d)'
  BY <1>2 DEF CallProgress, Writing
<1> QED BY <1>1, <1>3, <1>4 DEF Progress

(* What was flushed stays, whatever happens behind synced. *)
LEMMA SyncedStays ==
    ASSUME Inv, synced' = synced, flushed' = flushed,
           file' \in Seq(Piece), synced <= Len(file'),
           \A i \in 1..synced : file'[i] = file[i]
    PROVE  FlushedIsDurable' /\ synced' \in 0..Len(file')
<1>1. synced \in 0..Len(file) /\ Len(file) \in Nat /\ Len(file') \in Nat
  BY DEF Inv, Types, TypeOK
<1> QED BY <1>1 DEF Inv, FlushedIsDurable

LEMMA AckedIsWhole ==
    ASSUME Types
    PROVE  AckedIsWritten <=> acked \subseteq WholeIn(file)
  BY DEF Types, AckedIsWritten, WholeIn

LEMMA InitInv == Init => Inv
<1> SUFFICES ASSUME Init PROVE Inv
  OBVIOUS
<1>1. <<>> \in Seq(Piece) /\ Len(<<>>) = 0
  BY EmptySeq
<1>2. Types
  BY <1>1, SingleFileAssumption, WorkAssumption DEF Init, Types, TypeOK, Piece
<1>3. MutualExclusion /\ Progress
  BY DEF Init, MutualExclusion, Progress, CallProgress, Writing
<1>4. AckedIsWritten /\ FlushedIsDurable
  BY DEF Init, AckedIsWritten, FlushedIsDurable
<1> QED BY <1>2, <1>3, <1>4 DEF Inv

-----------------------------------------------------------------------------
(* Each action preserves the invariant. *)

(* A call that ends before it holds the mutex. *)
LEMMA SkipInv ==
    ASSUME Inv, NEW c \in Callers, StoreNothing(c) \/ SerializeFails(c)
    PROVE  Inv'
<1>1. /\ pc[c] = "idle" /\ calls[c] # <<>>
      /\ calls' = [calls EXCEPT ![c] = Tail(@)]
      /\ UNCHANGED <<file, synced, holder, pc, at, lastWrite, counted, acked,
                     flushed>>
  BY DEF StoreNothing, SerializeFails
<1>2. Tail(calls[c]) \in Seq(Call)
  BY <1>1, CallPieces DEF Inv
<1>3. faults' \in 0..MaxFaults
  BY SingleFileAssumption DEF Inv, Types, TypeOK, StoreNothing, SerializeFails
<1>4. Types'
  BY <1>1, <1>2, <1>3 DEF Inv, Types, TypeOK
<1>5. MutualExclusion'
  BY <1>1 DEF Inv, MutualExclusion
<1>6. Progress'
  <2> SUFFICES ASSUME NEW d \in Callers PROVE CallProgress(d)'
    BY DEF Progress
  <2>1. CASE pc[d] = "idle"
    BY <1>1, <2>1 DEF CallProgress, Writing
  <2>2. CASE pc[d] # "idle"
    <3>1. calls'[d] = calls[d]
      BY <1>1, <2>2 DEF Inv, Types
    <3> QED BY <1>1, <3>1 DEF Inv, Progress, CallProgress, Pieces, Op
  <2> QED BY <2>1, <2>2
<1>7. AckedIsWritten' /\ FlushedIsDurable'
  BY <1>1 DEF Inv, AckedIsWritten, FlushedIsDurable
<1> QED BY <1>4, <1>5, <1>6, <1>7 DEF Inv

LEMMA LockInv ==
    ASSUME Inv, NEW c \in Callers, Lock(c)
    PROVE  Inv'
<1>1. \A d \in Callers : pc[d] = "idle"
  BY SingleFileAssumption DEF Inv, MutualExclusion, Lock
<1>2. Types'
  BY DEF Inv, Types, TypeOK, Lock, Goto, InCall
<1>3. \A d \in Callers : pc'[d] # "idle" => d = c
  BY <1>1 DEF Inv, Types, TypeOK, Lock, Goto
<1>4. pc'[c] = "open"
  BY DEF Inv, Types, TypeOK, Lock, Goto
<1>5. MutualExclusion'
  BY <1>3 DEF MutualExclusion, Lock
<1>6. CallProgress(c)'
  BY <1>4 DEF CallProgress, Lock, Writing, Op, Pieces
<1>7. Progress'
  BY <1>3, <1>6 DEF Progress, CallProgress, Writing
<1>8. AckedIsWritten' /\ FlushedIsDurable'
  BY DEF Inv, AckedIsWritten, FlushedIsDurable, Lock
<1> QED BY <1>2, <1>5, <1>7, <1>8 DEF Inv

LEMMA OpenInv ==
    ASSUME Inv, NEW c \in Callers, Open(c)
    PROVE  Inv'
<1>1. /\ pc[c] = "open" /\ pc[c] # "idle"
      /\ UNCHANGED <<file, synced, counted, acked, flushed>>
  BY DEF Open
<1>2. AckedIsWritten' /\ FlushedIsDurable'
  BY <1>1 DEF Inv, AckedIsWritten, FlushedIsDurable
<1>3. CASE /\ faults < MaxFaults /\ faults' = faults + 1
           /\ Return(c) /\ UNCHANGED at
  <2>1. faults' \in 0..MaxFaults
    BY <1>3, SingleFileAssumption DEF Inv, Types, TypeOK
  <2> QED BY <1>1, <1>2, <1>3, <2>1, ReturnControl DEF Inv, Types, TypeOK
<1>4. CASE /\ Goto(c, IF Op(c) = "flush" THEN "sync" ELSE "payload")
           /\ at' = [at EXCEPT ![c] = 1]
           /\ Stay /\ UNCHANGED <<lastWrite, faults>>
  <2> DEFINE s == IF Op(c) = "flush" THEN "sync" ELSE "payload"
  <2>1. calls[c] # <<>> /\ (Op(c) = "flush" \/ Pieces(c) # <<>>)
    BY <1>1 DEF Inv, Progress, CallProgress
  <2>2. pc'[c] = s /\ at'[c] = 1 /\ calls' = calls
    BY <1>4 DEF Inv, Types, TypeOK, Goto, Stay
  <2>3. CallProgress(c)'
    <3>1. CASE Op(c) = "flush"
      BY <2>1, <2>2, <3>1 DEF CallProgress, Writing
    <3>2. CASE Op(c) # "flush"
      <4>1. Pieces(c) \in Seq(StoredMessage) /\ Pieces(c) # <<>>
        BY <2>1, <3>2, CallPieces DEF Inv
      <4>2. 1 \in DOMAIN Pieces(c) /\ Pieces(c)' = Pieces(c)
        BY <4>1, <2>2 DEF Pieces
      <4> QED BY <2>1, <2>2, <3>2, <4>2 DEF CallProgress, Writing
    <3> QED BY <3>1, <3>2
  <2>4. s \in InCall
    BY DEF InCall
  <2>5. /\ MutualExclusion' /\ Progress'
        /\ pc' \in [Callers -> {"idle"} \cup InCall]
    <3> HIDE DEF s
    <3>1. Goto(c, s)
      BY <1>4 DEF s
    <3> QED BY <3>1, <1>1, <1>4, <2>3, <2>4, InsideControl DEF Stay
  <2>6. Types'
    BY <1>1, <1>4, <2>2, <2>5 DEF Inv, Types, TypeOK, Stay
  <2> QED BY <1>2, <2>5, <2>6 DEF Inv
<1> QED BY <1>3, <1>4 DEF Open

LEMMA ReportFailureInv ==
    ASSUME Inv, NEW c \in Callers, ReportFailure(c)
    PROVE  Inv'
<1>1. /\ pc[c] # "idle" /\ Return(c)
      /\ UNCHANGED <<file, synced, at, counted, acked, flushed, faults>>
  BY DEF ReportFailure
<1>2. AckedIsWritten' /\ FlushedIsDurable'
  BY <1>1 DEF Inv, AckedIsWritten, FlushedIsDurable
<1> QED BY <1>1, <1>2, ReturnControl DEF Inv, Types, TypeOK

(* A write keeps what is in the file and what was acknowledged and flushed. *)
LEMMA WriteInv ==
    ASSUME Inv, NEW c \in Callers, pc[c] # "idle",
           NEW p \in Piece, NEW T \in SUBSET TornPiece, Write(c, p, T), Stay,
           NEW s \in InCall, Goto(c, s), at' \in [Callers -> Nat],
           counted' \in Nat, UNCHANGED <<synced, acked, flushed>>,
           CallProgress(c)'
    PROVE  Inv'
<1>1. /\ file' \in Seq(Piece)
      /\ Len(file) <= Len(file')
      /\ \A i \in 1..Len(file) : file'[i] = file[i]
      /\ WholeIn(file) \subseteq WholeIn(file')
      /\ faults' \in 0..MaxFaults
      /\ lastWrite' \in [Callers -> {"ok", "failed"}]
  BY WriteGrows DEF Inv
<1>2. synced \in 0..Len(file) /\ Len(file) \in Nat /\ Len(file') \in Nat
  BY <1>1 DEF Inv, Types, TypeOK
<1>3. FlushedIsDurable' /\ synced' \in 0..Len(file')
  <2>1. synced <= Len(file') /\ \A i \in 1..synced : file'[i] = file[i]
    BY <1>1, <1>2
  <2> QED BY <1>1, <2>1, SyncedStays
<1>4. /\ MutualExclusion' /\ Progress'
      /\ pc' \in [Callers -> {"idle"} \cup InCall]
  BY InsideControl DEF Stay
<1>5. Types'
  BY <1>1, <1>3, <1>4 DEF Inv, Types, TypeOK, Stay, Piece
<1>6. AckedIsWritten'
  <2>1. acked \subseteq WholeIn(file)
    BY AckedIsWhole DEF Inv
  <2>2. acked' \subseteq WholeIn(file')
    BY <2>1, <1>1
  <2> QED BY <2>2 DEF AckedIsWritten, WholeIn
<1> QED BY <1>3, <1>4, <1>5, <1>6 DEF Inv

LEMMA WritePayloadInv ==
    ASSUME Inv, NEW c \in Callers, WritePayload(c)
    PROVE  Inv'
<1> DEFINE m == Pieces(c)[at[c]]
<1>1. /\ pc[c] = "payload" /\ pc[c] # "idle" /\ "newline" \in InCall
      /\ Write(c, Whole(m), {Torn(m)}) /\ Goto(c, "newline") /\ Stay
      /\ UNCHANGED <<synced, at, counted, acked, flushed>>
  BY DEF WritePayload, InCall
<1>2. /\ calls[c] # <<>> /\ at[c] \in DOMAIN Pieces(c)
      /\ \A i \in 1..(at[c] - 1) : Pieces(c)[i] \in WholeIn(file)
  BY <1>1 DEF Inv, Progress, CallProgress, Writing
<1>3. Pieces(c) \in Seq(StoredMessage)
  BY <1>2, CallPieces DEF Inv
<1>4. m \in StoredMessage
  BY <1>2, <1>3
<1>5. Whole(m) \in Piece /\ {Torn(m)} \in SUBSET TornPiece
  BY <1>4, PieceKinds
<1>6. /\ file \in Seq(Piece) /\ WholeIn(file) \subseteq WholeIn(file')
      /\ lastWrite'[c] = "ok" => file' = Append(file, Whole(m))
  <2> HIDE DEF m
  <2> QED BY <1>1, <1>5, WriteGrows DEF Inv, Types, TypeOK, Piece
<1>7. lastWrite'[c] = "ok" => m \in WholeIn(file')
  <2> HIDE DEF m
  <2>1. WholeIn(Append(file, Whole(m))) = WholeIn(file) \cup {m}
    BY <1>4, <1>5, <1>6, AppendWholeIn
  <2> QED BY <1>6, <2>1
<1>8. /\ pc'[c] = "newline" /\ calls'[c] = calls[c] /\ at' = at
      /\ Pieces(c)' = Pieces(c)
  BY <1>1 DEF Inv, Types, TypeOK, Goto, Stay, Pieces
<1>9. CallProgress(c)'
  BY <1>2, <1>6, <1>7, <1>8 DEF CallProgress, Writing
<1>10. at' \in [Callers -> Nat] /\ counted' \in Nat
  BY <1>1 DEF Inv, Types, TypeOK
<1> HIDE DEF m
<1> QED BY <1>1, <1>5, <1>9, <1>10, WriteInv

LEMMA WriteNewlineInv ==
    ASSUME Inv, NEW c \in Callers, WriteNewline(c)
    PROVE  Inv'
<1>1. /\ pc[c] = "newline" /\ pc[c] # "idle" /\ lastWrite[c] = "ok"
      /\ Write(c, Newline, {}) /\ Stay
      /\ UNCHANGED <<synced, acked, flushed>>
      /\ counted' \in Nat
  BY DEF WriteNewline, Inv, Types, TypeOK
<1>2. /\ calls[c] # <<>> /\ at[c] \in DOMAIN Pieces(c)
      /\ \A i \in 1..(at[c] - 1) : Pieces(c)[i] \in WholeIn(file)
      /\ Pieces(c)[at[c]] \in WholeIn(file)
  BY <1>1 DEF Inv, Progress, CallProgress, Writing
<1>3. Pieces(c) \in Seq(StoredMessage) /\ Len(Pieces(c)) \in Nat
      /\ DOMAIN Pieces(c) = 1..Len(Pieces(c))
  BY <1>2, CallPieces DEF Inv
<1>4. Newline \in Piece /\ {} \in SUBSET TornPiece
  BY PieceKinds
<1>5. WholeIn(file) \subseteq WholeIn(file')
  BY <1>1, <1>4, WriteGrows DEF Inv
<1>6. calls' = calls /\ Pieces(c)' = Pieces(c) /\ at \in [Callers -> Nat]
  BY <1>1 DEF Stay, Pieces, Inv, Types
<1>7. CASE /\ at[c] < Len(Pieces(c))
           /\ Goto(c, "payload") /\ at' = [at EXCEPT ![c] = @ + 1]
  <2>1. pc'[c] = "payload" /\ at'[c] = at[c] + 1 /\ at[c] \in Nat
    BY <1>6, <1>7 DEF Inv, Types, TypeOK, Goto
  <2>2. \A i \in 1..at[c] : Pieces(c)[i] \in WholeIn(file)
    BY <1>2, <2>1
  <2>3. CallProgress(c)'
    BY <1>2, <1>3, <1>5, <1>6, <1>7, <2>1, <2>2 DEF CallProgress, Writing
  <2>4. at' \in [Callers -> Nat] /\ "payload" \in InCall
    BY <1>6, <1>7 DEF InCall
  <2> QED BY <1>1, <1>4, <1>7, <2>3, <2>4, WriteInv
<1>8. CASE /\ ~(at[c] < Len(Pieces(c)))
           /\ Goto(c, "flush") /\ UNCHANGED at
  <2>1. pc'[c] = "flush" /\ at' = at /\ at[c] = Len(Pieces(c))
    BY <1>2, <1>3, <1>6, <1>8 DEF Inv, Types, TypeOK, Goto
  <2>2. CallProgress(c)'
    BY <1>2, <1>3, <1>5, <1>6, <2>1 DEF CallProgress, Writing
  <2>3. at' \in [Callers -> Nat] /\ "flush" \in InCall
    BY <1>6, <2>1 DEF InCall
  <2> QED BY <1>1, <1>4, <1>8, <2>2, <2>3, WriteInv
<1> QED BY <1>7, <1>8 DEF WriteNewline

(* At the end of a store call all of its messages are in the file. *)
LEMMA AllWritten ==
    ASSUME Inv, NEW c \in Callers, pc[c] = "flush"
    PROVE  Messages(c) \subseteq WholeIn(file)
<1>1. /\ calls[c] # <<>> /\ at[c] = Len(Pieces(c))
      /\ \A i \in 1..(at[c] - 1) : Pieces(c)[i] \in WholeIn(file)
      /\ Pieces(c)[at[c]] \in WholeIn(file)
  BY DEF Inv, Progress, CallProgress, Writing
<1>2. Pieces(c) \in Seq(StoredMessage)
  BY <1>1, CallPieces DEF Inv
<1>3. \A i \in 1..Len(Pieces(c)) : i \in 1..(at[c] - 1) \/ i = at[c]
  BY <1>1, <1>2
<1> QED BY <1>1, <1>2, <1>3 DEF Messages

LEMMA FlushHandleInv ==
    ASSUME Inv, NEW c \in Callers, FlushHandle(c)
    PROVE  Inv'
<1>1. /\ pc[c] = "flush" /\ pc[c] # "idle" /\ Return(c)
      /\ acked' = acked \cup Messages(c)
      /\ UNCHANGED <<file, synced, at, flushed, faults>>
      /\ counted' \in Nat
  BY DEF FlushHandle, Inv, Types, TypeOK
<1>2. acked' \subseteq WholeIn(file)
  BY <1>1, AllWritten, AckedIsWhole DEF Inv
<1>3. AckedIsWritten' /\ acked' \subseteq StoredMessage
  BY <1>1, <1>2 DEF AckedIsWritten, WholeIn
<1>4. FlushedIsDurable'
  BY <1>1 DEF Inv, FlushedIsDurable
<1> QED BY <1>1, <1>3, <1>4, ReturnControl DEF Inv, Types, TypeOK

LEMMA SyncAllInv ==
    ASSUME Inv, NEW c \in Callers, SyncAll(c)
    PROVE  Inv'
<1>1. /\ pc[c] # "idle" /\ Return(c)
      /\ UNCHANGED <<file, at, counted, acked>>
  BY DEF SyncAll
<1>2. AckedIsWritten'
  BY <1>1 DEF Inv, AckedIsWritten
<1>3. CASE synced' = Len(file) /\ flushed' = acked /\ UNCHANGED faults
  <2>1. synced' \in 0..Len(file')
    BY <1>1, <1>3 DEF Inv, Types, TypeOK
  <2>2. FlushedIsDurable'
    BY <1>1, <1>3 DEF Inv, AckedIsWritten, FlushedIsDurable, Types, TypeOK
  <2> QED BY <1>1, <1>2, <1>3, <2>1, <2>2, ReturnControl DEF Inv, Types, TypeOK
<1>4. CASE /\ faults < MaxFaults /\ faults' = faults + 1
           /\ UNCHANGED <<synced, flushed>>
  <2>1. faults' \in 0..MaxFaults
    BY <1>4, SingleFileAssumption DEF Inv, Types, TypeOK
  <2>2. FlushedIsDurable'
    BY <1>1, <1>4 DEF Inv, FlushedIsDurable
  <2> QED BY <1>1, <1>2, <1>4, <2>1, <2>2, ReturnControl DEF Inv, Types, TypeOK
<1> QED BY <1>3, <1>4 DEF SyncAll

(* A crash keeps what was synced and makes nothing whole. *)
LEMMA CrashFile ==
    ASSUME Inv, Crash
    PROVE  /\ file' \in Seq(Piece) /\ synced <= Len(file')
           /\ \A i \in 1..synced : file'[i] = file[i]
           /\ WholeIn(file') \subseteq WholeIn(file)
<1>1. /\ file \in Seq(Piece) /\ synced \in 0..Len(file) /\ Len(file) \in Nat
  BY DEF Inv, Types, TypeOK, Piece
<1>2. PICK k \in synced..Len(file) :
          file' \in {SubSeq(file, 1, k)} \cup
                    {Append(SubSeq(file, 1, i - 1), Torn(file[i].msg)) :
                        i \in {j \in (synced + 1)..k : file[j].kind = "whole"}} \cup
                    {Append(file, Torn(Pieces(c)[at[c]])) :
                        c \in {d \in Callers : pc[d] = "payload"}}
  BY DEF Crash
<1>3. ASSUME NEW n \in synced..Len(file), file' = SubSeq(file, 1, n)
      PROVE  /\ file' \in Seq(Piece) /\ synced <= Len(file')
             /\ \A i \in 1..synced : file'[i] = file[i]
             /\ WholeIn(file') \subseteq WholeIn(file)
  <2>1. n \in 0..Len(file)
    BY <1>1
  <2>2. /\ file' \in Seq(Piece) /\ Len(file') = n
        /\ \A i \in 1..n : file'[i] = file[i]
    BY <1>1, <1>3, <2>1, WholeInPrefix
  <2> QED BY <1>1, <2>1, <2>2, PrefixKeeps
<1>4. ASSUME NEW n \in synced..Len(file), NEW t \in TornPiece,
             file' = Append(SubSeq(file, 1, n), t)
      PROVE  /\ file' \in Seq(Piece) /\ synced <= Len(file')
             /\ \A i \in 1..synced : file'[i] = file[i]
             /\ WholeIn(file') \subseteq WholeIn(file)
  <2> DEFINE s == SubSeq(file, 1, n)
  <2>1. n \in 0..Len(file)
    BY <1>1
  <2>2. /\ s \in Seq(Piece) /\ Len(s) = n
        /\ \A i \in 1..n : s[i] = file[i]
    BY <1>1, <2>1, WholeInPrefix
  <2> HIDE DEF s
  <2>3. t \in Piece /\ \A m \in StoredMessage : t # Whole(m)
    BY PieceKinds
  <2>4. file' = Append(s, t)
    BY <1>4 DEF s
  <2>5. /\ file' \in Seq(Piece) /\ Len(file') = n + 1
        /\ \A i \in 1..n : file'[i] = s[i]
    BY <2>2, <2>3, <2>4, AppendProperties
  <2>6. WholeIn(file') = WholeIn(s)
    BY <2>2, <2>3, <2>4, AppendWholeIn
  <2>7. WholeIn(s) \subseteq WholeIn(file)
    BY <1>1, <2>1, <2>2, PrefixKeeps
  <2> QED BY <1>1, <2>1, <2>2, <2>5, <2>6, <2>7
<1>5. CASE file' = SubSeq(file, 1, k)
  BY <1>3, <1>5
<1>6. ASSUME NEW i \in (synced + 1)..k, file[i].kind = "whole",
             file' = Append(SubSeq(file, 1, i - 1), Torn(file[i].msg))
      PROVE  /\ file' \in Seq(Piece) /\ synced <= Len(file')
             /\ \A j \in 1..synced : file'[j] = file[j]
             /\ WholeIn(file') \subseteq WholeIn(file)
  <2>1. file[i] \in Piece
    BY <1>1
  <2>2. Newline.kind = "newline"
    BY DEF Newline
  <2>3. file[i].msg \in StoredMessage
    BY <1>6, <2>1, <2>2 DEF Piece
  <2>4. Torn(file[i].msg) \in TornPiece /\ i - 1 \in synced..Len(file)
    BY <1>1, <2>3, PieceKinds
  <2> QED BY <1>4, <1>6, <2>4
<1>7. ASSUME NEW c \in Callers, pc[c] = "payload",
             file' = Append(file, Torn(Pieces(c)[at[c]]))
      PROVE  /\ file' \in Seq(Piece) /\ synced <= Len(file')
             /\ \A j \in 1..synced : file'[j] = file[j]
             /\ WholeIn(file') \subseteq WholeIn(file)
  <2>1. calls[c] # <<>> /\ at[c] \in DOMAIN Pieces(c)
    BY <1>7 DEF Inv, Progress, CallProgress, Writing
  <2>2. Pieces(c)[at[c]] \in StoredMessage
    BY <2>1, CallPieces DEF Inv
  <2>3. Torn(Pieces(c)[at[c]]) \in TornPiece /\ Len(file) \in synced..Len(file)
    BY <1>1, <2>2, PieceKinds
  <2>4. SubSeq(file, 1, Len(file)) = file
    BY <1>1, SubSeqFull
  <2> QED BY <1>4, <1>7, <2>3, <2>4
<1> QED BY <1>2, <1>5, <1>6, <1>7

LEMMA CrashInv ==
    ASSUME Inv, Crash
    PROVE  Inv'
<1>1. /\ holder' = Nobody /\ pc' = [c \in Callers |-> "idle"] /\ calls' = Work
      /\ at' = [c \in Callers |-> 1] /\ lastWrite' = [c \in Callers |-> "ok"]
      /\ counted' = 0 /\ acked' = {} /\ UNCHANGED <<synced, flushed>>
      /\ faults < MaxFaults /\ faults' = faults + 1
  BY DEF Crash
<1>2. FlushedIsDurable' /\ synced' \in 0..Len(file') /\ file' \in Seq(Piece)
  BY <1>1, CrashFile, SyncedStays
<1>3. faults' \in 0..MaxFaults
  BY <1>1, SingleFileAssumption DEF Inv, Types, TypeOK
<1>4. Types'
  BY <1>1, <1>2, <1>3, WorkAssumption DEF Inv, Types, TypeOK, Piece
<1>5. MutualExclusion' /\ Progress'
  BY <1>1 DEF MutualExclusion, Progress, CallProgress, Writing
<1>6. AckedIsWritten'
  BY <1>1 DEF AckedIsWritten
<1> QED BY <1>2, <1>4, <1>5, <1>6 DEF Inv

LEMMA NextInv == Inv /\ [Next]_vars => Inv'
<1> SUFFICES ASSUME Inv, [Next]_vars PROVE Inv'
  OBVIOUS
<1>1. ASSUME NEW c \in Callers, Step(c) PROVE Inv'
  BY <1>1, SkipInv, LockInv, OpenInv, ReportFailureInv, WritePayloadInv,
     WriteNewlineInv, FlushHandleInv, SyncAllInv DEF Step
<1>2. CASE Crash
  BY <1>2, CrashInv
<1>3. CASE UNCHANGED vars
  BY <1>3 DEF vars, Inv, Types, TypeOK, MutualExclusion, Progress, CallProgress,
              Pieces, Op, AckedIsWritten, FlushedIsDurable
<1> QED BY <1>1, <1>2, <1>3 DEF Next

-----------------------------------------------------------------------------
(* What holds of every behaviour. *)

(* Inv holds in every reachable state, whatever fails and however often the *)
(* process goes down and starts again.                                      *)
THEOREM SingleFileInvariant == Spec => []Inv
<1>1. Init => Inv
  BY InitInv
<1>2. Inv /\ [Next]_vars => Inv'
  BY NextInv
<1> QED BY <1>1, <1>2, PTL DEF Spec

(* The state of the storage keeps its types, for any callers and any work.  *)
THEOREM SingleFileTypeOK == Spec => []TypeOK
<1>1. Inv => TypeOK
  BY DEF Inv, Types
<1> QED BY <1>1, SingleFileInvariant, PTL

(* file_mutex: no two callers are inside store_message, store_messages or   *)
(* flush at once, whatever fails and whatever is cut short by a crash.      *)
THEOREM SingleFileExclusion ==
    Spec => [](\A c, d \in Callers : pc[c] # "idle" /\ pc[d] # "idle" => c = d)
<1>1. Inv => \A c, d \in Callers : pc[c] # "idle" /\ pc[d] # "idle" => c = d
  BY DEF Inv, MutualExclusion
<1> QED BY <1>1, SingleFileInvariant, PTL

(* A message whose store returned Ok is in the file in full. *)
THEOREM SingleFileAckedIsWritten == Spec => []AckedIsWritten
<1>1. Inv => AckedIsWritten
  BY DEF Inv
<1> QED BY <1>1, SingleFileInvariant, PTL

(* What a flush or close has returned Ok for survives every later crash. *)
THEOREM SingleFileFlushedIsDurable == Spec => []FlushedIsDurable
<1>1. Inv => FlushedIsDurable
  BY DEF Inv
<1> QED BY <1>1, SingleFileInvariant, PTL

-----------------------------------------------------------------------------
(* Lines: while nothing has failed, an open line belongs to a caller that   *)
(* is about to write the newline.                                           *)

Lines ==
    /\ \A c \in Callers : lastWrite[c] = "failed" => faults > 0
    /\ CleanWithoutFaults
    /\ faults = 0 =>
          \/ file = <<>>
          \/ file[Len(file)] = Newline
          \/ \E c \in Callers : pc[c] = "newline"

(* A step that writes nothing and closes no open line. *)
LEMMA QuietLines ==
    ASSUME Inv, Lines, file' = file, faults' \in {faults, faults + 1},
           \A c \in Callers : lastWrite'[c] \in {"ok", lastWrite[c]},
           faults' = 0 => \A c \in Callers : pc[c] = "newline" => pc'[c] = "newline"
    PROVE  Lines'
<1>1. faults \in Nat /\ (faults' = 0 => faults = 0) /\ (faults > 0 => faults' > 0)
  BY SingleFileAssumption DEF Inv, Types, TypeOK
<1>2. \A c \in Callers : lastWrite'[c] = "failed" => faults' > 0
  BY <1>1 DEF Lines
<1>3. CleanWithoutFaults'
  BY <1>1 DEF Lines, CleanWithoutFaults, HasOwnLine
<1>4. faults' = 0 =>
          \/ file' = <<>>
          \/ file'[Len(file')] = Newline
          \/ \E c \in Callers : pc'[c] = "newline"
  BY <1>1 DEF Lines
<1> QED BY <1>2, <1>3, <1>4 DEF Lines

(* What a write has left if nothing has failed yet. *)
LEMMA CleanWrite ==
    ASSUME Inv, Lines, NEW c \in Callers, NEW p, NEW T, Write(c, p, T)
    PROVE  /\ \A d \in Callers : lastWrite'[d] = "failed" => faults' > 0
           /\ faults' = 0 => faults = 0 /\ file' = Append(file, p)
<1>1. faults \in Nat /\ lastWrite \in [Callers -> {"ok", "failed"}]
  BY SingleFileAssumption DEF Inv, Types, TypeOK
<1> QED BY <1>1 DEF Write, Lines

LEMMA PayloadLines ==
    ASSUME Inv, Lines, NEW c \in Callers, WritePayload(c)
    PROVE  Lines'
<1> DEFINE m == Pieces(c)[at[c]]
<1>1. /\ pc[c] = "payload" /\ pc[c] # "idle" /\ Goto(c, "newline")
      /\ Write(c, Whole(m), {Torn(m)})
  BY DEF WritePayload
<1>2. calls[c] # <<>> /\ at[c] \in DOMAIN Pieces(c)
  BY <1>1 DEF Inv, Progress, CallProgress, Writing
<1>3. m \in StoredMessage
  BY <1>2, CallPieces DEF Inv
<1> HIDE DEF m
<1>4. /\ \A d \in Callers : lastWrite'[d] = "failed" => faults' > 0
      /\ faults' = 0 => faults = 0 /\ file' = Append(file, Whole(m))
  BY <1>1, CleanWrite
<1>5. pc'[c] = "newline"
  BY <1>1 DEF Goto, Inv, Types, TypeOK
<1>6. CleanWithoutFaults'
  <2> SUFFICES ASSUME faults' = 0, NEW i \in DOMAIN file', file'[i] # Newline
               PROVE  HasOwnLine(i)'
    BY DEF CleanWithoutFaults
  <2>1. /\ file \in Seq(Piece) /\ Whole(m) \in Piece /\ Len(file) \in Nat
        /\ Whole(m).kind = "whole"
    BY <1>3, PieceKinds DEF Inv, Types, TypeOK, Piece, Whole
  <2>2. /\ file' \in Seq(Piece) /\ Len(file') = Len(file) + 1
        /\ \A j \in 1..Len(file) : file'[j] = file[j]
        /\ file'[Len(file) + 1] = Whole(m)
    BY <1>4, <2>1, AppendProperties
  <2>3. file = <<>> \/ file[Len(file)] = Newline
    BY <1>1, <1>4, Alone DEF Inv, Lines
  <2>4. CASE i = Len(file) + 1
    <3>1. CASE file = <<>>
      BY <2>1, <2>2, <2>4, <3>1 DEF HasOwnLine
    <3>2. CASE file # <<>>
      <4>1. Len(file) \in 1..Len(file) /\ i - 1 = Len(file)
        BY <2>1, <2>4, <3>2
      <4>2. file'[i - 1] = Newline
        BY <2>2, <2>3, <3>2, <4>1
      <4> QED BY <2>1, <2>2, <2>4, <4>2 DEF HasOwnLine
    <3> QED BY <3>1, <3>2
  <2>5. CASE i \in 1..Len(file)
    <3>1. file[i] # Newline /\ file'[i] = file[i]
      BY <2>2, <2>5
    <3>2. HasOwnLine(i)
      BY <1>4, <2>1, <2>5, <3>1 DEF Lines, CleanWithoutFaults
    <3>3. i < Len(file)
      BY <2>1, <2>3, <2>5, <3>1
    <3>4. i + 1 \in 1..Len(file) /\ (i = 1 \/ i - 1 \in 1..Len(file))
      BY <2>1, <2>5, <3>3
    <3>5. file'[i + 1] = Newline /\ (i = 1 \/ file'[i - 1] = Newline)
      BY <2>1, <2>2, <3>2, <3>3, <3>4 DEF HasOwnLine
    <3> QED BY <3>1, <3>2, <3>5 DEF HasOwnLine
  <2> QED BY <2>1, <2>2, <2>4, <2>5
<1> QED BY <1>4, <1>5, <1>6 DEF Lines

LEMMA NewlineLines ==
    ASSUME Inv, Lines, NEW c \in Callers, WriteNewline(c)
    PROVE  Lines'
<1>1. Write(c, Newline, {})
  BY DEF WriteNewline
<1>2. /\ \A d \in Callers : lastWrite'[d] = "failed" => faults' > 0
      /\ faults' = 0 => faults = 0 /\ file' = Append(file, Newline)
  BY <1>1, CleanWrite
<1>3. /\ file \in Seq(Piece) /\ Newline \in Piece /\ Len(file) \in Nat
  BY PieceKinds DEF Inv, Types, TypeOK, Piece
<1>4. faults' = 0 =>
        /\ file' \in Seq(Piece) /\ Len(file') = Len(file) + 1
        /\ \A j \in 1..Len(file) : file'[j] = file[j]
        /\ file'[Len(file) + 1] = Newline
  BY <1>2, <1>3, AppendProperties
<1>5. CleanWithoutFaults'
  <2> SUFFICES ASSUME faults' = 0, NEW i \in DOMAIN file', file'[i] # Newline
               PROVE  HasOwnLine(i)'
    BY DEF CleanWithoutFaults
  <2>1. i \in 1..Len(file) /\ file'[i] = file[i] /\ file[i] # Newline
    BY <1>3, <1>4
  <2>2. HasOwnLine(i)
    BY <1>2, <1>3, <2>1 DEF Lines, CleanWithoutFaults
  <2>3. i = 1 \/ (i - 1 \in 1..Len(file) /\ file'[i - 1] = Newline)
    BY <1>3, <1>4, <2>1, <2>2 DEF HasOwnLine
  <2>4. file'[i + 1] = Newline
    <3>1. CASE i = Len(file)
      BY <1>4, <3>1
    <3>2. CASE i # Len(file)
      <4>1. i + 1 \in 1..Len(file)
        BY <1>3, <2>1, <3>2
      <4> QED BY <1>4, <2>2, <3>2, <4>1 DEF HasOwnLine
    <3> QED BY <3>1, <3>2
  <2> QED BY <2>1, <2>2, <2>3, <2>4 DEF HasOwnLine
<1> QED BY <1>2, <1>4, <1>5 DEF Lines

LEMMA LinesNext == Inv /\ Lines /\ [Next]_vars => Lines'
<1> SUFFICES ASSUME Inv, Lines, [Next]_vars PROVE Lines'
  OBVIOUS
<1> USE DEF Goto, Return, Stay
<1>t. /\ pc \in [Callers -> {"idle"} \cup InCall] /\ faults \in Nat
      /\ lastWrite \in [Callers -> {"ok", "failed"}]
  BY SingleFileAssumption DEF Inv, Types, TypeOK
<1>1. ASSUME NEW c \in Callers, StoreNothing(c) \/ SerializeFails(c) PROVE Lines'
  BY <1>1, <1>t, QuietLines DEF StoreNothing, SerializeFails
<1>2. ASSUME NEW c \in Callers, Lock(c) PROVE Lines'
  BY <1>2, <1>t, QuietLines DEF Lock
<1>3. ASSUME NEW c \in Callers, Open(c) PROVE Lines'
  BY <1>3, <1>t, QuietLines DEF Open
<1>4. ASSUME NEW c \in Callers, ReportFailure(c) PROVE Lines'
  <2>1. faults > 0 /\ UNCHANGED <<file, faults>>
    BY <1>4 DEF ReportFailure, Lines
  <2> QED BY <1>4, <1>t, <2>1, QuietLines DEF ReportFailure
<1>5. ASSUME NEW c \in Callers, FlushHandle(c) PROVE Lines'
  BY <1>5, <1>t, QuietLines DEF FlushHandle
<1>6. ASSUME NEW c \in Callers, SyncAll(c) PROVE Lines'
  BY <1>6, <1>t, QuietLines DEF SyncAll
<1>7. CASE Crash
  <2>1. faults' > 0
    BY <1>7, <1>t DEF Crash
  <2> QED BY <2>1 DEF Lines, CleanWithoutFaults
<1>8. CASE UNCHANGED vars
  BY <1>8, <1>t, QuietLines DEF vars
<1> QED BY <1>1, <1>2, <1>3, <1>4, <1>5, <1>6, <1>7, <1>8,
           PayloadLines, NewlineLines DEF Next, Step

(* As long as nothing failed, every record has a line of its own, however   *)
(* many callers store at once.                                              *)
THEOREM SingleFileCleanWithoutFaults == Spec => []CleanWithoutFaults
<1>1. Init => Lines
  BY DEF Init, Lines, CleanWithoutFaults
<1>2. Lines => CleanWithoutFaults
  BY DEF Lines
<1> QED BY <1>1, <1>2, LinesNext, SingleFileInvariant, PTL DEF Spec

-----------------------------------------------------------------------------
(* What a fault can spoil.  A line a fault left open takes the next record  *)
(* with it, and a fault leaves at most one line open.                       *)

(* The line a record was given is complete: nothing before it on the line,  *)
(* and its newline behind it.                                               *)
Closed(m) ==
    \E i \in 1..(Len(file) - 1) :
        /\ file[i] = Whole(m)
        /\ i = 1 \/ file[i - 1] = Newline
        /\ file[i + 1] = Newline

(* The messages of the call under way whose newline is written. *)
Sent(c) ==
    IF pc[c] \in Writing /\ lastWrite[c] = "ok"
      THEN {m \in StoredMessage : \E i \in DOMAIN Pieces(c) :
                m = Pieces(c)[i] /\ (i < at[c] \/ pc[c] = "flush")}
      ELSE {}

(* All that is acknowledged, or will be unless a later write fails. *)
Tally == acked \cup UNION {Sent(c) : c \in Callers}

Spoiled == {m \in Tally : ~Closed(m)}

LineStart(k) == k = 0 \/ file[k] = Newline

RecordWritten(c) == pc[c] = "newline" /\ lastWrite[c] = "ok"

(* The line that is written next, or is being written, holds nothing else. *)
FreshLine ==
    \/ LineStart(Len(file))
    \/ (\E c \in Callers : RecordWritten(c)) /\ LineStart(Len(file) - 1)

Damage ==
    /\ \A c \in Callers : RecordWritten(c) =>
          file # <<>> /\ file[Len(file)] = Whole(Pieces(c)[at[c]])
    /\ IsFiniteSet(Tally)
    /\ Cardinality(Spoiled) <= faults
    /\ ~FreshLine => Cardinality(Spoiled) < faults

Newlines == {i \in DOMAIN file : file[i] = Newline}

(* A file that only grew keeps its closed lines and its newlines. *)
LEMMA GrowthKeeps ==
    ASSUME Inv, file' \in Seq(Piece), Len(file) <= Len(file'),
           \A i \in 1..Len(file) : file'[i] = file[i]
    PROVE  /\ \A m : Closed(m) => Closed(m)'
           /\ Newlines \subseteq Newlines'
           /\ IsFiniteSet(Newlines) /\ IsFiniteSet(Newlines')
           /\ Cardinality(Newlines) \in Nat /\ Cardinality(Newlines') \in Nat
           /\ Cardinality(Newlines) <= Cardinality(Newlines')
<1>1. /\ file \in Seq(Piece) /\ Len(file) \in Nat /\ Len(file') \in Nat
      /\ DOMAIN file = 1..Len(file) /\ DOMAIN file' = 1..Len(file')
  BY DEF Inv, Types, TypeOK, Piece
<1>2. ASSUME NEW m, Closed(m) PROVE Closed(m)'
  <2>1. PICK i \in 1..(Len(file) - 1) :
            /\ file[i] = Whole(m)
            /\ i = 1 \/ file[i - 1] = Newline
            /\ file[i + 1] = Newline
    BY <1>2 DEF Closed
  <2>2. /\ i \in 1..(Len(file') - 1) /\ i \in 1..Len(file)
        /\ i + 1 \in 1..Len(file) /\ (i = 1 \/ i - 1 \in 1..Len(file))
    BY <1>1
  <2>3. /\ file'[i] = Whole(m) /\ file'[i + 1] = Newline
        /\ i = 1 \/ file'[i - 1] = Newline
    BY <2>1, <2>2
  <2> QED BY <2>2, <2>3 DEF Closed
<1>3. Newlines \subseteq Newlines'
  BY <1>1 DEF Newlines
<1>4. IsFiniteSet(1..Len(file'))
  BY <1>1, FS_Interval
<1>5. Newlines' \subseteq 1..Len(file')
  BY <1>1 DEF Newlines
<1>6. IsFiniteSet(Newlines')
  BY <1>4, <1>5, FS_Subset
<1>7. /\ IsFiniteSet(Newlines)
      /\ Cardinality(Newlines) <= Cardinality(Newlines')
  BY <1>3, <1>6, FS_Subset
<1>8. Cardinality(Newlines) \in Nat /\ Cardinality(Newlines') \in Nat
  BY <1>6, <1>7, FS_CardinalityType
<1> QED BY <1>2, <1>3, <1>6, <1>7, <1>8

(* Only the call that holds the mutex has anything in the tally that is not *)
(* acknowledged yet.                                                        *)
LEMMA TallyOfOne ==
    ASSUME NEW c \in Callers, \A d \in Callers : d # c => pc[d] = "idle"
    PROVE  Tally = acked \cup Sent(c)
<1>1. \A d \in Callers : d # c => Sent(d) = {}
  BY DEF Sent, Writing
<1> QED BY <1>1 DEF Tally

LEMMA TallyOfNone ==
    ASSUME \A c \in Callers : pc[c] \notin Writing \/ lastWrite[c] = "failed"
    PROVE  Tally = acked
<1>1. \A c \in Callers : Sent(c) = {}
  BY DEF Sent
<1> QED BY <1>1 DEF Tally

(* A step that adds nothing to the tally and opens no closed line: it may   *)
(* leave a line open if it is a fault.                                      *)
LEMMA DamageKept ==
    ASSUME Inv, Damage, Tally' \subseteq Tally,
           \A m : Closed(m) => Closed(m)',
           \A c \in Callers : RecordWritten(c)' =>
              file' # <<>> /\ file'[Len(file')] = Whole(Pieces(c)[at[c]])',
           \/ faults' = faults /\ (FreshLine => FreshLine')
           \/ faults' = faults + 1
    PROVE  Damage'
<1>1. Spoiled' \subseteq Spoiled /\ Spoiled \subseteq Tally
  BY DEF Spoiled
<1>2. IsFiniteSet(Tally') /\ IsFiniteSet(Spoiled)
  BY <1>1, FS_Subset DEF Damage
<1>3. IsFiniteSet(Spoiled') /\ Cardinality(Spoiled') <= Cardinality(Spoiled)
  BY <1>1, <1>2, FS_Subset
<1>4. Cardinality(Spoiled) \in Nat /\ Cardinality(Spoiled') \in Nat
  BY <1>2, <1>3, FS_CardinalityType
<1>5. faults \in Nat /\ Cardinality(Spoiled) <= faults
      /\ (~FreshLine => Cardinality(Spoiled) < faults)
  BY SingleFileAssumption DEF Damage, Inv, Types, TypeOK
<1>6. Cardinality(Spoiled') <= faults'
  BY <1>3, <1>4, <1>5
<1>7. ~FreshLine' => Cardinality(Spoiled') < faults'
  BY <1>3, <1>4, <1>5
<1> QED BY <1>2, <1>6, <1>7 DEF Damage

(* A step in which the file stands still and no call is between a record    *)
(* and its newline, unless it was there already.                            *)
LEMMA DamageStill ==
    ASSUME Inv, Damage, file' = file, Tally' \subseteq Tally,
           \A c \in Callers : RecordWritten(c)' <=> RecordWritten(c),
           \A c \in Callers : RecordWritten(c) =>
              calls'[c] = calls[c] /\ at'[c] = at[c],
           faults' \in {faults, faults + 1}
    PROVE  Damage'
<1>1. \A m : Closed(m) => Closed(m)'
  BY DEF Closed
<1>2. FreshLine => FreshLine'
  BY DEF FreshLine, LineStart
<1>3. \A c \in Callers : RecordWritten(c)' =>
          file' # <<>> /\ file'[Len(file')] = Whole(Pieces(c)[at[c]])'
  BY DEF Damage, Pieces
<1> QED BY <1>1, <1>2, <1>3, DamageKept

(* A call that returns leaves nobody between a record and its newline. *)
LEMMA DamageReturn ==
    ASSUME Inv, Damage, NEW c \in Callers, pc[c] # "idle", Return(c),
           ~RecordWritten(c), file' = file, acked' \subseteq Tally,
           faults' \in {faults, faults + 1}
    PROVE  Damage'
<1>1. \A d \in Callers : pc'[d] = "idle"
  BY Alone DEF Inv, Types, TypeOK, Return, Goto
<1>2. Tally' = acked'
  <2>1. \A d \in Callers : Sent(d)' = {}
    BY <1>1 DEF Sent, Writing
  <2> QED BY <2>1 DEF Tally
<1>3. \A d \in Callers : ~RecordWritten(d) /\ ~RecordWritten(d)'
  BY <1>1, Alone DEF Inv, RecordWritten
<1> QED BY <1>2, <1>3, DamageStill

LEMMA PayloadDamage ==
    ASSUME Inv, Damage, NEW c \in Callers, WritePayload(c)
    PROVE  Damage'
<1>m. PICK m : m = Pieces(c)[at[c]]
  OBVIOUS
<1>1. /\ pc[c] = "payload" /\ pc[c] # "idle" /\ Goto(c, "newline") /\ Stay
      /\ lastWrite[c] = "ok"
      /\ Write(c, Whole(m), {Torn(m)}) /\ UNCHANGED <<synced, at, acked>>
  BY <1>m DEF WritePayload
<1>2. /\ calls[c] # <<>> /\ at[c] \in DOMAIN Pieces(c)
  BY <1>1 DEF Inv, Progress, CallProgress, Writing
<1>3. m \in StoredMessage
  BY <1>m, <1>2, CallPieces DEF Inv
<1>4. Pieces(c)' = Pieces(c) /\ at' = at
  BY <1>1 DEF Stay, Pieces
<1>5. Whole(m) \in Piece /\ {Torn(m)} \in SUBSET TornPiece
  BY <1>3, PieceKinds
<1>6. /\ file' \in Seq(Piece) /\ Len(file) <= Len(file')
      /\ \A i \in 1..Len(file) : file'[i] = file[i]
      /\ lastWrite'[c] = "ok" => file' = Append(file, Whole(m))
      /\ lastWrite' \in [Callers -> {"ok", "failed"}]
  BY <1>1, <1>5, WriteGrows DEF Inv
<1>7. \A x : Closed(x) => Closed(x)'
  BY <1>6, GrowthKeeps
<1>8. /\ pc'[c] = "newline"
      /\ \A d \in Callers : d # c => pc[d] = "idle" /\ pc'[d] = "idle"
  BY <1>1, Alone DEF Inv, Types, TypeOK, Goto
<1>9. Sent(c)' \subseteq Sent(c)
  <2>1. Pieces(c)' = Pieces(c) /\ at' = at
    BY <1>1 DEF Stay, Pieces
  <2>2. CASE lastWrite'[c] = "ok"
    BY <1>1, <1>8, <2>1, <2>2 DEF Sent, Writing
  <2>3. CASE lastWrite'[c] # "ok"
    BY <2>3 DEF Sent
  <2> QED BY <2>2, <2>3
<1>10. Tally' \subseteq Tally
  <2>1. Tally = acked \cup Sent(c)
    BY <1>8, TallyOfOne
  <2>2. \A d \in Callers : d # c => Sent(d)' = {}
    BY <1>8 DEF Sent, Writing
  <2>3. Tally' = acked' \cup Sent(c)'
    BY <2>2 DEF Tally
  <2> QED BY <1>1, <1>9, <2>1, <2>3
<1>11. \A d \in Callers : RecordWritten(d)' => d = c /\ lastWrite'[c] = "ok"
  BY <1>8 DEF RecordWritten
<1>12. file \in Seq(Piece) /\ Len(file) \in Nat
  BY DEF Inv, Types, TypeOK, Piece
<1>13. lastWrite'[c] = "ok" =>
         /\ file' # <<>> /\ Len(file') = Len(file) + 1
         /\ file'[Len(file')] = Whole(m)
  BY <1>5, <1>6, <1>12, AppendProperties
<1>14. \A d \in Callers : RecordWritten(d)' =>
          file' # <<>> /\ file'[Len(file')] = Whole(Pieces(d)[at[d]])'
  BY <1>m, <1>4, <1>11, <1>13
<1>15. (faults' = faults /\ (FreshLine => FreshLine')) \/ faults' = faults + 1
  <2>1. CASE faults' = faults + 1
    BY <2>1
  <2>2. CASE file' = Append(file, Whole(m)) /\ lastWrite'[c] = "ok" /\ faults' = faults
    <3>1. ASSUME FreshLine PROVE LineStart(Len(file))
      BY <1>1, <1>8, <3>1 DEF FreshLine, RecordWritten
    <3>2. ASSUME LineStart(Len(file)) PROVE LineStart(Len(file) - 1)'
      <4>1. Len(file') - 1 = Len(file)
        BY <1>12, <1>13, <2>2
      <4> QED BY <1>6, <1>12, <3>2, <4>1 DEF LineStart
    <3>3. RecordWritten(c)'
      BY <1>8, <2>2 DEF RecordWritten
    <3> QED BY <2>2, <3>1, <3>2, <3>3 DEF FreshLine
  <2>3. lastWrite \in [Callers -> {"ok", "failed"}]
    BY DEF Inv, Types, TypeOK
  <2> QED BY <1>1, <2>1, <2>2, <2>3 DEF Write
<1> QED BY <1>7, <1>10, <1>14, <1>15, DamageKept

(* The newline closes the line of its record, or of the one record that a   *)
(* fault before it had spoiled already.                                     *)
LEMMA NewlineDamage ==
    ASSUME Inv, Damage, NEW c \in Callers, WriteNewline(c)
    PROVE  Damage'
<1>m. PICK m : m = Pieces(c)[at[c]]
  OBVIOUS
<1>1. /\ pc[c] = "newline" /\ pc[c] # "idle" /\ Stay
      /\ lastWrite[c] = "ok" /\ RecordWritten(c)
      /\ Write(c, Newline, {}) /\ UNCHANGED <<synced, acked>>
  BY DEF WriteNewline, RecordWritten
<1>2. /\ calls[c] # <<>> /\ at[c] \in DOMAIN Pieces(c)
  BY <1>1 DEF Inv, Progress, CallProgress, Writing
<1>3. /\ Pieces(c) \in Seq(StoredMessage) /\ m \in StoredMessage
      /\ DOMAIN Pieces(c) = 1..Len(Pieces(c)) /\ Len(Pieces(c)) \in Nat
      /\ at[c] \in Nat /\ at[c] >= 1
  BY <1>m, <1>2, CallPieces DEF Inv
<1>4. Pieces(c)' = Pieces(c) /\ at \in [Callers -> Nat]
  BY <1>1 DEF Stay, Pieces, Inv, Types
<1>5. Newline \in Piece /\ {} \in SUBSET TornPiece
  BY PieceKinds
<1>6. /\ file' \in Seq(Piece) /\ Len(file) <= Len(file')
      /\ \A i \in 1..Len(file) : file'[i] = file[i]
      /\ lastWrite'[c] = "ok" => file' = Append(file, Newline)
      /\ lastWrite' \in [Callers -> {"ok", "failed"}]
  BY <1>1, <1>5, WriteGrows DEF Inv
<1>7. \A x : Closed(x) => Closed(x)'
  BY <1>6, GrowthKeeps
<1>8. /\ pc'[c] \in {"payload", "flush"}
      /\ pc'[c] = "payload" => at'[c] = at[c] + 1
      /\ pc'[c] = "flush" => at'[c] = at[c] /\ at[c] = Len(Pieces(c))
      /\ \A d \in Callers : d # c => pc[d] = "idle" /\ pc'[d] = "idle"
  BY <1>1, <1>2, <1>3, <1>4, Alone DEF WriteNewline, Inv, Types, TypeOK, Goto
<1>9. \A d \in Callers : ~RecordWritten(d)'
  BY <1>8 DEF RecordWritten
<1>10. Sent(c)' \subseteq Sent(c) \cup (IF lastWrite'[c] = "ok" THEN {m} ELSE {})
  <2>1. CASE lastWrite'[c] # "ok"
    BY <2>1 DEF Sent
  <2>2. ASSUME lastWrite'[c] = "ok", NEW x \in Sent(c)' PROVE x \in Sent(c) \cup {m}
    <3>1. PICK i \in DOMAIN Pieces(c) :
              x = Pieces(c)[i] /\ (i < at'[c] \/ pc'[c] = "flush")
      BY <1>4, <2>2 DEF Sent
    <3>2. i < at[c] \/ i = at[c]
      BY <1>3, <1>8, <3>1
    <3>3. x \in StoredMessage
      BY <2>2 DEF Sent
    <3> QED BY <1>m, <1>1, <3>1, <3>2, <3>3 DEF Sent, Writing
  <2> QED BY <2>1, <2>2
<1>11. Tally' \subseteq Tally \cup (IF lastWrite'[c] = "ok" THEN {m} ELSE {})
  <2>1. Tally = acked \cup Sent(c)
    BY <1>8, TallyOfOne
  <2>2. \A d \in Callers : d # c => Sent(d)' = {}
    BY <1>8 DEF Sent, Writing
  <2>3. Tally' = acked' \cup Sent(c)'
    BY <2>2 DEF Tally
  <2> QED BY <1>1, <1>10, <2>1, <2>3
<1>12. CASE faults' = faults + 1 /\ lastWrite'[c] = "failed"
  BY <1>7, <1>9, <1>11, <1>12, DamageKept
<1>13. CASE file' = Append(file, Newline) /\ faults' = faults /\ lastWrite'[c] = "ok"
  <2>1. file \in Seq(Piece) /\ Len(file) \in Nat
    BY DEF Inv, Types, TypeOK, Piece
  <2>2. Len(file') = Len(file) + 1 /\ file'[Len(file) + 1] = Newline
    BY <1>5, <1>13, <2>1, AppendProperties
  <2>3. FreshLine'
    BY <2>1, <2>2 DEF FreshLine, LineStart
  <2>4. file # <<>> /\ file[Len(file)] = Whole(m)
    BY <1>m, <1>1 DEF Damage
  <2>5. Len(file) \in 1..Len(file) /\ file[Len(file)] # Newline
    BY <2>1, <2>4, PieceKinds
  <2>6. ASSUME FreshLine PROVE Closed(m)'
    <3>1. LineStart(Len(file) - 1)
      BY <2>1, <2>5, <2>6 DEF FreshLine, LineStart
    <3>2. /\ file'[Len(file)] = Whole(m) /\ Len(file) \in 1..(Len(file') - 1)
          /\ Len(file) = 1 \/ file'[Len(file) - 1] = Newline
      <4> DEFINE n == Len(file)
      <4>1. file[n] = Whole(m) /\ (n - 1 = 0 \/ file[n - 1] = Newline)
        BY <2>4, <3>1 DEF LineStart
      <4>2. /\ n \in Nat /\ n \in 1..n /\ Len(file') = n + 1
            /\ \A i \in 1..n : file'[i] = file[i]
        BY <1>6, <2>1, <2>2, <2>5
      <4> HIDE DEF n
      <4>3. n = 1 \/ (n - 1 \in 1..n /\ file[n - 1] = Newline)
        BY <4>1, <4>2
      <4> QED BY <4>1, <4>2, <4>3 DEF n
    <3> QED BY <2>2, <3>2 DEF Closed
  <2>7. IsFiniteSet(Tally) /\ IsFiniteSet(Tally \cup {m})
    BY FS_AddElement DEF Damage
  <2>8. IsFiniteSet(Tally')
    BY <1>11, <1>13, <2>7, FS_Subset
  <2>9. IsFiniteSet(Spoiled) /\ Cardinality(Spoiled) \in Nat
    <3>1. Spoiled \subseteq Tally
      BY DEF Spoiled
    <3> QED BY <2>7, <3>1, FS_Subset, FS_CardinalityType
  <2>10. /\ Cardinality(Spoiled) <= faults /\ faults \in Nat
         /\ ~FreshLine => Cardinality(Spoiled) < faults
    BY SingleFileAssumption DEF Damage, Inv, Types, TypeOK
  <2>11. Cardinality(Spoiled') <= faults
    <3>1. CASE FreshLine
      <4>1. Spoiled' \subseteq Spoiled
        BY <1>7, <1>11, <1>13, <2>6, <3>1 DEF Spoiled
      <4>2. IsFiniteSet(Spoiled') /\ Cardinality(Spoiled') <= Cardinality(Spoiled)
        BY <2>9, <4>1, FS_Subset
      <4> QED BY <2>9, <2>10, <4>2, FS_CardinalityType
    <3>2. CASE ~FreshLine
      <4>1. Spoiled' \subseteq Spoiled \cup {m}
        BY <1>7, <1>11, <1>13 DEF Spoiled
      <4>2. /\ IsFiniteSet(Spoiled \cup {m})
            /\ Cardinality(Spoiled \cup {m}) \in {Cardinality(Spoiled), Cardinality(Spoiled) + 1}
        BY <2>9, FS_AddElement
      <4>3. /\ IsFiniteSet(Spoiled')
            /\ Cardinality(Spoiled') <= Cardinality(Spoiled \cup {m})
        BY <4>1, <4>2, FS_Subset
      <4>4. Cardinality(Spoiled') \in Nat
        BY <4>3, FS_CardinalityType
      <4> QED BY <2>9, <2>10, <3>2, <4>2, <4>3, <4>4
    <3> QED BY <3>1, <3>2
  <2> QED BY <1>9, <1>13, <2>3, <2>8, <2>11 DEF Damage
<1>14. lastWrite \in [Callers -> {"ok", "failed"}]
  BY DEF Inv, Types, TypeOK
<1> QED BY <1>1, <1>12, <1>13, <1>14 DEF Write

LEMMA FlushDamage ==
    ASSUME Inv, Damage, NEW c \in Callers, FlushHandle(c)
    PROVE  Damage'
<1>1. /\ pc[c] = "flush" /\ pc[c] # "idle" /\ lastWrite[c] = "ok" /\ Return(c)
      /\ acked' = acked \cup Messages(c) /\ UNCHANGED <<file, faults>>
      /\ ~RecordWritten(c)
  BY DEF FlushHandle, RecordWritten
<1>2. Messages(c) \subseteq StoredMessage
  BY <1>1, AllWritten DEF WholeIn
<1>3. Messages(c) \subseteq Sent(c)
  BY <1>1, <1>2 DEF Messages, Sent, Writing
<1>4. acked' \subseteq Tally
  BY <1>1, <1>3 DEF Tally
<1> QED BY <1>1, <1>4, DamageReturn

LEMMA OpenDamage ==
    ASSUME Inv, Damage, NEW c \in Callers, Open(c)
    PROVE  Damage'
<1>1. /\ pc[c] = "open" /\ pc[c] # "idle" /\ ~RecordWritten(c)
      /\ UNCHANGED <<file, acked>>
  BY DEF Open, RecordWritten
<1>2. acked \subseteq Tally
  BY DEF Tally
<1>3. CASE faults' = faults + 1 /\ Return(c)
  BY <1>1, <1>2, <1>3, DamageReturn
<1>4. CASE /\ Goto(c, IF Op(c) = "flush" THEN "sync" ELSE "payload")
           /\ at' = [at EXCEPT ![c] = 1]
           /\ Stay /\ UNCHANGED <<lastWrite, faults>>
  <2>1. /\ pc'[c] \in {"sync", "payload"} /\ at'[c] = 1
        /\ \A d \in Callers : d # c => pc[d] = "idle" /\ pc'[d] = "idle"
    BY <1>1, <1>4, Alone DEF Inv, Types, TypeOK, Goto
  <2>2. calls[c] # <<>> /\ Op(c) \in {"message", "batch", "flush"}
    BY <1>1, CallPieces DEF Inv, Progress, CallProgress
  <2>3. Sent(c)' = {}
    <3>1. CASE Op(c) = "flush"
      BY <1>1, <1>4, <3>1 DEF Sent, Writing, Inv, Types, TypeOK, Goto
    <3>2. CASE Op(c) # "flush"
      <4>1. Pieces(c) \in Seq(StoredMessage) /\ Pieces(c)' = Pieces(c)
        BY <1>4, <2>2, CallPieces DEF Inv, Stay, Pieces
      <4>2. \A i \in DOMAIN Pieces(c)' : ~(i < at'[c])
        BY <2>1, <4>1
      <4>3. pc'[c] # "flush"
        BY <2>1
      <4> QED BY <4>2, <4>3 DEF Sent
    <3> QED BY <3>1, <3>2
  <2>4. Tally' \subseteq Tally
    <3>1. \A d \in Callers : d # c => Sent(d)' = {}
      BY <2>1 DEF Sent, Writing
    <3> QED BY <1>1, <2>3, <3>1 DEF Tally
  <2>5. \A d \in Callers : ~RecordWritten(d) /\ ~RecordWritten(d)'
    BY <1>1, <2>1 DEF RecordWritten
  <2> QED BY <1>1, <1>4, <2>4, <2>5, DamageStill
<1> QED BY <1>3, <1>4 DEF Open

(* The step of a caller that does not hold the mutex leaves the call of the *)
(* one that does as it is.                                                  *)
LEMMA OutsideDamage ==
    ASSUME Inv, Damage, NEW c \in Callers, pc[c] = "idle",
           pc' = pc \/ Goto(c, "open"), UNCHANGED <<file, at, lastWrite, acked>>,
           \A d \in Callers : d # c => calls'[d] = calls[d],
           faults' \in {faults, faults + 1}
    PROVE  Damage'
<1>1. \A d \in Callers : pc'[d] \in Writing \/ pc[d] \in Writing =>
          d # c /\ pc'[d] = pc[d] /\ calls'[d] = calls[d]
  BY DEF Inv, Types, TypeOK, Goto, Writing
<1>2. \A d \in Callers : Sent(d)' = Sent(d)
  <2> SUFFICES ASSUME NEW d \in Callers PROVE Sent(d)' = Sent(d)
    OBVIOUS
  <2>1. CASE pc'[d] \in Writing \/ pc[d] \in Writing
    <3>1. Pieces(d)' = Pieces(d) /\ pc'[d] = pc[d] /\ UNCHANGED <<at, lastWrite>>
      BY <1>1, <2>1 DEF Pieces
    <3> QED BY <3>1 DEF Sent
  <2>2. CASE pc'[d] \notin Writing /\ pc[d] \notin Writing
    BY <2>2 DEF Sent
  <2> QED BY <2>1, <2>2
<1>3. Tally' \subseteq Tally
  BY <1>2 DEF Tally
<1>4. \A d \in Callers : RecordWritten(d)' <=> RecordWritten(d)
  BY <1>1 DEF RecordWritten, Writing
<1>5. \A d \in Callers : RecordWritten(d) => calls'[d] = calls[d] /\ at'[d] = at[d]
  BY <1>1 DEF RecordWritten, Writing
<1> QED BY <1>3, <1>4, <1>5, DamageStill

(* A crash forgets what was acknowledged. *)
LEMMA CrashDamage ==
    ASSUME Inv, Crash
    PROVE  Damage'
<1>1. /\ pc' = [c \in Callers |-> "idle"] /\ acked' = {} /\ faults' = faults + 1
      /\ faults \in Nat
  BY SingleFileAssumption DEF Crash, Inv, Types, TypeOK
<1>2. Tally' = {}
  <2>1. \A c \in Callers : Sent(c)' = {}
    BY <1>1 DEF Sent, Writing
  <2> QED BY <1>1, <2>1 DEF Tally
<1>3. Spoiled' = {}
  BY <1>2 DEF Spoiled
<1>4. IsFiniteSet({}) /\ Cardinality({}) = 0
  BY FS_EmptySet
<1>5. \A c \in Callers : ~RecordWritten(c)'
  BY <1>1 DEF RecordWritten
<1> QED BY <1>1, <1>2, <1>3, <1>4, <1>5 DEF Damage

LEMMA InitDamage == Init => Damage
<1> SUFFICES ASSUME Init PROVE Damage
  OBVIOUS
<1>1. Tally = {}
  BY DEF Init, Tally, Sent, Writing
<1>2. Spoiled = {} /\ IsFiniteSet({}) /\ Cardinality({}) = 0
  BY <1>1, FS_EmptySet DEF Spoiled
<1>3. FreshLine
  BY DEF Init, FreshLine, LineStart
<1>4. faults = 0 /\ \A c \in Callers : ~RecordWritten(c)
  BY DEF Init, RecordWritten
<1> QED BY <1>1, <1>2, <1>3, <1>4 DEF Damage

LEMMA DamageNext == Inv /\ Damage /\ [Next]_vars => Damage'
<1> SUFFICES ASSUME Inv, Damage, [Next]_vars PROVE Damage'
  OBVIOUS
<1>t. acked \subseteq Tally /\ calls \in [Callers -> Seq(Call)]
  BY DEF Tally, Inv, Types
<1>1. ASSUME NEW c \in Callers, StoreNothing(c) \/ SerializeFails(c) PROVE Damage'
  BY <1>1, <1>t, OutsideDamage DEF StoreNothing, SerializeFails
<1>2. ASSUME NEW c \in Callers, Lock(c) PROVE Damage'
  BY <1>2, OutsideDamage DEF Lock
<1>3. ASSUME NEW c \in Callers, ReportFailure(c) PROVE Damage'
  <2>1. pc[c] # "idle" /\ ~RecordWritten(c)
    BY <1>3 DEF ReportFailure, RecordWritten
  <2> QED BY <1>3, <1>t, <2>1, DamageReturn DEF ReportFailure
<1>4. ASSUME NEW c \in Callers, SyncAll(c) PROVE Damage'
  <2>1. pc[c] # "idle" /\ ~RecordWritten(c)
    BY <1>4 DEF SyncAll, RecordWritten
  <2> QED BY <1>4, <1>t, <2>1, DamageReturn DEF SyncAll
<1>5. CASE UNCHANGED vars
  <2>1. Tally' \subseteq Tally /\ \A c \in Callers : RecordWritten(c)' <=> RecordWritten(c)
    BY <1>5 DEF vars, Tally, Sent, Pieces, RecordWritten
  <2> QED BY <1>5, <2>1, DamageStill DEF vars
<1> QED BY <1>1, <1>2, <1>3, <1>4, <1>5, OpenDamage, PayloadDamage, NewlineDamage,
           FlushDamage, CrashDamage DEF Next, Step

(* However many faults there are, each spoils at most one of the messages   *)
(* whose store returned Ok: the one that lands on the line the fault left   *)
(* open.                                                                    *)
THEOREM SingleFileDamageIsLocal == Spec => []DamageIsLocal
<1>1. Inv /\ Damage => DamageIsLocal
  <2> SUFFICES ASSUME Inv, Damage PROVE DamageIsLocal
    OBVIOUS
  <2> DEFINE lost == {m \in acked : ~HasLine(m)}
  <2>1. ASSUME NEW m, Closed(m) PROVE HasLine(m)
    <3>1. PICK i \in 1..(Len(file) - 1) :
              /\ file[i] = Whole(m)
              /\ i = 1 \/ file[i - 1] = Newline
              /\ file[i + 1] = Newline
      BY <2>1 DEF Closed
    <3>2. file \in Seq(Piece)
      BY DEF Inv, Types, TypeOK, Piece
    <3>3. i \in DOMAIN file
      BY <3>2
    <3> QED BY <3>1, <3>3 DEF HasLine, HasOwnLine, Whole
  <2>2. lost \subseteq Spoiled /\ Spoiled \subseteq Tally
    BY <2>1 DEF Spoiled, Tally
  <2>3. IsFiniteSet(Spoiled)
    BY <2>2, FS_Subset DEF Damage
  <2>4. IsFiniteSet(lost) /\ Cardinality(lost) <= Cardinality(Spoiled)
    BY <2>2, <2>3, FS_Subset
  <2>5. /\ Cardinality(lost) \in Nat /\ Cardinality(Spoiled) \in Nat
        /\ faults \in Nat /\ Cardinality(Spoiled) <= faults
    BY <2>3, <2>4, FS_CardinalityType, SingleFileAssumption
    DEF Damage, Inv, Types, TypeOK
  <2> QED BY <2>4, <2>5 DEF DamageIsLocal
<1> QED BY <1>1, InitDamage, DamageNext, SingleFileInvariant, PTL DEF Spec

-----------------------------------------------------------------------------
(* The statistics.  A batch is counted message by message while it is       *)
(* written, a single message after its flush: what is acknowledged is       *)
(* counted before, and a count that is too high has a fault to show for it. *)

CallCounted(c) ==
    /\ pc[c] \in Writing => Op(c) # "flush"
    /\ pc[c] \in {"payload", "newline"} /\ Op(c) = "batch" =>
          Cardinality(acked) + at[c] - 1 <= counted
    /\ pc[c] = "flush" /\ Op(c) = "batch" => Cardinality(acked) + at[c] <= counted
    /\ pc[c] = "flush" /\ Op(c) = "message" => counted < Cardinality(Newlines) + faults

Counting ==
    /\ counted \in Cardinality(acked)..(Cardinality(Newlines) + faults)
    /\ \A c \in Callers : CallCounted(c)

LEMMA CountsFinite ==
    ASSUME Inv, Damage
    PROVE  /\ IsFiniteSet(acked) /\ Cardinality(acked) \in Nat
           /\ IsFiniteSet(Newlines) /\ Cardinality(Newlines) \in Nat
           /\ counted \in Nat /\ faults \in Nat /\ at \in [Callers -> Nat]
<1>1. acked \subseteq Tally
  BY DEF Tally
<1>2. IsFiniteSet(acked) /\ Cardinality(acked) \in Nat
  BY <1>1, FS_Subset, FS_CardinalityType DEF Damage
<1>3. Newlines \subseteq 1..Len(file) /\ Len(file) \in Nat
  BY DEF Newlines, Inv, Types, TypeOK
<1>4. IsFiniteSet(1..Len(file))
  BY <1>3, FS_Interval
<1>5. IsFiniteSet(Newlines) /\ Cardinality(Newlines) \in Nat
  BY <1>3, <1>4, FS_Subset, FS_CardinalityType
<1> QED BY <1>2, <1>5, SingleFileAssumption DEF Inv, Types, TypeOK

(* A step that counts nothing and acknowledges nothing, and changes no call *)
(* that is being written.                                                   *)
LEMMA CountingStill ==
    ASSUME Inv, Damage, Counting, UNCHANGED <<file, counted, acked>>,
           faults' \in {faults, faults + 1},
           \A c \in Callers : pc'[c] \in Writing =>
              pc'[c] = pc[c] /\ at'[c] = at[c] /\ calls'[c] = calls[c]
    PROVE  Counting'
<1>1. /\ Cardinality(acked) \in Nat /\ Cardinality(Newlines) \in Nat
      /\ counted \in Nat /\ faults \in Nat /\ at \in [Callers -> Nat]
  BY CountsFinite
<1>2. Newlines' = Newlines
  BY DEF Newlines
<1>3. counted' \in Cardinality(acked')..(Cardinality(Newlines') + faults')
  BY <1>1, <1>2 DEF Counting
<1>4. ASSUME NEW c \in Callers PROVE CallCounted(c)'
  <2>1. CASE pc'[c] \notin Writing
    BY <2>1 DEF CallCounted, Writing
  <2>2. CASE pc'[c] \in Writing
    <3>1. /\ pc'[c] = pc[c] /\ at'[c] = at[c] /\ Op(c)' = Op(c)
      BY <2>2 DEF Op
    <3>2. CallCounted(c)
      BY DEF Counting
    <3>3. pc[c] = "flush" /\ Op(c) = "message" =>
              counted' < Cardinality(Newlines') + faults'
      BY <1>1, <1>2, <3>2 DEF CallCounted
    <3> QED BY <3>1, <3>2, <3>3 DEF CallCounted
  <2> QED BY <2>1, <2>2
<1> QED BY <1>3, <1>4 DEF Counting

LEMMA CountingReturn ==
    ASSUME Inv, Damage, Counting, NEW c \in Callers, pc[c] # "idle", Return(c),
           UNCHANGED <<file, counted, acked>>, faults' \in {faults, faults + 1}
    PROVE  Counting'
<1>1. \A d \in Callers : pc'[d] = "idle"
  BY Alone DEF Inv, Types, TypeOK, Return, Goto
<1> QED BY <1>1, CountingStill DEF Writing

LEMMA OpenCounting ==
    ASSUME Inv, Damage, Counting, NEW c \in Callers, Open(c)
    PROVE  Counting'
<1>1. /\ pc[c] = "open" /\ pc[c] # "idle" /\ UNCHANGED <<file, counted, acked>>
  BY DEF Open
<1>2. CASE faults' = faults + 1 /\ Return(c)
  BY <1>1, <1>2, CountingReturn
<1>3. CASE /\ Goto(c, IF Op(c) = "flush" THEN "sync" ELSE "payload")
           /\ at' = [at EXCEPT ![c] = 1]
           /\ Stay /\ UNCHANGED <<lastWrite, faults>>
  <2>1. /\ pc'[c] = (IF Op(c) = "flush" THEN "sync" ELSE "payload") /\ at'[c] = 1
        /\ \A d \in Callers : d # c => pc'[d] = "idle"
        /\ Op(c)' = Op(c)
    BY <1>1, <1>3, Alone DEF Inv, Types, TypeOK, Goto, Stay, Op
  <2>2. /\ Cardinality(acked) \in Nat /\ counted \in Nat
        /\ counted \in Cardinality(acked)..(Cardinality(Newlines) + faults)
    BY CountsFinite DEF Counting
  <2>3. Cardinality(acked') + at'[c] - 1 <= counted'
    BY <1>1, <2>1, <2>2
  <2>4. CallCounted(c)'
    BY <2>1, <2>3 DEF CallCounted, Writing
  <2>5. \A d \in Callers : d # c => CallCounted(d)'
    BY <2>1 DEF CallCounted, Writing
  <2>6. counted' \in Cardinality(acked')..(Cardinality(Newlines') + faults')
    BY <1>1, <1>3, <2>2 DEF Newlines
  <2> QED BY <2>4, <2>5, <2>6 DEF Counting
<1> QED BY <1>2, <1>3 DEF Open

LEMMA PayloadCounting ==
    ASSUME Inv, Damage, Counting, NEW c \in Callers, WritePayload(c)
    PROVE  Counting'
<1>m. PICK m : m = Pieces(c)[at[c]]
  OBVIOUS
<1>1. /\ pc[c] = "payload" /\ pc[c] # "idle" /\ Goto(c, "newline") /\ Stay
      /\ Write(c, Whole(m), {Torn(m)}) /\ UNCHANGED <<at, counted, acked>>
  BY <1>m DEF WritePayload
<1>2. calls[c] # <<>> /\ at[c] \in DOMAIN Pieces(c)
  BY <1>1 DEF Inv, Progress, CallProgress, Writing
<1>3. Whole(m) \in Piece /\ {Torn(m)} \in SUBSET TornPiece
  BY <1>m, <1>2, CallPieces, PieceKinds DEF Inv
<1>4. /\ Cardinality(Newlines) \in Nat /\ Cardinality(Newlines') \in Nat
      /\ Cardinality(Newlines) <= Cardinality(Newlines')
  BY <1>1, <1>3, WriteGrows, GrowthKeeps DEF Inv
<1>5. /\ Cardinality(acked) \in Nat /\ counted \in Nat /\ faults \in Nat
      /\ counted \in Cardinality(acked)..(Cardinality(Newlines) + faults)
  BY CountsFinite DEF Counting
<1>6. faults' \in {faults, faults + 1}
  BY <1>1 DEF Write
<1>7. /\ pc'[c] = "newline" /\ at' = at /\ Op(c)' = Op(c)
      /\ \A d \in Callers : d # c => pc'[d] = "idle"
  BY <1>1, Alone DEF Inv, Types, TypeOK, Goto, Stay, Op
<1>8. CallCounted(c)
  BY DEF Counting
<1>9. CallCounted(c)'
  BY <1>1, <1>7, <1>8 DEF CallCounted, Writing
<1>10. \A d \in Callers : d # c => CallCounted(d)'
  BY <1>7 DEF CallCounted, Writing
<1>11. counted' \in Cardinality(acked')..(Cardinality(Newlines') + faults')
  BY <1>1, <1>4, <1>5, <1>6
<1> QED BY <1>9, <1>10, <1>11 DEF Counting

LEMMA NewlineCounting ==
    ASSUME Inv, Damage, Counting, NEW c \in Callers, WriteNewline(c)
    PROVE  Counting'
<1>1. /\ pc[c] = "newline" /\ pc[c] # "idle" /\ Stay
      /\ Write(c, Newline, {}) /\ UNCHANGED acked
      /\ counted' = IF Op(c) = "batch" THEN counted + 1 ELSE counted
  BY DEF WriteNewline
<1>2. calls[c] # <<>> /\ at[c] \in DOMAIN Pieces(c)
  BY <1>1 DEF Inv, Progress, CallProgress, Writing
<1>3. /\ DOMAIN Pieces(c) = 1..Len(Pieces(c)) /\ Len(Pieces(c)) \in Nat
      /\ at[c] \in Nat /\ Op(c) \in {"message", "batch", "flush"}
  BY <1>2, CallPieces DEF Inv
<1>4. Newline \in Piece /\ {} \in SUBSET TornPiece
  BY PieceKinds
<1>5. /\ file' \in Seq(Piece) /\ Len(file) <= Len(file')
      /\ \A i \in 1..Len(file) : file'[i] = file[i]
  BY <1>1, <1>4, WriteGrows DEF Inv
<1>6. /\ Newlines \subseteq Newlines' /\ IsFiniteSet(Newlines)
      /\ Cardinality(Newlines) \in Nat /\ Cardinality(Newlines') \in Nat
      /\ Cardinality(Newlines) <= Cardinality(Newlines')
  BY <1>5, GrowthKeeps
<1>7. /\ Cardinality(acked) \in Nat /\ counted \in Nat /\ faults \in Nat
      /\ counted \in Cardinality(acked)..(Cardinality(Newlines) + faults)
  BY CountsFinite DEF Counting
<1>8. Cardinality(Newlines) + faults + 1 <= Cardinality(Newlines') + faults'
  <2>1. CASE faults' = faults + 1
    BY <1>6, <1>7, <2>1
  <2>2. CASE file' = Append(file, Newline) /\ faults' = faults
    <3>1. file \in Seq(Piece) /\ Len(file) \in Nat
      BY DEF Inv, Types, TypeOK, Piece
    <3>2. Len(file') = Len(file) + 1 /\ file'[Len(file) + 1] = Newline
      BY <1>4, <2>2, <3>1, AppendProperties
    <3>3. Len(file) + 1 \notin Newlines
      BY <3>1 DEF Newlines
    <3>4. Len(file) + 1 \in Newlines'
      BY <1>5, <3>1, <3>2 DEF Newlines
    <3>5. PICK x : x = Len(file) + 1
      OBVIOUS
    <3>6. /\ Cardinality(Newlines \cup {x}) = Cardinality(Newlines) + 1
          /\ IsFiniteSet(Newlines')
      BY <1>5, <1>6, <3>3, <3>5, FS_AddElement, GrowthKeeps
    <3>7. Newlines \cup {x} \subseteq Newlines'
      BY <1>6, <3>4, <3>5
    <3>8. Cardinality(Newlines \cup {x}) <= Cardinality(Newlines')
      BY <3>6, <3>7, FS_Subset
    <3> QED BY <1>6, <1>7, <2>2, <3>6, <3>8
  <2> QED BY <1>1, <2>1, <2>2 DEF Write
<1>9. faults' \in Nat
  BY <1>1, <1>7 DEF Write
<1>10. counted' \in Cardinality(acked')..(Cardinality(Newlines') + faults')
  BY <1>1, <1>6, <1>7, <1>8, <1>9
<1>11. CallCounted(c)
  BY DEF Counting
<1>12. /\ pc'[c] \in {"payload", "flush"} /\ Op(c)' = Op(c)
       /\ pc'[c] = "payload" => at'[c] = at[c] + 1
       /\ pc'[c] = "flush" => at'[c] = at[c]
       /\ \A d \in Callers : d # c => pc'[d] = "idle"
  BY <1>1, Alone DEF WriteNewline, Inv, Types, TypeOK, Goto, Stay, Op
<1>13. CallCounted(c)'
  <2>1. Op(c)' # "flush"
    BY <1>1, <1>11, <1>12 DEF CallCounted, Writing
  <2>2. ASSUME Op(c) = "batch"
        PROVE  Cardinality(acked) + at[c] <= counted'
    <3>1. Cardinality(acked) + at[c] - 1 <= counted /\ counted' = counted + 1
      BY <1>1, <1>11, <2>2 DEF CallCounted
    <3> QED BY <1>3, <1>7, <3>1
  <2>3. ASSUME Op(c) = "batch", pc'[c] = "payload"
        PROVE  Cardinality(acked') + at'[c] - 1 <= counted'
    BY <1>1, <1>3, <1>7, <1>12, <2>2, <2>3
  <2>4. ASSUME Op(c) = "batch", pc'[c] = "flush"
        PROVE  Cardinality(acked') + at'[c] <= counted'
    BY <1>1, <1>12, <2>2, <2>4
  <2>5. ASSUME Op(c) = "message"
        PROVE  counted' < Cardinality(Newlines') + faults'
    BY <1>1, <1>6, <1>7, <1>8, <1>9, <2>5
  <2> QED BY <1>12, <2>1, <2>3, <2>4, <2>5 DEF CallCounted
<1>14. \A d \in Callers : d # c => CallCounted(d)'
  BY <1>12 DEF CallCounted, Writing
<1> QED BY <1>10, <1>13, <1>14 DEF Counting

(* A store call acknowledges at most as many messages as it wrote. *)
LEMMA MessagesBounded ==
    ASSUME Inv, NEW c \in Callers, pc[c] = "flush"
    PROVE  /\ IsFiniteSet(Messages(c))
           /\ Cardinality(Messages(c)) \in Nat
           /\ Cardinality(Messages(c)) <= at[c]
           /\ Op(c) = "message" => Cardinality(Messages(c)) <= 1
<1>1. calls[c] # <<>> /\ at[c] = Len(Pieces(c))
  BY DEF Inv, Progress, CallProgress
<1>2. Pieces(c) \in Seq(StoredMessage)
  BY <1>1, CallPieces DEF Inv
<1> DEFINE I == 1..Len(Pieces(c))
           f[i \in I] == Pieces(c)[i]
<1>3. f \in Surjection(I, Messages(c))
  BY <1>2 DEF Messages, Surjection
<1>4. IsFiniteSet(I) /\ Cardinality(I) = Len(Pieces(c))
  <2>1. Len(Pieces(c)) \in Nat
    BY <1>2
  <2>2. /\ IsFiniteSet(1..Len(Pieces(c)))
        /\ 1 <= Len(Pieces(c)) => Cardinality(1..Len(Pieces(c))) = Len(Pieces(c))
        /\ 1 > Len(Pieces(c)) => Cardinality(1..Len(Pieces(c))) = 0
    BY <2>1, FS_Interval
  <2> QED BY <2>1, <2>2
<1>5. /\ IsFiniteSet(Messages(c))
      /\ Cardinality(Messages(c)) <= Cardinality(I)
  <2> HIDE DEF I, f
  <2> QED BY <1>3, <1>4, FS_Surjection
<1>6. Op(c) = "message" => Len(Pieces(c)) = 1
  <2>1. calls[c] \in Seq(Call)
    BY DEF Inv, Types
  <2>2. calls[c][1] \in Call
    BY <1>1, <2>1
  <2> QED BY <2>2 DEF Call, Op, Pieces
<1> HIDE DEF I, f
<1> QED BY <1>1, <1>4, <1>5, <1>6, FS_CardinalityType

(* When a call returns nobody is writing, so the bounds are all there is. *)
LEMMA ReturnedCounts ==
    ASSUME Inv, NEW c \in Callers, pc[c] # "idle", Return(c),
           UNCHANGED <<file, faults>>,
           counted' \in Cardinality(acked')..(Cardinality(Newlines) + faults)
    PROVE  Counting'
<1>1. \A d \in Callers : pc'[d] = "idle"
  BY Alone DEF Inv, Types, TypeOK, Return, Goto
<1>2. \A d \in Callers : CallCounted(d)'
  BY <1>1 DEF CallCounted, Writing
<1>3. Newlines' = Newlines
  BY DEF Newlines
<1> QED BY <1>2, <1>3 DEF Counting

LEMMA FlushCounting ==
    ASSUME Inv, Damage, Counting, NEW c \in Callers, FlushHandle(c)
    PROVE  Counting'
<1>1. /\ pc[c] = "flush" /\ pc[c] # "idle" /\ Return(c)
      /\ counted' = IF Op(c) = "message" THEN counted + 1 ELSE counted
      /\ acked' = acked \cup Messages(c) /\ UNCHANGED <<file, faults>>
  BY DEF FlushHandle
<1>2. /\ IsFiniteSet(acked) /\ Cardinality(acked) \in Nat /\ counted \in Nat
      /\ faults \in Nat /\ at[c] \in Nat /\ Cardinality(Newlines) \in Nat
      /\ counted \in Cardinality(acked)..(Cardinality(Newlines) + faults)
  BY CountsFinite DEF Counting
<1>3. /\ IsFiniteSet(Messages(c)) /\ Cardinality(Messages(c)) \in Nat
      /\ Cardinality(Messages(c)) <= at[c]
      /\ Op(c) = "message" => Cardinality(Messages(c)) <= 1
  BY <1>1, MessagesBounded
<1>4. /\ IsFiniteSet(acked') /\ Cardinality(acked') \in Nat
      /\ Cardinality(acked') <= Cardinality(acked) + Cardinality(Messages(c))
  <2>1. /\ IsFiniteSet(acked \cup Messages(c))
        /\ Cardinality(acked \cup Messages(c)) =
              Cardinality(acked) + Cardinality(Messages(c))
                - Cardinality(acked \cap Messages(c))
    BY <1>2, <1>3, FS_Union
  <2>2. Cardinality(acked \cap Messages(c)) \in Nat
    BY <1>2, <1>3, FS_Intersection, FS_CardinalityType
  <2>3. Cardinality(acked \cup Messages(c)) \in Nat
    BY <2>1, FS_CardinalityType
  <2> QED BY <1>1, <1>2, <1>3, <2>1, <2>2, <2>3
<1>5. CallCounted(c) /\ Op(c) \in {"message", "batch", "flush"}
  BY <1>1, CallPieces DEF Counting, Inv, Progress, CallProgress
<1>6. CASE Op(c) = "message"
  <2>1. counted' = counted + 1 /\ counted < Cardinality(Newlines) + faults
    BY <1>1, <1>5, <1>6 DEF CallCounted
  <2>2. counted' \in Cardinality(acked')..(Cardinality(Newlines) + faults)
    BY <1>2, <1>3, <1>4, <1>6, <2>1
  <2> QED BY <1>1, <2>2, ReturnedCounts
<1>7. CASE Op(c) = "batch"
  <2>1. counted' = counted /\ Cardinality(acked) + at[c] <= counted
    BY <1>1, <1>5, <1>7 DEF CallCounted
  <2>2. counted' \in Cardinality(acked')..(Cardinality(Newlines) + faults)
    BY <1>2, <1>3, <1>4, <2>1
  <2> QED BY <1>1, <2>2, ReturnedCounts
<1> QED BY <1>1, <1>5, <1>6, <1>7 DEF CallCounted, Writing

LEMMA CrashCounting ==
    ASSUME Inv, Crash
    PROVE  Counting'
<1>1. /\ pc' = [c \in Callers |-> "idle"] /\ acked' = {} /\ counted' = 0
      /\ faults' \in Nat
  BY SingleFileAssumption DEF Crash, Inv, Types, TypeOK
<1>2. file' \in Seq(Piece)
  BY CrashFile
<1>3. Newlines' \subseteq 1..Len(file') /\ Len(file') \in Nat
  BY <1>2 DEF Newlines
<1>4. Cardinality(Newlines') \in Nat
  <2>1. IsFiniteSet(1..Len(file'))
    BY <1>3, FS_Interval
  <2> QED BY <1>3, <2>1, FS_Subset, FS_CardinalityType
<1>5. Cardinality(acked') = 0
  BY <1>1, FS_EmptySet
<1>6. counted' \in Cardinality(acked')..(Cardinality(Newlines') + faults')
  BY <1>1, <1>4, <1>5
<1>7. \A c \in Callers : CallCounted(c)'
  BY <1>1 DEF CallCounted, Writing
<1> QED BY <1>6, <1>7 DEF Counting

LEMMA InitCounting == Init => Counting
<1> SUFFICES ASSUME Init PROVE Counting
  OBVIOUS
<1>1. Newlines = {} /\ acked = {} /\ counted = 0 /\ faults = 0
  BY DEF Init, Newlines
<1>2. Cardinality({}) = 0
  BY FS_EmptySet
<1>3. \A c \in Callers : CallCounted(c)
  BY DEF Init, CallCounted, Writing
<1> QED BY <1>1, <1>2, <1>3 DEF Counting

LEMMA CountingNext == Inv /\ Damage /\ Counting /\ [Next]_vars => Counting'
<1> SUFFICES ASSUME Inv, Damage, Counting, [Next]_vars PROVE Counting'
  OBVIOUS
<1>t. /\ pc \in [Callers -> {"idle"} \cup InCall]
      /\ calls \in [Callers -> Seq(Call)]
  BY DEF Inv, Types, TypeOK
<1>1. ASSUME NEW c \in Callers, StoreNothing(c) \/ SerializeFails(c)
      PROVE  Counting'
  <2>1. \A d \in Callers : pc'[d] \in Writing => calls'[d] = calls[d]
    BY <1>1, <1>t DEF StoreNothing, SerializeFails, Writing
  <2> QED BY <1>1, <2>1, CountingStill DEF StoreNothing, SerializeFails
<1>2. ASSUME NEW c \in Callers, Lock(c) PROVE Counting'
  <2>1. \A d \in Callers : pc'[d] \in Writing => pc'[d] = pc[d]
    BY <1>2, <1>t DEF Lock, Goto, Writing
  <2> QED BY <1>2, <2>1, CountingStill DEF Lock
<1>3. ASSUME NEW c \in Callers, ReportFailure(c) PROVE Counting'
  <2>1. pc[c] # "idle"
    BY <1>3 DEF ReportFailure
  <2> QED BY <1>3, <2>1, CountingReturn DEF ReportFailure
<1>4. ASSUME NEW c \in Callers, SyncAll(c) PROVE Counting'
  <2>1. pc[c] # "idle"
    BY <1>4 DEF SyncAll
  <2> QED BY <1>4, <2>1, CountingReturn DEF SyncAll
<1>5. CASE UNCHANGED vars
  BY <1>5, CountingStill DEF vars
<1> QED BY <1>1, <1>2, <1>3, <1>4, <1>5, OpenCounting, PayloadCounting,
           NewlineCounting, FlushCounting, CrashCounting DEF Next, Step

(* message_count covers all that was acknowledged, and exceeds the lines    *)
(* that were finished by no more than the faults there were.                *)
THEOREM SingleFileCountIsClose == Spec => []CountIsClose
<1>1. Counting => CountIsClose
  BY DEF Counting, CountIsClose, Newlines
<1> QED BY <1>1, InitCounting, CountingNext, InitDamage, DamageNext,
           SingleFileInvariant, PTL DEF Spec

-----------------------------------------------------------------------------
(* The file implements the trait.  Durable is what the first synced pieces  *)
(* hold; a step that leaves both alone and acknowledges nothing stutters.   *)

Durable == WholeIn(SubSeq(file, 1, synced))

LEMMA DurableIsKept ==
    ASSUME Inv, synced' = synced, file' \in Seq(Piece), synced <= Len(file'),
           \A i \in 1..synced : file'[i] = file[i]
    PROVE  Durable' = Durable
<1>1. /\ file \in Seq(Piece) /\ synced \in 0..Len(file)
      /\ Len(file) \in Nat /\ Len(file') \in Nat
  BY DEF Inv, Types, TypeOK, Piece
<1>2. synced' \in 0..Len(file')
  BY <1>1
<1>3. Durable = {m \in StoredMessage : \E i \in 1..synced : file[i] = Whole(m)}
  BY <1>1, WholeInPrefix DEF Durable
<1>4. Durable' = {m \in StoredMessage : \E i \in 1..synced : file'[i] = Whole(m)}
  BY <1>2, WholeInPrefix DEF Durable
<1> QED BY <1>3, <1>4

LEMMA PrefixIsStored ==
    ASSUME NEW s \in Seq(Piece), NEW k \in 0..Len(s)
    PROVE  WholeIn(SubSeq(s, 1, k)) \subseteq WholeIn(s)
<1>1. 1..k \subseteq DOMAIN s
  OBVIOUS
<1>2. WholeIn(SubSeq(s, 1, k)) =
          {m \in StoredMessage : \E i \in 1..k : s[i] = Whole(m)}
  BY WholeInPrefix
<1> QED BY <1>1, <1>2 DEF WholeIn

(* Stutters: nothing the trait shows has changed. *)
LEMMA FileUntouched ==
    ASSUME UNCHANGED <<file, synced, acked>>
    PROVE  UNCHANGED <<WholeIn(file), acked, Durable>>
  BY DEF WholeIn, Durable

(* A write adds one message to what is stored, or none. *)
LEMMA WriteImplementsStore ==
    ASSUME Inv, NEW c \in Callers, NEW p \in Piece,
           NEW T \in SUBSET TornPiece, Write(c, p, T),
           UNCHANGED <<synced, acked>>
    PROVE  Backend!Store \/ UNCHANGED <<WholeIn(file), acked, Durable>>
<1>1. /\ file' \in Seq(Piece)
      /\ Len(file) <= Len(file')
      /\ \A i \in 1..Len(file) : file'[i] = file[i]
      /\ file' = Append(file, p) \/ WholeIn(file') = WholeIn(file)
  BY WriteGrows DEF Inv
<1>2. /\ file \in Seq(Piece) /\ synced \in 0..Len(file)
      /\ Len(file) \in Nat /\ Len(file') \in Nat
  BY <1>1 DEF Inv, Types, TypeOK, Piece
<1>3. Durable' = Durable
  <2>1. synced <= Len(file') /\ \A i \in 1..synced : file'[i] = file[i]
    BY <1>1, <1>2
  <2> QED BY <1>1, <2>1, DurableIsKept
<1>4. CASE WholeIn(file') = WholeIn(file)
  BY <1>3, <1>4
<1>5. CASE file' = Append(file, p) /\ WholeIn(file') # WholeIn(file)
  <2>1. PICK m \in StoredMessage : p = Whole(m)
    BY <1>2, <1>5, AppendWholeIn
  <2>2. WholeIn(file') = WholeIn(file) \cup {m}
    BY <1>2, <1>5, <2>1, AppendWholeIn
  <2> QED BY <1>3, <2>2 DEF Backend!Store, Durable
<1> QED BY <1>1, <1>4, <1>5

LEMMA StepImplementsStorage ==
    ASSUME Inv, NEW c \in Callers, Step(c)
    PROVE  Backend!Next \/ UNCHANGED <<WholeIn(file), acked, Durable>>
<1>1. CASE StoreNothing(c) \/ SerializeFails(c) \/ Lock(c) \/ Open(c)
           \/ ReportFailure(c)
  BY <1>1, FileUntouched DEF StoreNothing, SerializeFails, Lock, Open, ReportFailure
<1>2. CASE WritePayload(c)
  <2> DEFINE m == Pieces(c)[at[c]]
  <2>1. /\ calls[c] # <<>> /\ at[c] \in DOMAIN Pieces(c)
        /\ Write(c, Whole(m), {Torn(m)}) /\ UNCHANGED <<synced, acked>>
    BY <1>2 DEF WritePayload, Inv, Progress, CallProgress, Writing
  <2>2. m \in StoredMessage
    BY <2>1, CallPieces DEF Inv
  <2> HIDE DEF m
  <2>3. Whole(m) \in Piece /\ {Torn(m)} \in SUBSET TornPiece
    BY <2>2, PieceKinds
  <2> QED BY <2>1, <2>3, WriteImplementsStore DEF Backend!Next
<1>3. CASE WriteNewline(c)
  <2>1. Newline \in Piece /\ {} \in SUBSET TornPiece
    BY PieceKinds
  <2>2. Write(c, Newline, {}) /\ UNCHANGED <<synced, acked>>
    BY <1>3 DEF WriteNewline
  <2> QED BY <2>1, <2>2, WriteImplementsStore DEF Backend!Next
<1>4. CASE FlushHandle(c)
  <2>1. /\ acked' = acked \cup Messages(c) /\ UNCHANGED <<file, synced>>
        /\ Messages(c) \in SUBSET WholeIn(file)
    BY <1>4, AllWritten DEF FlushHandle
  <2>2. UNCHANGED <<WholeIn(file), Durable>>
    BY <2>1 DEF WholeIn, Durable
  <2>3. Backend!Acknowledge
    BY <2>1, <2>2 DEF Backend!Acknowledge, Durable
  <2> QED BY <2>3 DEF Backend!Next
<1>5. CASE SyncAll(c)
  <2>1. UNCHANGED <<file, acked>>
    BY <1>5 DEF SyncAll
  <2>2. CASE UNCHANGED synced
    BY <2>1, <2>2, FileUntouched
  <2>3. CASE synced' = Len(file)
    <3>1. /\ file \in Seq(Piece) /\ synced \in 0..Len(file)
          /\ acked \subseteq WholeIn(file)
      BY AckedIsWhole DEF Inv, Types, TypeOK, Piece
    <3>2. Durable' = WholeIn(file)
      BY <2>1, <2>3, <3>1, SubSeqFull DEF Durable
    <3>3. Durable \subseteq WholeIn(file)
      BY <3>1, PrefixIsStored DEF Durable
    <3>4. UNCHANGED WholeIn(file)
      BY <2>1 DEF WholeIn
    <3>5. Backend!Flush
      BY <2>1, <3>1, <3>2, <3>3, <3>4 DEF Backend!Flush, Durable
    <3> QED BY <3>5 DEF Backend!Next
  <2> QED BY <1>5, <2>2, <2>3 DEF SyncAll
<1> QED BY <1>1, <1>2, <1>3, <1>4, <1>5 DEF Step

LEMMA CrashImplementsCrash ==
    ASSUME Inv, Crash
    PROVE  Backend!Crash
<1>1. /\ file' \in Seq(Piece) /\ synced <= Len(file')
      /\ \A i \in 1..synced : file'[i] = file[i]
      /\ WholeIn(file') \subseteq WholeIn(file)
  BY CrashFile
<1>2. synced' = synced /\ acked' = {}
  BY DEF Crash
<1>3. Durable' = Durable
  BY <1>1, <1>2, DurableIsKept
<1>4. Durable' \subseteq WholeIn(file')
  <2>1. synced' \in 0..Len(file')
    BY <1>1, <1>2 DEF Inv, Types, TypeOK
  <2> QED BY <1>1, <2>1, PrefixIsStored DEF Durable
<1> QED BY <1>1, <1>2, <1>3, <1>4 DEF Backend!Crash, Durable

(* Every step of the calls and every crash is a step of StorageBackend or a *)
(* stutter, whatever fails: what was stored is disturbed by nothing but a   *)
(* crash, an acknowledged message is stored, and a flush by one caller      *)
(* makes durable what any caller was acknowledged.                          *)
THEOREM SingleFileImplementsStorage == Spec => ImplementsStorage
<1> DEFINE shown == <<WholeIn(file), acked, Durable>>
<1>1. Init => Backend!Init
  <2> SUFFICES ASSUME Init PROVE Backend!Init
    OBVIOUS
  <2>1. file = <<>> /\ synced = 0 /\ acked = {} /\ <<>> \in Seq(Piece)
    BY EmptySeq DEF Init
  <2>2. WholeIn(<<>>) = {}
    BY <2>1 DEF WholeIn
  <2>3. SubSeq(<<>>, 1, 0) = <<>>
    BY SubSeqEmpty
  <2> QED BY <2>1, <2>2, <2>3 DEF Backend!Init
<1>2. Inv /\ [Next]_vars => [Backend!Next]_Backend!svars
  <2> SUFFICES ASSUME Inv, [Next]_vars
               PROVE  Backend!Next \/ UNCHANGED shown
    BY DEF Backend!svars, Durable
  <2>1. ASSUME NEW c \in Callers, Step(c)
        PROVE  Backend!Next \/ UNCHANGED shown
    BY <2>1, StepImplementsStorage
  <2>2. CASE Crash
    BY <2>2, CrashImplementsCrash DEF Backend!Next
  <2>3. CASE UNCHANGED vars
    BY <2>3, FileUntouched DEF vars
  <2> QED BY <2>1, <2>2, <2>3 DEF Next
<1> QED BY <1>1, <1>2, SingleFileInvariant, PTL
     DEF Spec, Backend!Spec, ImplementsStorage
=============================================================================
