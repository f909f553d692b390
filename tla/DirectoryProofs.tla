--------------------------- MODULE DirectoryProofs ---------------------------
(***************************************************************************)
(* What holds of DirectoryStorage for any callers, batches and number of   *)
(* faults.  The files of different messages never meet: Distinct says that *)
(* the messages still to be stored have paths of their own, and Stored     *)
(* what the file of the message under way and of those acknowledged holds. *)
(***************************************************************************)
EXTENDS DirectoryStorage, SequenceLemmas, SequenceTheorems, TLAPS

Typed == TypeOK /\ calls \in [Callers -> Seq(Seq(Message) \ {<<>>})]

(* Where a message waits: batch i of caller c, place j. *)
Waits(c, i, j) == i \in DOMAIN calls[c] /\ j \in DOMAIN calls[c][i]

Distinct ==
    \A c, d \in Callers : \A i, j, k, l \in Nat :
        Waits(c, i, j) /\ Waits(d, k, l)
            /\ Path(calls[c][i][j]) = Path(calls[d][k][l])
        => c = d /\ i = k /\ j = l

AckedIsPast ==
    \A m \in acked : \A c \in Callers : \A i, j \in Nat :
        Waits(c, i, j) => Path(calls[c][i][j]) # Path(m)

Stored ==
    /\ \A c \in Callers : pc[c] # "idle" => calls[c] # <<>>
    /\ \A c \in Callers : pc[c] = "write" =>
          /\ Exists(Path(Current(c)))
          /\ files[Path(Current(c))].state = "empty"
    /\ \A c \in Callers : pc[c] = "flush" /\ lastWrite[c] = "ok" =>
          IsWhole(Current(c))
    /\ AckedStaysWhole

Inv == Typed /\ Distinct /\ AckedIsPast /\ Stored

-----------------------------------------------------------------------------

LEMMA WorkIsTyped ==
    /\ Work \in [Callers -> Seq(Seq(Message) \ {<<>>})]
    /\ \A c \in Callers : \A i \in DOMAIN Work[c] : Work[c][i] # <<>>
<1>1. \A c \in Callers : \A i \in DOMAIN Work[c] : Work[c][i] \in Batches
  BY DEF Batches
<1>2. \A c \in Callers : \A i \in DOMAIN Work[c] :
          Work[c][i] \in Seq(Message) \ {<<>>}
  BY <1>1, WorkAssumption, DirectoryAssumption
<1>3. ASSUME NEW c \in Callers PROVE Work[c] \in Seq(Seq(Message) \ {<<>>})
  <2>1. Work[c] \in Seq(Seq(Message))
    BY WorkAssumption
  <2>2. \A i \in 1..Len(Work[c]) : Work[c][i] \in Seq(Message) \ {<<>>}
    BY <1>2, <2>1
  <2>3. Len(Work[c]) \in Nat /\ Work[c] \in [1..Len(Work[c]) -> Seq(Message) \ {<<>>}]
    BY <2>1, <2>2
  <2> QED BY <2>3
<1> QED BY <1>2, <1>3, WorkAssumption

(* The message under way is the first one that waits. *)
LEMMA CurrentWaits ==
    ASSUME Typed, NEW c \in Callers, calls[c] # <<>>
    PROVE  Waits(c, 1, 1) /\ Current(c) \in Message
<1>1. calls[c] \in Seq(Seq(Message) \ {<<>>})
  BY DEF Typed
<1>2. 1 \in DOMAIN calls[c] /\ calls[c][1] \in Seq(Message) \ {<<>>}
  BY <1>1
<1>3. 1 \in DOMAIN calls[c][1] /\ calls[c][1][1] \in Message
  BY <1>2
<1> QED BY <1>2, <1>3 DEF Waits, Current

(* No other message that waits, and none acknowledged, has its path. *)
LEMMA CurrentIsApart ==
    ASSUME Inv, NEW c \in Callers, calls[c] # <<>>
    PROVE  /\ \A d \in Callers : d # c /\ calls[d] # <<>> =>
                 Path(Current(d)) # Path(Current(c))
           /\ \A m \in acked : Path(m) # Path(Current(c))
<1>1. Waits(c, 1, 1)
  BY CurrentWaits DEF Inv
<1>2. ASSUME NEW d \in Callers, d # c, calls[d] # <<>>
      PROVE  Path(Current(d)) # Path(Current(c))
  <2>1. Waits(d, 1, 1)
    BY <1>2, CurrentWaits DEF Inv
  <2> QED BY <1>1, <1>2, <2>1 DEF Inv, Distinct, Current
<1>3. \A m \in acked : Path(m) # Path(Current(c))
  BY <1>1 DEF Inv, AckedIsPast, Current
<1> QED BY <1>2, <1>3

(* The beginning of a process, with the files an earlier one left. *)
LEMMA FreshStart ==
    ASSUME calls = Work, acked = {}, pc = [c \in Callers |-> "idle"], TypeOK
    PROVE  Inv
<1>1. Typed
  BY WorkIsTyped DEF Typed
<1>2. Distinct
  BY DistinctAssumption DEF Distinct, Waits, Path, SameRecord
<1>3. AckedIsPast /\ Stored
  BY DEF AckedIsPast, Stored, AckedStaysWhole
<1> QED BY <1>1, <1>2, <1>3 DEF Inv

LEMMA InitInv == Init => Inv
<1> SUFFICES ASSUME Init PROVE Inv
  OBVIOUS
<1>1. TypeOK
  BY DirectoryAssumption DEF Init, TypeOK
<1> QED BY <1>1, FreshStart DEF Init

-----------------------------------------------------------------------------
(* What a call leaves waiting when it returns.                             *)

Batch == Seq(Message) \ {<<>>}

(* The batch goes on: its other messages move up by one place.             *)
LEMMA BatchGoesOn ==
    ASSUME NEW q \in Seq(Batch), q # <<>>, Len(q[1]) > 1,
           NEW r, r = <<Tail(q[1])>> \o Tail(q)
    PROVE  /\ r \in Seq(Batch) /\ Len(r) = Len(q)
           /\ DOMAIN r[1] = 1..(Len(q[1]) - 1)
           /\ \A j \in DOMAIN r[1] : r[1][j] = q[1][j + 1]
           /\ \A i \in 2..Len(q) : r[i] = q[i]
<1>1. Len(q) \in Nat \ {0} /\ q[1] \in Seq(Message) /\ q[1] # <<>>
  BY DEF Batch
<1> DEFINE t == Tail(q[1])
          rest == Tail(q)
<1>2. /\ t \in Seq(Message) /\ Len(t) = Len(q[1]) - 1
      /\ \A j \in 1..Len(t) : t[j] = q[1][j + 1]
  BY <1>1, HeadTailProperties
<1>3. /\ rest \in Seq(Batch) /\ Len(rest) = Len(q) - 1
      /\ \A i \in 1..Len(rest) : rest[i] = q[i + 1]
  BY <1>1, HeadTailProperties
<1> HIDE DEF t, rest
<1>4. t \in Batch
  <2>1. Len(t) # 0 /\ Len(<<>>) = 0
    BY <1>1, <1>2
  <2> QED BY <1>2, <2>1 DEF Batch
<1>5. r = <<t>> \o rest
  BY DEF t, rest
<1>6. /\ r \in Seq(Batch) /\ Len(r) = 1 + Len(rest) /\ r[1] = t
      /\ \A i \in 1..Len(rest) : r[i + 1] = rest[i]
  <2>1. <<t>> \o rest \in Seq(Batch) /\ Len(<<t>> \o rest) = 1 + Len(rest)
    BY <1>3, <1>4, ConsProperties
  <2>2. (<<t>> \o rest)[1] = t
    BY <1>3, <1>4, ConsProperties
  <2>3. \A i \in 1..Len(rest) : (<<t>> \o rest)[i + 1] = rest[i]
    BY <1>3, <1>4, ConsProperties
  <2> QED BY <1>5, <2>1, <2>2, <2>3
<1>7. ASSUME NEW i \in 2..Len(q) PROVE r[i] = q[i]
  <2>1. i - 1 \in 1..Len(rest) /\ (i - 1) + 1 = i
    BY <1>1, <1>3
  <2>2. r[(i - 1) + 1] = rest[i - 1] /\ rest[i - 1] = q[(i - 1) + 1]
    BY <1>3, <1>6, <2>1
  <2> QED BY <2>1, <2>2
<1> QED BY <1>1, <1>2, <1>3, <1>6, <1>7

(* The batch ends: the others move up by one. *)
LEMMA BatchEnds ==
    ASSUME NEW q \in Seq(Batch), q # <<>>
    PROVE  /\ Tail(q) \in Seq(Batch) /\ Len(Tail(q)) = Len(q) - 1
           /\ \A i \in DOMAIN Tail(q) : Tail(q)[i] = q[i + 1]
  BY HeadTailProperties

LEMMA ReturnKeepsApart ==
    ASSUME Inv, NEW c \in Callers, calls[c] # <<>>, NEW ok, Return(c, ok)
    PROVE  /\ calls' \in [Callers -> Seq(Batch)]
           /\ Distinct'
           /\ \A d \in Callers : \A i, j \in Nat : Waits(d, i, j)' =>
                 \E k, l \in Nat : Waits(d, k, l) /\ calls'[d][i][j] = calls[d][k][l]
           /\ \A d \in Callers : \A i, j \in Nat :
                 Waits(d, i, j)' => Path(calls'[d][i][j]) # Path(Current(c))
<1> DEFINE q == calls[c]
          r == calls'[c]
<1>1. calls \in [Callers -> Seq(Batch)] /\ q \in Seq(Batch)
  BY DEF Inv, Typed, Batch
<1>2. \A d \in Callers : d # c => calls'[d] = calls[d]
  BY <1>1 DEF Return
<1>3. r = IF ok /\ Len(q[1]) > 1 THEN <<Tail(q[1])>> \o Tail(q) ELSE Tail(q)
  BY <1>1 DEF Return
<1>4. DOMAIN q = 1..Len(q) /\ Len(q) \in Nat /\ DOMAIN q[1] = 1..Len(q[1])
      /\ Len(q[1]) \in Nat
  BY <1>1 DEF Batch
<1>5. r \in Seq(Batch)
  BY <1>1, <1>3, BatchGoesOn, BatchEnds
<1>6. calls' \in [Callers -> Seq(Batch)]
  BY <1>1, <1>5 DEF Return
<1>7. Waits(c, 1, 1)
  BY CurrentWaits DEF Inv
<1> DEFINE goesOn == ok /\ Len(q[1]) > 1
          (* where place i, j of caller d was before the return *)
          OldI(d, i) == IF d = c /\ ~goesOn THEN i + 1 ELSE i
          OldJ(d, i, j) == IF d = c /\ goesOn /\ i = 1 THEN j + 1 ELSE j
          Moved(d, i, j) ==
              /\ OldI(d, i) \in Nat /\ OldJ(d, i, j) \in Nat
              /\ Waits(d, OldI(d, i), OldJ(d, i, j))
              /\ calls'[d][i][j] = calls[d][OldI(d, i)][OldJ(d, i, j)]
              /\ ~(d = c /\ OldI(d, i) = 1 /\ OldJ(d, i, j) = 1)
<1>8. ASSUME NEW i \in Nat, NEW j \in Nat, Waits(c, i, j)' PROVE Moved(c, i, j)
  <2>1. i \in 1..Len(r) /\ j \in DOMAIN r[i]
    BY <1>5, <1>8 DEF Waits
  <2>2. r[i] \in Seq(Message)
    BY <1>5, <2>1 DEF Batch
  <2>3. j > 0
    BY <2>1, <2>2
  <2>4. CASE goesOn
    <3>1. /\ Len(r) = Len(q) /\ DOMAIN r[1] = 1..(Len(q[1]) - 1)
          /\ \A m \in DOMAIN r[1] : r[1][m] = q[1][m + 1]
          /\ \A m \in 2..Len(q) : r[m] = q[m]
      BY <1>1, <1>3, <2>4, BatchGoesOn
    <3>2. CASE i = 1
      <4>1. r[i][j] = q[1][j + 1] /\ j + 1 \in DOMAIN q[1] /\ 1 \in DOMAIN q
        BY <1>4, <2>1, <3>1, <3>2
      <4> QED BY <2>3, <2>4, <3>2, <4>1 DEF Waits
    <3>3. CASE i # 1
      <4>1. r[i] = q[i] /\ i \in DOMAIN q
        BY <1>4, <2>1, <3>1, <3>3
      <4> QED BY <2>1, <2>4, <3>3, <4>1 DEF Waits
    <3> QED BY <3>2, <3>3
  <2>5. CASE ~goesOn
    <3>1. /\ r = Tail(q) /\ Len(r) = Len(q) - 1
          /\ \A m \in DOMAIN r : r[m] = q[m + 1]
      BY <1>1, <1>3, <2>5, BatchEnds
    <3>2. r[i] = q[i + 1] /\ i + 1 \in DOMAIN q /\ i + 1 # 1
      BY <1>4, <1>5, <2>1, <3>1
    <3> QED BY <2>1, <2>5, <3>2 DEF Waits
  <2> QED BY <2>4, <2>5
<1>9. ASSUME NEW d \in Callers, NEW i \in Nat, NEW j \in Nat, Waits(d, i, j)'
      PROVE  Moved(d, i, j)
  <2>1. CASE d = c
    BY <1>8, <1>9, <2>1
  <2>2. CASE d # c
    BY <1>2, <1>9, <2>2 DEF Waits
  <2> QED BY <2>1, <2>2
<1>10. ASSUME NEW d \in Callers, NEW i \in Nat, NEW j \in Nat, NEW k \in Nat,
              NEW l \in Nat, OldI(d, i) = OldI(d, k), OldJ(d, i, j) = OldJ(d, k, l)
       PROVE  i = k /\ j = l
  BY <1>10
<1> HIDE DEF OldI, OldJ, goesOn
<1>11. Distinct'
  <2> SUFFICES ASSUME NEW d \in Callers, NEW e \in Callers,
                      NEW i \in Nat, NEW j \in Nat, NEW k \in Nat, NEW l \in Nat,
                      Waits(d, i, j)', Waits(e, k, l)',
                      Path(calls'[d][i][j]) = Path(calls'[e][k][l])
               PROVE  d = e /\ i = k /\ j = l
    BY DEF Distinct, Path
  <2>1. Moved(d, i, j) /\ Moved(e, k, l)
    BY <1>9
  <2>2. d = e /\ OldI(d, i) = OldI(e, k) /\ OldJ(d, i, j) = OldJ(e, k, l)
    BY <2>1 DEF Inv, Distinct
  <2> QED BY <1>10, <2>2
<1>12. ASSUME NEW d \in Callers, NEW i \in Nat, NEW j \in Nat, Waits(d, i, j)'
       PROVE  /\ \E k, l \in Nat : Waits(d, k, l) /\ calls'[d][i][j] = calls[d][k][l]
              /\ Path(calls'[d][i][j]) # Path(Current(c))
  <2>1. Moved(d, i, j)
    BY <1>9, <1>12
  <2>2. Path(calls[d][OldI(d, i)][OldJ(d, i, j)]) # Path(calls[c][1][1])
    BY <1>7, <2>1 DEF Inv, Distinct
  <2> QED BY <2>1, <2>2 DEF Current
<1> QED BY <1>6, <1>11, <1>12

(* A return leaves waiting what no acknowledged message is.                *)
LEMMA ReturnIsPast ==
    ASSUME Inv, NEW c \in Callers, calls[c] # <<>>, NEW ok, Return(c, ok),
           acked' \subseteq acked \cup {Current(c)}
    PROVE  AckedIsPast'
<1> SUFFICES ASSUME NEW m \in acked', NEW d \in Callers, NEW i \in Nat,
                    NEW j \in Nat, Waits(d, i, j)'
             PROVE  Path(calls'[d][i][j]) # Path(m)
  BY DEF AckedIsPast, Path
<1>1. CASE m = Current(c)
  BY <1>1, ReturnKeepsApart
<1>2. CASE m \in acked
  BY <1>2, ReturnKeepsApart DEF Inv, AckedIsPast
<1> QED BY <1>1, <1>2

(* A step that leaves the work alone.                                      *)
LEMMA StayKeepsApart ==
    ASSUME Inv, UNCHANGED <<calls, acked>>
    PROVE  Distinct' /\ AckedIsPast' /\ calls' \in [Callers -> Seq(Batch)]
  BY DEF Inv, Typed, Batch, Distinct, AckedIsPast, Waits, Path

-----------------------------------------------------------------------------
(* What a step of one caller leaves to the others.                         *)

OnlyFile(c) ==
    \A p : p # Path(Current(c)) =>
        (Exists(p)' <=> Exists(p)) /\ (Exists(p) => files'[p] = files[p])

OnlyCaller(c) ==
    \A d \in Callers \ {c} :
        pc'[d] = pc[d] /\ calls'[d] = calls[d] /\ lastWrite'[d] = lastWrite[d]

(* What Stored says of one caller. *)
StoredBy(c) ==
    /\ pc[c] # "idle" => calls[c] # <<>>
    /\ pc[c] = "write" =>
          /\ Exists(Path(Current(c)))
          /\ files[Path(Current(c))].state = "empty"
    /\ pc[c] = "flush" /\ lastWrite[c] = "ok" => IsWhole(Current(c))

LEMMA SetFileSays ==
    ASSUME Inv, NEW c \in Callers, calls[c] # <<>>,
           NEW s \in {"empty", "torn", "whole"}, SetFile(Current(c), s)
    PROVE  /\ DOMAIN files' \subseteq {Path(m) : m \in Message}
           /\ \A p \in DOMAIN files' :
                 files'[p] \in [state : {"empty", "torn", "whole"}, msg : Message]
           /\ OnlyFile(c)
           /\ Path(Current(c)) \in DOMAIN files'
           /\ files'[Path(Current(c))] = [state |-> s, msg |-> Current(c)]
<1>1. Current(c) \in Message
  BY CurrentWaits DEF Inv
<1> DEFINE p0 == Path(Current(c))
<1>2. DOMAIN files' = DOMAIN files \cup {p0}
  BY DEF SetFile
<1>3. files'[p0] = [state |-> s, msg |-> Current(c)]
  BY DEF SetFile
<1>4. \A p \in DOMAIN files : p # p0 => files'[p] = files[p]
  BY DEF SetFile
<1> HIDE DEF p0
<1>5. OnlyFile(c)
  BY <1>2, <1>4 DEF OnlyFile, Exists, p0
<1>6. DOMAIN files' \subseteq {Path(m) : m \in Message}
  BY <1>1, <1>2 DEF Inv, Typed, TypeOK, p0
<1>7. \A p \in DOMAIN files' :
         files'[p] \in [state : {"empty", "torn", "whole"}, msg : Message]
  BY <1>1, <1>2, <1>3, <1>4 DEF Inv, Typed, TypeOK
<1> QED BY <1>2, <1>3, <1>5, <1>6, <1>7 DEF p0

LEMMA OthersKeep ==
    ASSUME Inv, NEW c \in Callers, calls[c] # <<>>, OnlyFile(c), OnlyCaller(c)
    PROVE  /\ \A d \in Callers \ {c} : StoredBy(d)'
           /\ \A m \in acked : IsWhole(m)'
<1>1. ASSUME NEW m, IsWhole(m), Path(m) # Path(Current(c)) PROVE IsWhole(m)'
  BY <1>1 DEF OnlyFile, IsWhole, Exists, Path
<1>2. \A m \in acked : IsWhole(m)'
  BY <1>1, CurrentIsApart DEF Inv, Stored, AckedStaysWhole
<1>3. ASSUME NEW d \in Callers \ {c} PROVE StoredBy(d)'
  <2>1. /\ pc'[d] = pc[d] /\ calls'[d] = calls[d] /\ lastWrite'[d] = lastWrite[d]
        /\ Current(d)' = Current(d)
    BY DEF OnlyCaller, Current
  <2>2. pc[d] # "idle" => calls[d] # <<>>
    BY DEF Inv, Stored
  <2>3. calls[d] # <<>> => Path(Current(d)) # Path(Current(c))
    BY CurrentIsApart
  <2>4. pc[d] = "write" =>
          /\ Path(Current(d)) \in DOMAIN files'
          /\ files'[Path(Current(d))].state = "empty"
    BY <2>2, <2>3 DEF Inv, Stored, OnlyFile, Exists
  <2>5. pc[d] = "flush" /\ lastWrite[d] = "ok" => IsWhole(Current(d))'
    BY <1>1, <2>1, <2>2, <2>3 DEF Inv, Stored
  <2> QED BY <2>1, <2>2, <2>4, <2>5 DEF StoredBy, Path, Exists
<1> QED BY <1>2, <1>3

-----------------------------------------------------------------------------
(* Every step preserves the invariant.                                     *)

LEMMA FaultsAreCounted ==
    ASSUME Inv, Fault \/ NoFault
    PROVE  faults' \in 0..MaxFaults /\ clean' \in BOOLEAN
<1>1. MaxFaults \in Nat /\ faults \in 0..MaxFaults
  BY DirectoryAssumption DEF Inv, Typed, TypeOK
<1>2. faults' \in 0..MaxFaults
  BY <1>1 DEF Fault, NoFault
<1>3. clean' \in BOOLEAN
  BY Zenon DEF Fault, NoFault, Inv, Typed, TypeOK
<1> QED BY <1>2, <1>3

LEMMA TypedNext ==
    ASSUME /\ DOMAIN files' \subseteq {Path(m) : m \in Message}
           /\ \A p \in DOMAIN files' :
                 files'[p] \in [state : {"empty", "torn", "whole"}, msg : Message],
           pc' \in [Callers -> {"idle", "create", "write", "flush"}],
           calls' \in [Callers -> Seq(Batch)],
           lastWrite' \in [Callers -> {"ok", "failed"}],
           acked' \subseteq Message,
           faults' \in 0..MaxFaults, clean' \in BOOLEAN
    PROVE  Typed'
  BY DEF Typed, TypeOK, Path, Batch

LEMMA FilesUnchangedTyped ==
    ASSUME Inv, UNCHANGED files
    PROVE  /\ DOMAIN files' \subseteq {Path(m) : m \in Message}
           /\ \A p \in DOMAIN files' :
                 files'[p] \in [state : {"empty", "torn", "whole"}, msg : Message]
  BY DEF Inv, Typed, TypeOK

LEMMA PrepareInv == ASSUME Inv, NEW c \in Callers, Prepare(c) PROVE Inv'
<1>1. calls[c] # <<>> /\ pc[c] = "idle" /\ files' = files /\ acked' = acked
  BY DEF Prepare
<1>2. OnlyFile(c)
  BY <1>1 DEF OnlyFile, Exists
<1>3. CASE NoFault /\ Goto(c, "create") /\ UNCHANGED <<calls, lastWrite>>
  <2>1. Distinct' /\ AckedIsPast' /\ calls' \in [Callers -> Seq(Batch)]
    BY <1>1, <1>3, StayKeepsApart
  <2>2. Typed'
    BY <1>1, <1>3, <2>1 DEF Inv, Typed, TypeOK, Goto, NoFault, Batch, Path
  <2>3. OnlyCaller(c)
    BY <1>3 DEF OnlyCaller, Goto, Inv, Typed, TypeOK
  <2>4. StoredBy(c)'
    BY <1>1, <1>3 DEF StoredBy, Goto, Inv, Typed, TypeOK
  <2> QED BY <1>1, <1>2, <2>1, <2>2, <2>3, <2>4, OthersKeep
          DEF Inv, Stored, StoredBy, AckedStaysWhole
<1>4. CASE Fault /\ Return(c, FALSE)
  <2>1. Distinct' /\ AckedIsPast' /\ calls' \in [Callers -> Seq(Batch)]
    BY <1>1, <1>4, ReturnKeepsApart, ReturnIsPast
  <2>2. Typed'
    <3>1. faults' \in 0..MaxFaults /\ clean' \in BOOLEAN
      BY <1>4, FaultsAreCounted
    <3>2. /\ pc' \in [Callers -> {"idle", "create", "write", "flush"}]
          /\ lastWrite' \in [Callers -> {"ok", "failed"}]
          /\ acked' \subseteq Message
      BY <1>1, <1>4 DEF Inv, Typed, TypeOK, Return, Goto
    <3> QED BY <1>1, <1>4, <2>1, <3>1, <3>2, FilesUnchangedTyped, TypedNext
  <2>3. OnlyCaller(c)
    BY <1>4 DEF OnlyCaller, Return, Goto, Inv, Typed, TypeOK
  <2>4. StoredBy(c)'
    BY <1>4 DEF StoredBy, Return, Goto, Inv, Typed, TypeOK
  <2> QED BY <1>1, <1>2, <2>1, <2>2, <2>3, <2>4, OthersKeep
          DEF Inv, Stored, StoredBy, AckedStaysWhole
<1> QED BY <1>3, <1>4 DEF Prepare

LEMMA CreateInv == ASSUME Inv, NEW c \in Callers, Create(c) PROVE Inv'
<1>1. pc[c] = "create" /\ acked' = acked
  BY DEF Create
<1>2. calls[c] # <<>>
  BY <1>1 DEF Inv, Stored
<1>3. CASE /\ NoFault /\ SetFile(Current(c), "empty") /\ Goto(c, "write")
           /\ UNCHANGED <<calls, lastWrite>>
  <2>1. Distinct' /\ AckedIsPast' /\ calls' \in [Callers -> Seq(Batch)]
    BY <1>1, <1>3, StayKeepsApart
  <2>2. /\ DOMAIN files' \subseteq {Path(m) : m \in Message}
        /\ \A p \in DOMAIN files' :
              files'[p] \in [state : {"empty", "torn", "whole"}, msg : Message]
        /\ OnlyFile(c)
        /\ Path(Current(c)) \in DOMAIN files'
        /\ files'[Path(Current(c))] = [state |-> "empty", msg |-> Current(c)]
    BY <1>2, <1>3, SetFileSays
  <2>3. Typed'
    <3>1. faults' \in 0..MaxFaults /\ clean' \in BOOLEAN
      BY <1>3, FaultsAreCounted
    <3>2. /\ pc' \in [Callers -> {"idle", "create", "write", "flush"}]
          /\ lastWrite' \in [Callers -> {"ok", "failed"}]
          /\ acked' \subseteq Message
      BY <1>1, <1>3 DEF Inv, Typed, TypeOK, Goto
    <3> QED BY <2>1, <2>2, <3>1, <3>2, TypedNext
  <2>4. OnlyCaller(c)
    BY <1>3 DEF OnlyCaller, Goto, Inv, Typed, TypeOK
  <2>5. StoredBy(c)'
    BY <1>2, <1>3, <2>2 DEF StoredBy, Goto, Inv, Typed, TypeOK, Exists, Current, Path
  <2> QED BY <1>1, <1>2, <2>1, <2>2, <2>3, <2>4, <2>5, OthersKeep
          DEF Inv, Stored, StoredBy, AckedStaysWhole
<1>4. CASE Fault /\ Return(c, FALSE) /\ UNCHANGED files
  <2>1. Distinct' /\ AckedIsPast' /\ calls' \in [Callers -> Seq(Batch)]
    BY <1>1, <1>2, <1>4, ReturnKeepsApart, ReturnIsPast
  <2>2. Typed'
    <3>1. faults' \in 0..MaxFaults /\ clean' \in BOOLEAN
      BY <1>4, FaultsAreCounted
    <3>2. /\ pc' \in [Callers -> {"idle", "create", "write", "flush"}]
          /\ lastWrite' \in [Callers -> {"ok", "failed"}]
          /\ acked' \subseteq Message
      BY <1>1, <1>4 DEF Inv, Typed, TypeOK, Return, Goto
    <3> QED BY <1>1, <1>4, <2>1, <3>1, <3>2, FilesUnchangedTyped, TypedNext
  <2>3. OnlyCaller(c) /\ OnlyFile(c)
    BY <1>4 DEF OnlyCaller, OnlyFile, Exists, Return, Goto, Inv, Typed, TypeOK
  <2>4. StoredBy(c)'
    BY <1>4 DEF StoredBy, Return, Goto, Inv, Typed, TypeOK
  <2> QED BY <1>1, <1>2, <2>1, <2>2, <2>3, <2>4, OthersKeep
          DEF Inv, Stored, StoredBy, AckedStaysWhole
<1> QED BY <1>3, <1>4 DEF Create

LEMMA WriteAllInv == ASSUME Inv, NEW c \in Callers, WriteAll(c) PROVE Inv'
<1>1. /\ pc[c] = "write" /\ calls' = calls /\ acked' = acked
      /\ Goto(c, "flush")
  BY DEF WriteAll
<1>2. calls[c] # <<>>
  BY <1>1 DEF Inv, Stored
<1>3. Distinct' /\ AckedIsPast' /\ calls' \in [Callers -> Seq(Batch)]
  BY <1>1, StayKeepsApart
<1>4. OnlyCaller(c)
  BY <1>1 DEF OnlyCaller, WriteAll, Goto, Inv, Typed, TypeOK
<1>5. CASE NoFault /\ SetFile(Current(c), "whole") /\ UNCHANGED lastWrite
  <2>1. /\ DOMAIN files' \subseteq {Path(m) : m \in Message}
        /\ \A p \in DOMAIN files' :
              files'[p] \in [state : {"empty", "torn", "whole"}, msg : Message]
        /\ OnlyFile(c)
        /\ Path(Current(c)) \in DOMAIN files'
        /\ files'[Path(Current(c))] = [state |-> "whole", msg |-> Current(c)]
    BY <1>2, <1>5, SetFileSays
  <2>2. Typed'
    BY <1>1, <1>3, <1>5, <2>1 DEF Inv, Typed, TypeOK, Goto, NoFault, Batch, Path
  <2>3. StoredBy(c)'
    <3>1. pc'[c] = "flush" /\ Current(c)' = Current(c)
      BY <1>1 DEF Goto, Inv, Typed, TypeOK, Current
    <3>2. IsWhole(Current(c))'
      BY <2>1, <3>1 DEF IsWhole, Exists, Path
    <3> QED BY <1>1, <1>2, <3>1, <3>2 DEF StoredBy
  <2> QED BY <1>1, <1>2, <1>3, <1>4, <2>1, <2>2, <2>3, OthersKeep
          DEF Inv, Stored, StoredBy, AckedStaysWhole
<1>6. CASE /\ Fault
           /\ SetFile(Current(c), "torn") \/ UNCHANGED files
           /\ lastWrite' = [lastWrite EXCEPT ![c] = "failed"]
  <2>1. /\ DOMAIN files' \subseteq {Path(m) : m \in Message}
        /\ \A p \in DOMAIN files' :
              files'[p] \in [state : {"empty", "torn", "whole"}, msg : Message]
        /\ OnlyFile(c)
    <3>1. CASE SetFile(Current(c), "torn")
      BY <1>2, <3>1, SetFileSays
    <3>2. CASE UNCHANGED files
      BY <3>2 DEF Inv, Typed, TypeOK, OnlyFile, Exists
    <3> QED BY <1>6, <3>1, <3>2
  <2>2. Typed'
    <3>1. faults' \in 0..MaxFaults /\ clean' \in BOOLEAN
      BY <1>6, FaultsAreCounted
    <3>2. /\ pc' \in [Callers -> {"idle", "create", "write", "flush"}]
          /\ lastWrite' \in [Callers -> {"ok", "failed"}]
          /\ acked' \subseteq Message
      BY <1>1, <1>6 DEF Inv, Typed, TypeOK, Goto
    <3> QED BY <1>3, <2>1, <3>1, <3>2, TypedNext
  <2>3. StoredBy(c)'
    BY <1>1, <1>2, <1>6 DEF StoredBy, Goto, Inv, Typed, TypeOK
  <2> QED BY <1>1, <1>2, <1>3, <1>4, <2>1, <2>2, <2>3, OthersKeep
          DEF Inv, Stored, StoredBy, AckedStaysWhole
<1> QED BY <1>5, <1>6 DEF WriteAll

LEMMA FlushHandleInv == ASSUME Inv, NEW c \in Callers, FlushHandle(c) PROVE Inv'
<1>1. pc[c] = "flush" /\ files' = files /\ Return(c, lastWrite[c] = "ok")
  BY DEF FlushHandle
<1>2. calls[c] # <<>> /\ Current(c) \in Message
  BY <1>1, CurrentWaits DEF Inv, Stored
<1>3. acked' \subseteq acked \cup {Current(c)}
  BY DEF FlushHandle
<1>4. Distinct' /\ AckedIsPast' /\ calls' \in [Callers -> Seq(Batch)]
  BY <1>1, <1>2, <1>3, ReturnKeepsApart, ReturnIsPast
<1>5. Typed'
  BY <1>1, <1>2, <1>3, <1>4
     DEF FlushHandle, Inv, Typed, TypeOK, Return, Goto, NoFault, Batch, Path
<1>6. OnlyFile(c) /\ OnlyCaller(c)
  BY <1>1 DEF OnlyFile, Exists, OnlyCaller, Return, Goto, Inv, Typed, TypeOK
<1>7. StoredBy(c)'
  BY <1>1 DEF StoredBy, Return, Goto, Inv, Typed, TypeOK
<1>8. AckedStaysWhole'
  <2> SUFFICES ASSUME NEW m \in acked' PROVE IsWhole(m)'
    BY DEF AckedStaysWhole
  <2>1. CASE m \in acked
    BY <1>2, <1>6, <2>1, OthersKeep
  <2>2. CASE m \notin acked
    <3>1. m = Current(c) /\ lastWrite[c] = "ok"
      BY <2>2 DEF FlushHandle
    <3>2. IsWhole(m)
      BY <1>1, <3>1 DEF Inv, Stored
    <3> QED BY <1>1, <3>2 DEF IsWhole, Exists, Path
  <2> QED BY <2>1, <2>2
<1> QED BY <1>2, <1>4, <1>5, <1>6, <1>7, <1>8, OthersKeep
        DEF Inv, Stored, StoredBy

LEMMA CrashInv == ASSUME Inv, Crash PROVE Inv'
<1>1. /\ DOMAIN files' \subseteq {Path(m) : m \in Message}
      /\ \A p \in DOMAIN files' :
            files'[p] \in [state : {"empty", "torn", "whole"}, msg : Message]
  <2>1. PICK kept \in SUBSET DOMAIN files : \E torn \in SUBSET kept :
           files' = [p \in kept |-> IF p \in torn
                                     THEN [files[p] EXCEPT !.state = "torn"]
                                     ELSE files[p]]
    BY DEF Crash
  <2> QED BY <2>1 DEF Inv, Typed, TypeOK
<1>2. /\ calls' = Work /\ acked' = {} /\ pc' = [c \in Callers |-> "idle"]
      /\ lastWrite' = [c \in Callers |-> "ok"] /\ clean' = TRUE
  BY DEF Crash
<1>3. faults' \in 0..MaxFaults
  BY DirectoryAssumption DEF Crash, Inv, Typed, TypeOK
<1>4. Typed'
  BY <1>1, <1>2, <1>3, WorkIsTyped DEF Typed, TypeOK, Path
<1>5. Distinct'
  BY <1>2, DistinctAssumption DEF Distinct, Waits, Path, SameRecord
<1>6. AckedIsPast' /\ Stored'
  BY <1>2 DEF AckedIsPast, Stored, AckedStaysWhole
<1> QED BY <1>4, <1>5, <1>6 DEF Inv

LEMMA NextInv == Inv /\ [Next]_vars => Inv'
<1> SUFFICES ASSUME Inv, [Next]_vars PROVE Inv'
  OBVIOUS
<1>1. CASE Crash
  BY <1>1, CrashInv
<1>2. ASSUME NEW c \in Callers, Step(c) PROVE Inv'
  BY <1>2, PrepareInv, CreateInv, WriteAllInv, FlushHandleInv DEF Step
<1>3. CASE UNCHANGED vars
  <2>1. Distinct' /\ AckedIsPast' /\ calls' \in [Callers -> Seq(Batch)]
    BY <1>3, StayKeepsApart DEF vars
  <2>2. Typed'
    BY <1>3, <2>1 DEF vars, Inv, Typed, TypeOK, Path, Batch
  <2>3. Stored'
    BY <1>3 DEF vars, Inv, Stored, AckedStaysWhole, IsWhole, Exists, Current, Path
  <2> QED BY <2>1, <2>2, <2>3 DEF Inv
<1> QED BY <1>1, <1>2, <1>3 DEF Next

-----------------------------------------------------------------------------

(* The invariant holds in every reachable state, after any number of       *)
(* crashes and reruns.                                                     *)
THEOREM DirectoryInvariant == Spec => []Inv
<1>1. Inv /\ [Next]_vars => Inv'
  BY NextInv
<1> QED BY InitInv, <1>1, PTL DEF Spec

(* Files, calls, acknowledgements and write results keep their types.      *)
THEOREM DirectoryTypeOK == Spec => []TypeOK
<1>1. Inv => TypeOK
  BY DEF Inv, Typed
<1> QED BY DirectoryInvariant, <1>1, PTL

(* A message whose store_message returned Ok has its whole file for as     *)
(* long as the process runs, whatever the other callers do and fail to do. *)
THEOREM DirectoryAckedStaysWhole == Spec => []AckedStaysWhole
<1>1. Inv => AckedStaysWhole
  BY DEF Inv, Stored
<1> QED BY DirectoryInvariant, <1>1, PTL

(* Only File::create of the same path and a crash can destroy a good copy: *)
(* write_all works on a file that create has emptied before.               *)
THEOREM DirectoryOnlyRewriteDestroys == Spec => OnlyRewriteDestroys
<1> DEFINE Kept(m) == IsWhole(m) /\ ~IsWhole(m)' =>
              \/ \E c \in Callers : pc[c] = "create" /\ Path(Current(c)) = Path(m)
              \/ faults' = faults + 1 /\ calls' = Work
<1>1. Inv /\ [Next]_vars => \A m \in Message : Kept(m)
  <2> SUFFICES ASSUME Inv, [Next]_vars, NEW m \in Message, IsWhole(m), ~IsWhole(m)'
               PROVE  \/ \E c \in Callers : pc[c] = "create" /\ Path(Current(c)) = Path(m)
                      \/ faults' = faults + 1 /\ calls' = Work
    OBVIOUS
  <2>1. files' # files
    BY DEF IsWhole, Exists, Path
  <2>2. CASE Crash
    BY <2>2 DEF Crash
  <2>3. ASSUME NEW c \in Callers, Step(c)
        PROVE  pc[c] = "create" /\ Path(Current(c)) = Path(m)
    <3>1. Create(c) \/ WriteAll(c)
      BY <2>1, <2>3 DEF Step, Prepare, FlushHandle
    <3>2. calls[c] # <<>>
      BY <3>1 DEF Create, WriteAll, Inv, Stored
    <3>3. PICK s \in {"empty", "torn", "whole"} : SetFile(Current(c), s)
      BY <2>1, <3>1 DEF Create, WriteAll
    <3>4. OnlyFile(c)
      BY <3>2, <3>3, SetFileSays
    <3>5. Path(Current(c)) = Path(m)
      BY <3>4 DEF OnlyFile, IsWhole, Exists, Path
    <3>6. ~WriteAll(c)
      BY <3>5 DEF WriteAll, Inv, Stored, IsWhole
    <3> QED BY <3>1, <3>5, <3>6 DEF Create
  <2> QED BY <2>1, <2>2, <2>3 DEF Next, vars
<1> QED BY DirectoryInvariant, <1>1, PTL DEF Spec, OnlyRewriteDestroys

-----------------------------------------------------------------------------
(* A process without a fault: what it was asked to store waits or is done. *)

WaitsFor(m) ==
    \E c \in Callers : \E i, j \in Nat : Waits(c, i, j) /\ calls[c][i][j] = m

Covered ==
    clean => /\ \A c \in Callers : lastWrite[c] = "ok"
             /\ \A m \in Message : WaitsFor(m) \/ m \in acked

(* At the start of a process all of the work waits. *)
LEMMA WorkWaits ==
    ASSUME NEW m \in Message
    PROVE  \E c \in Callers : \E i, j \in Nat :
              i \in DOMAIN Work[c] /\ j \in DOMAIN Work[c][i] /\ Work[c][i][j] = m
<1>1. PICK c \in Callers : \E i \in DOMAIN Work[c] : \E j \in DOMAIN Work[c][i] :
          Work[c][i][j] = m
  BY DEF Message, Batches
<1>2. PICK i \in DOMAIN Work[c] : \E j \in DOMAIN Work[c][i] : Work[c][i][j] = m
  BY <1>1
<1>3. PICK j \in DOMAIN Work[c][i] : Work[c][i][j] = m
  BY <1>2
<1>4. Work[c] \in Seq(Seq(Message))
  BY WorkAssumption
<1>5. i \in Nat /\ Work[c][i] \in Seq(Message)
  BY <1>4
<1>6. j \in Nat
  BY <1>5
<1> QED BY <1>3, <1>5, <1>6

(* The return of a call that went well takes only its own message away. *)
LEMMA ReturnCovers ==
    ASSUME Inv, NEW c \in Callers, calls[c] # <<>>, Return(c, TRUE),
           NEW m, WaitsFor(m), m # Current(c)
    PROVE  WaitsFor(m)'
<1> DEFINE q == calls[c]
          r == calls'[c]
<1>1. calls \in [Callers -> Seq(Batch)] /\ q \in Seq(Batch)
  BY DEF Inv, Typed, Batch
<1>2. \A d \in Callers : d # c => calls'[d] = calls[d]
  BY <1>1 DEF Return
<1>3. r = IF Len(q[1]) > 1 THEN <<Tail(q[1])>> \o Tail(q) ELSE Tail(q)
  BY <1>1 DEF Return
<1>4. PICK d \in Callers : \E i, j \in Nat : Waits(d, i, j) /\ calls[d][i][j] = m
  BY DEF WaitsFor
<1>5. PICK i \in Nat, j \in Nat : Waits(d, i, j) /\ calls[d][i][j] = m
  BY <1>4
<1>6. CASE d # c
  <2>1. Waits(d, i, j)' /\ calls'[d][i][j] = m
    BY <1>2, <1>5, <1>6 DEF Waits
  <2> QED BY <2>1 DEF WaitsFor
<1>7. CASE d = c
  <2>1. i \in 1..Len(q) /\ j \in 1..Len(q[i]) /\ Len(q) \in Nat /\ Len(q[i]) \in Nat
    BY <1>1, <1>5, <1>7 DEF Waits, Batch
  <2>2. ~(i = 1 /\ j = 1)
    BY <1>5, <1>7 DEF Current
  <2>3. CASE Len(q[1]) > 1
    <3>1. /\ r \in Seq(Batch) /\ Len(r) = Len(q)
          /\ DOMAIN r[1] = 1..(Len(q[1]) - 1)
          /\ \A k \in DOMAIN r[1] : r[1][k] = q[1][k + 1]
          /\ \A k \in 2..Len(q) : r[k] = q[k]
      BY <1>1, <1>3, <2>3, BatchGoesOn
    <3>2. DOMAIN r = 1..Len(q)
      BY <3>1
    <3>3. CASE i = 1
      <4>1. j - 1 \in Nat /\ j - 1 \in DOMAIN r[1] /\ r[1][j - 1] = q[1][j]
        <5>1. j \in 1..Len(q[1]) /\ Len(q[1]) \in Nat /\ j # 1
          BY <2>1, <2>2, <3>3
        <5>2. j - 1 \in 1..(Len(q[1]) - 1) /\ (j - 1) + 1 = j
          BY <5>1
        <5> QED BY <3>1, <5>2
      <4>2. Waits(c, 1, j - 1)' /\ calls'[c][1][j - 1] = m
        BY <1>5, <1>7, <2>1, <3>2, <3>3, <4>1 DEF Waits
      <4> QED BY <4>1, <4>2 DEF WaitsFor
    <3>4. CASE i # 1
      <4>1. r[i] = q[i] /\ i \in DOMAIN r
        BY <2>1, <3>1, <3>2, <3>4
      <4>2. Waits(c, i, j)' /\ calls'[c][i][j] = m
        BY <1>5, <1>7, <4>1 DEF Waits
      <4> QED BY <4>2 DEF WaitsFor
    <3> QED BY <3>3, <3>4
  <2>4. CASE ~(Len(q[1]) > 1)
    <3>1. /\ r \in Seq(Batch) /\ Len(r) = Len(q) - 1
          /\ \A k \in DOMAIN r : r[k] = q[k + 1]
      BY <1>1, <1>3, <2>4, BatchEnds
    <3>2. i # 1
      BY <2>1, <2>2, <2>4
    <3>3. i - 1 \in Nat /\ i - 1 \in DOMAIN r /\ r[i - 1] = q[i]
      BY <2>1, <3>1, <3>2
    <3>4. Waits(c, i - 1, j)' /\ calls'[c][i - 1][j] = m
      BY <1>5, <1>7, <3>3 DEF Waits
    <3> QED BY <3>3, <3>4 DEF WaitsFor
  <2> QED BY <2>3, <2>4
<1> QED BY <1>6, <1>7

LEMMA CoveredNext == Inv /\ Covered /\ [Next]_vars => Covered'
<1> SUFFICES ASSUME Inv, Covered, [Next]_vars, clean'
             PROVE  /\ \A c \in Callers : lastWrite'[c] = "ok"
                    /\ \A m \in Message : WaitsFor(m)' \/ m \in acked'
  BY DEF Covered
<1>1. CASE Crash
  BY <1>1, WorkWaits DEF Crash, WaitsFor, Waits
<1>2. ASSUME UNCHANGED <<calls, acked, lastWrite, clean>>
      PROVE  /\ \A c \in Callers : lastWrite'[c] = "ok"
             /\ \A m \in Message : WaitsFor(m)' \/ m \in acked'
  BY <1>2 DEF Covered, WaitsFor, Waits
<1>3. ASSUME NEW c \in Callers, Step(c)
      PROVE  /\ \A d \in Callers : lastWrite'[d] = "ok"
             /\ \A m \in Message : WaitsFor(m)' \/ m \in acked'
  <2>1. ~Fault
    BY DEF Fault
  <2>2. CASE Prepare(c) \/ Create(c) \/ WriteAll(c)
    <3>1. UNCHANGED <<calls, acked, lastWrite, clean>>
      BY <2>1, <2>2 DEF Prepare, Create, WriteAll, NoFault
    <3> QED BY <1>2, <3>1
  <2>3. CASE FlushHandle(c)
    <3>1. clean
      BY <2>3 DEF FlushHandle, NoFault
    <3>2. lastWrite[c] = "ok"
      BY <3>1 DEF Covered
    <3>3. Return(c, TRUE) /\ acked' = acked \cup {Current(c)}
      BY <2>3, <3>2 DEF FlushHandle
    <3>4. calls[c] # <<>>
      BY <2>3 DEF FlushHandle, Inv, Stored
    <3>5. \A d \in Callers : lastWrite'[d] = "ok"
      BY <3>1, <3>3 DEF Return, Covered, Inv, Typed, TypeOK
    <3>6. ASSUME NEW m \in Message PROVE WaitsFor(m)' \/ m \in acked'
      BY <3>1, <3>3, <3>4, ReturnCovers DEF Covered
    <3> QED BY <3>5, <3>6
  <2> QED BY <1>3, <2>2, <2>3 DEF Step
<1>4. CASE UNCHANGED vars
  BY <1>2, <1>4 DEF vars
<1> QED BY <1>1, <1>3, <1>4 DEF Next

(* Repeating a capture repairs what an earlier process left behind: when    *)
(* all is stored again without a fault, every message is whole.             *)
THEOREM DirectoryRerunRepairs == Spec => []RerunRepairs
<1>1. Init => Covered
  BY WorkWaits DEF Init, Covered, WaitsFor, Waits
<1>2. Inv /\ Covered /\ [Next]_vars => Covered'
  BY CoveredNext
<1>3. Inv /\ Covered => RerunRepairs
  <2> SUFFICES ASSUME Inv, Covered, clean, \A c \in Callers : calls[c] = <<>>,
                      NEW m \in Message
               PROVE  IsWhole(m)
    BY DEF RerunRepairs
  <2>1. ~WaitsFor(m)
    BY DEF WaitsFor, Waits
  <2> QED BY <2>1 DEF Covered, Inv, Stored, AckedStaysWhole
<1> QED BY DirectoryInvariant, <1>1, <1>2, <1>3, PTL DEF Spec
=============================================================================
