--------------------------- MODULE SequenceLemmas ---------------------------
(***************************************************************************)
(* Facts about sequences that the proofs rest on: an element is put before *)
(* a sequence or taken from it, parts of a sequence are put together, the  *)
(* least and the greatest position of a set are found, and the pairs of a  *)
(* sequence are inserted into a map.                                       *)
(***************************************************************************)
EXTENDS HashMaps, SequenceTheorems, WellFoundedInduction, TLAPS

(* Sequences of at most one element, and moving an element along.          *)

LEMMA SingletonIsSeq ==
    ASSUME NEW S, NEW e \in S
    PROVE  <<e>> \in Seq(S) /\ Len(<<e>>) = 1 /\ Head(<<e>>) = e
           /\ Tail(<<e>>) = <<>>
  OBVIOUS

LEMMA HeadThenTail ==
    ASSUME NEW S, NEW s \in Seq(S), s # <<>>
    PROVE  <<Head(s)>> \o Tail(s) = s
<1>1. Head(s) \in S /\ Tail(s) \in Seq(S) /\ Len(Tail(s)) = Len(s) - 1
      /\ \A i \in 1..Len(Tail(s)) : Tail(s)[i] = s[i + 1]
  BY HeadTailProperties
<1>2. Len(s) \in Nat \ {0}
  OBVIOUS
<1>3. <<Head(s)>> \in Seq(S) /\ Len(<<Head(s)>>) = 1
  BY <1>1, SingletonIsSeq
<1> DEFINE t == <<Head(s)>> \o Tail(s)
<1>4. /\ t \in Seq(S)
      /\ Len(t) = Len(s)
      /\ \A i \in 1..Len(s) : t[i] = IF i <= 1 THEN <<Head(s)>>[i] ELSE Tail(s)[i - 1]
  BY <1>1, <1>2, <1>3, ConcatProperties, Z3
<1>5. \A i \in 1..Len(s) : t[i] = s[i]
  <2>1. ASSUME NEW i \in 1..Len(s) PROVE t[i] = s[i]
    <3>1. CASE i = 1
      BY <3>1, <1>4
    <3>2. CASE i > 1
      <4>1. i - 1 \in 1..Len(Tail(s)) /\ ~(i <= 1) /\ (i - 1) + 1 = i
        BY <3>2, <1>1, <1>2
      <4>2. t[i] = Tail(s)[i - 1]
        BY <4>1, <1>4
      <4> QED BY <4>1, <4>2, <1>1
    <3> QED BY <3>1, <3>2, <1>2
  <2> QED BY <2>1
<1> HIDE DEF t
<1>6. t = s
  BY <1>4, <1>5, SeqEqual
<1> QED BY <1>6 DEF t

LEMMA HeadTailOfCons ==
    ASSUME NEW S, NEW e \in S, NEW s \in Seq(S)
    PROVE  /\ <<e>> \o s # <<>>
           /\ Head(<<e>> \o s) = e
           /\ Tail(<<e>> \o s) = s
<1> DEFINE t == <<e>> \o s
<1>1. <<e>> \in Seq(S) /\ Len(<<e>>) = 1
  BY SingletonIsSeq
<1>2. /\ t \in Seq(S)
      /\ Len(t) = 1 + Len(s)
      /\ \A i \in 1..(1 + Len(s)) : t[i] = IF i <= 1 THEN <<e>>[i] ELSE s[i - 1]
  BY <1>1, ConcatProperties
<1> HIDE DEF t
<1>3. t # <<>> /\ Head(t) = e
  <2>1. Len(s) \in Nat
    OBVIOUS
  <2>2. t[1] = e
    BY <1>2, <2>1
  <2> QED BY <1>2, <2>1, <2>2
<1>4. /\ Tail(t) \in Seq(S) /\ Len(Tail(t)) = Len(s)
      /\ \A i \in 1..Len(Tail(t)) : Tail(t)[i] = t[i + 1]
  BY <1>2, <1>3, HeadTailProperties
<1>5. \A i \in 1..Len(Tail(t)) : Tail(t)[i] = s[i]
  BY <1>2, <1>4
<1>6. Tail(t) = s
  BY <1>4, <1>5, SeqEqual
<1> QED BY <1>3, <1>6 DEF t

LEMMA ConsProperties ==
    ASSUME NEW S, NEW e \in S, NEW s \in Seq(S)
    PROVE  /\ <<e>> \o s \in Seq(S)
           /\ Len(<<e>> \o s) = 1 + Len(s)
           /\ (<<e>> \o s)[1] = e
           /\ \A i \in 1..Len(s) : (<<e>> \o s)[i + 1] = s[i]
<1> DEFINE t == <<e>> \o s
<1>1. <<e>> \in Seq(S) /\ Len(<<e>>) = 1
  BY SingletonIsSeq
<1>2. /\ t \in Seq(S)
      /\ Len(t) = 1 + Len(s)
      /\ \A i \in 1..(1 + Len(s)) : t[i] = IF i <= 1 THEN <<e>>[i] ELSE s[i - 1]
  BY <1>1, ConcatProperties
<1> HIDE DEF t
<1>3. Len(s) \in Nat
  OBVIOUS
<1>4. t[1] = e
  BY <1>2, <1>3
<1>5. ASSUME NEW i \in 1..Len(s) PROVE t[i + 1] = s[i]
  <2>1. i + 1 \in 1..(1 + Len(s)) /\ ~(i + 1 <= 1) /\ (i + 1) - 1 = i
    BY <1>3
  <2> QED BY <1>2, <2>1
<1> QED BY <1>2, <1>4, <1>5 DEF t

LEMMA ThreeConcat ==
    ASSUME NEW S, NEW a \in Seq(S), NEW b \in Seq(S), NEW c \in Seq(S)
    PROVE  /\ a \o b \o c \in Seq(S)
           /\ Len(a \o b \o c) = Len(a) + Len(b) + Len(c)
           /\ a \o b \o c = a \o (b \o c)
  BY ConcatProperties, ConcatAssociative

-----------------------------------------------------------------------------
(* a is what was offered to the storage, f the writer's hand, c the channel *)
(* and h the producer's hand.                                               *)

(* What is offered comes first, and the lengths add up. *)
LEMMA OfferedIsPrefix ==
    ASSUME NEW S, NEW a \in Seq(S), NEW f \in Seq(S), NEW c \in Seq(S),
           NEW h \in Seq(S)
    PROVE  /\ Len(a \o f \o c \o h) = Len(a) + Len(f) + Len(c) + Len(h)
           /\ SubSeq(a \o f \o c \o h, 1, Len(a)) = a
<1>1. /\ f \o c \in Seq(S) /\ f \o c \o h \in Seq(S)
      /\ Len(f \o c) = Len(f) + Len(c)
      /\ Len(f \o c \o h) = Len(f) + Len(c) + Len(h)
  BY ConcatProperties
<1>2. a \o f \o c \o h = a \o (f \o c \o h)
  <2> DEFINE g == f \o c
  <2>1. (a \o f) \o c = a \o g
    BY ConcatAssociative
  <2>2. g \in Seq(S)
    BY <1>1
  <2> HIDE DEF g
  <2>3. (a \o g) \o h = a \o (g \o h)
    BY <2>2, ConcatAssociative
  <2> QED BY <2>1, <2>3 DEF g
<1>3. Len(a \o (f \o c \o h)) = Len(a) + Len(f \o c \o h)
  BY <1>1, ConcatProperties
<1>4. SubSeq(a \o (f \o c \o h), 1, Len(a)) = a
  BY <1>1, SubSeqOfConcat1, SubSeqFull, ConcatProperties
<1> QED BY <1>1, <1>2, <1>3, <1>4

-----------------------------------------------------------------------------
(* Sets of positions, and the maps made of the pairs there. *)

LEMMA LeastElement ==
    ASSUME NEW I \in SUBSET Nat, I # {}
    PROVE  \E i \in I : \A j \in I : i <= j
<1>1. IsWellFoundedOn(OpToRel(<, Nat), Nat)
  BY NatLessThanWellFounded
<1>2. PICK i \in I : \A j \in I : ~(<<j, i>> \in OpToRel(<, Nat))
  BY <1>1, WFMin
<1>3. \A j \in I : ~(j < i)
  BY <1>2 DEF OpToRel
<1> QED BY <1>3

LEMMA GreatestElement ==
    ASSUME NEW n \in Nat, NEW I \in SUBSET (0..n), I # {}
    PROVE  \E i \in I : \A j \in I : j <= i
<1> DEFINE J == {k \in 0..n : n - k \in I}
<1>1. J \in SUBSET Nat /\ J # {}
  <2>1. PICK i \in I : TRUE
    OBVIOUS
  <2>2. i \in 0..n
    BY <2>1
  <2>3. n - i \in 0..n /\ n - (n - i) = i
    BY <2>2
  <2> QED BY <2>1, <2>3
<1>2. PICK k \in J : \A j \in J : k <= j
  BY <1>1, LeastElement
<1>3. ASSUME NEW j \in I PROVE j <= n - k
  <2>1. j \in 0..n
    OBVIOUS
  <2>2. n - j \in 0..n /\ n - (n - j) = j
    BY <2>1
  <2>3. k <= n - j /\ k \in 0..n
    BY <1>2, <2>2
  <2> QED BY <2>1, <2>3
<1> QED BY <1>2, <1>3

(* A map holds, of each key, the value that comes last among the pairs that *)
(* were inserted, and no other key.                                         *)
LEMMA InsertedHoldsLast ==
    ASSUME NEW pairs, NEW n \in Nat, NEW I \in SUBSET (0..n)
    PROVE  /\ DOMAIN Inserted(pairs, I) = Keys(pairs, I)
           /\ \A k \in Keys(pairs, I) : \E i \in I :
                 /\ pairs[i][1] = k
                 /\ \A j \in I : pairs[j][1] = k => j <= i
                 /\ Inserted(pairs, I)[k] = pairs[i][2]
<1>1. ASSUME NEW k \in Keys(pairs, I)
      PROVE  \E i \in I : /\ pairs[i][1] = k
                          /\ \A j \in I : pairs[j][1] = k => j <= i
                          /\ Inserted(pairs, I)[k] = pairs[i][2]
  <2> DEFINE Of == {i \in I : pairs[i][1] = k}
             Last(i) == /\ pairs[i][1] = k
                        /\ \A j \in I : pairs[j][1] = k => j <= i
             last == CHOOSE i \in I : Last(i)
  <2>1. Of \in SUBSET (0..n) /\ Of # {}
    BY <1>1 DEF Keys
  <2>2. \E i \in Of : \A j \in Of : j <= i
    BY <2>1, GreatestElement
  <2>3. \E i \in I : Last(i)
    BY <2>2
  <2>4. last \in I /\ Last(last)
    BY <2>3
  <2>5. Inserted(pairs, I)[k] = pairs[last][2]
    BY <1>1 DEF Inserted
  <2> QED BY <2>4, <2>5
<1>2. DOMAIN Inserted(pairs, I) = Keys(pairs, I)
  BY DEF Inserted
<1> QED BY <1>1, <1>2
=============================================================================
