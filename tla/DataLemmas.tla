----------------------------- MODULE DataLemmas ------------------------------
(***************************************************************************)
(* What the proofs about recursive functions and about queues rest on:     *)
(* induction over the natural numbers, stated about sets, and facts about  *)
(* sequences whose elements have no type.                                  *)
(***************************************************************************)
EXTENDS Integers, AnySequences, WellFoundedInduction, TLAPS

(* A set with 0 and all successors of its numbers is all of Nat: else it   *)
(* would miss a least number.                                              *)
LEMMA NatSet ==
  ASSUME NEW S \in SUBSET Nat, 0 \in S, \A n \in S : n + 1 \in S
  PROVE  S = Nat
<1> DEFINE R == OpToRel(<, Nat)
           T == Nat \ S
<1>1. IsWellFoundedOn(R, Nat)
  BY NatLessThanWellFounded
<1>2. R = {ss \in Nat \X Nat : ss[1] < ss[2]}
  BY DEF OpToRel
<1> HIDE DEF R
<1>3. ASSUME T # {} PROVE FALSE
  <2>1. T \subseteq Nat
    OBVIOUS
  <2>2. PICK x \in T : \A y \in T : ~(<<y, x>> \in R)
    BY <1>1, <1>3, <2>1, WFMin
  <2>3. x \in Nat /\ x # 0 /\ x \notin S
    OBVIOUS
  <2>4. x - 1 \in Nat /\ x - 1 < x
    BY <2>3
  <2>5. <<x - 1, x>> \in R
    BY <2>3, <2>4, <1>2
  <2>6. x - 1 \in S
    BY <2>2, <2>4, <2>5
  <2>7. (x - 1) + 1 \in S
    BY <2>6
  <2> QED BY <2>3, <2>7
<1> QED BY <1>3

-----------------------------------------------------------------------------
(* Sequences whose elements are of no particular set.                      *)
LEMMA SequenceOf ==
  ASSUME NEW S, NEW s \in Seq(S)
  PROVE  IsSequence(s)
<1>1. Len(s) \in Nat /\ DOMAIN s = 1..Len(s) /\ s = [i \in 1..Len(s) |-> s[i]]
  OBVIOUS
<1>2. s \in [1..Len(s) -> {s[i] : i \in DOMAIN s}]
  BY <1>1
<1> QED BY <1>1, <1>2 DEF IsSequence

(* The empty sequence is one.                                              *)
LEMMA SequenceEmpty ==
  IsSequence(<<>>) /\ Len(<<>>) = 0
BY DEF IsSequence

(* Short tuples are sequences.                                             *)
LEMMA SequenceTuples ==
  \A a, b, c, d : /\ IsSequence(<<a>>) /\ IsSequence(<<a, b>>)
                  /\ IsSequence(<<a, b, c, d>>)
<1> TAKE a, b, c, d
<1>1. /\ <<a>> \in Seq({a}) /\ <<a, b>> \in Seq({a, b})
      /\ <<a, b, c, d>> \in Seq({a, b, c, d})
  OBVIOUS
<1> QED BY <1>1, SequenceOf, Zenon

(* What is known of a sequence whose elements have no type.                *)
LEMMA SequenceShape ==
  ASSUME NEW s, IsSequence(s)
  PROVE  /\ Len(s) \in Nat /\ DOMAIN s = 1..Len(s)
         /\ s = [i \in 1..Len(s) |-> s[i]]
         /\ s \o <<>> = s /\ <<>> \o s = s
BY DEF IsSequence

(* Two sequences joined: the length and the elements.                      *)
LEMMA SequenceJoin ==
  ASSUME NEW s, IsSequence(s), NEW t, IsSequence(t)
  PROVE  /\ IsSequence(s \o t)
         /\ Len(s \o t) = Len(s) + Len(t)
         /\ \A i \in 1..Len(s) : (s \o t)[i] = s[i]
         /\ \A i \in 1..Len(t) : (s \o t)[Len(s) + i] = t[i]
<1> DEFINE S == {s[i] : i \in DOMAIN s} \cup {t[i] : i \in DOMAIN t}
<1>1. s \in Seq(S) /\ t \in Seq(S)
  BY DEF IsSequence
<1> HIDE DEF S
<1>2. s \o t \in Seq(S)
  BY <1>1
<1>3. IsSequence(s \o t)
  BY <1>2, SequenceOf
<1> QED BY <1>1, <1>3

(* A sequence is its head and its tail.                                    *)
LEMMA SequenceTail ==
  ASSUME NEW s, IsSequence(s), s # <<>>
  PROVE  /\ IsSequence(Tail(s)) /\ IsSequence(<<Head(s)>>)
         /\ s = <<Head(s)>> \o Tail(s) /\ Head(s) = s[1]
         /\ Len(Tail(s)) = Len(s) - 1
         /\ \A i \in 1..Len(s) - 1 : Tail(s)[i] = s[i + 1]
<1> DEFINE S == {s[i] : i \in DOMAIN s}
<1>1. s \in Seq(S)
  BY DEF IsSequence
<1> HIDE DEF S
<1>2. Tail(s) \in Seq(S) /\ <<Head(s)>> \in Seq(S)
  BY <1>1
<1>3. IsSequence(Tail(s)) /\ IsSequence(<<Head(s)>>)
  BY <1>2, SequenceOf
<1>4. s = <<Head(s)>> \o Tail(s)
  BY <1>1
<1> QED BY <1>1, <1>3, <1>4

(* An element at the end.                                                  *)
LEMMA SequenceAppend ==
  ASSUME NEW s, IsSequence(s), NEW e
  PROVE  /\ IsSequence(Append(s, e)) /\ IsSequence(<<e>>)
         /\ Append(s, e) = s \o <<e>>
         /\ Len(Append(s, e)) = Len(s) + 1
         /\ \A i \in 1..Len(s) : Append(s, e)[i] = s[i]
         /\ Append(s, e)[Len(s) + 1] = e
<1> DEFINE S == {s[i] : i \in DOMAIN s} \cup {e}
<1>1. s \in Seq(S) /\ e \in S
  BY DEF IsSequence
<1> HIDE DEF S
<1>2. Append(s, e) \in Seq(S) /\ <<e>> \in Seq(S)
  BY <1>1
<1>3. IsSequence(Append(s, e)) /\ IsSequence(<<e>>)
  BY <1>2, SequenceOf
<1> QED BY <1>1, <1>3

(* The first fact of SequenceAppend alone.                                 *)
LEMMA AppendIsSequence ==
  ASSUME NEW s, IsSequence(s), NEW e
  PROVE  IsSequence(Append(s, e)) /\ IsSequence(<<e>>)
BY SequenceAppend

(* The first fact of SequenceJoin alone.                                   *)
LEMMA JoinIsSequence ==
  ASSUME NEW s, IsSequence(s), NEW t, IsSequence(t)
  PROVE  IsSequence(s \o t)
BY SequenceJoin

(* The first fact of SequenceTail alone.                                   *)
LEMMA TailIsSequence ==
  ASSUME NEW s, IsSequence(s), s # <<>>
  PROVE  IsSequence(Tail(s)) /\ IsSequence(<<Head(s)>>)
BY SequenceTail

(* Joining is associative.                                                 *)
LEMMA SequenceAssociative ==
  ASSUME NEW s, IsSequence(s), NEW t, IsSequence(t), NEW u, IsSequence(u)
  PROVE  (s \o t) \o u = s \o (t \o u)
<1> DEFINE S == {s[i] : i \in DOMAIN s} \cup {t[i] : i \in DOMAIN t}
                  \cup {u[i] : i \in DOMAIN u}
<1>1. s \in Seq(S) /\ t \in Seq(S) /\ u \in Seq(S)
  BY DEF IsSequence
<1> HIDE DEF S
<1> QED BY <1>1

(* Sequences of the same length and elements are the same.                 *)
LEMMA SequenceSame ==
  ASSUME NEW s, IsSequence(s), NEW t, IsSequence(t), Len(s) = Len(t),
         \A i \in 1..Len(s) : s[i] = t[i]
  PROVE  s = t
<1>1. s = [i \in 1..Len(s) |-> s[i]] /\ t = [i \in 1..Len(t) |-> t[i]]
  BY SequenceShape
<1> QED BY <1>1

(* Tuples joined.                                                          *)
LEMMA TwoAreJoined ==
  ASSUME NEW a, NEW b
  PROVE  <<a>> \o <<b>> = <<a, b>>
<1> DEFINE s == <<a>>
           t == <<b>>
           u == <<a, b>>
<1> HIDE DEF s, t, u
<1>1. IsSequence(s) /\ IsSequence(t) /\ IsSequence(u)
  BY SequenceTuples DEF s, t, u
<1>2. Len(s) = 1 /\ Len(t) = 1 /\ s[1] = a /\ t[1] = b /\ Len(u) = 2 /\ u[1] = a /\ u[2] = b
  BY DEF s, t, u
<1>3. /\ IsSequence(s \o t) /\ Len(s \o t) = Len(s) + Len(t)
      /\ \A i \in 1..Len(s) : (s \o t)[i] = s[i]
      /\ \A i \in 1..Len(t) : (s \o t)[Len(s) + i] = t[i]
  BY <1>1, SequenceJoin
<1>4. Len(s \o t) = 2 /\ (s \o t)[1] = u[1] /\ (s \o t)[2] = u[2]
  <2>1. (s \o t)[Len(s) + 1] = t[1]
    BY <1>2, <1>3
  <2> QED BY <1>2, <1>3, <2>1
<1>5. \A i \in 1..2 : (s \o t)[i] = u[i]
  BY <1>4
<1>6. s \o t = u
  BY <1>1, <1>2, <1>3, <1>4, <1>5, SequenceSame
<1> QED BY <1>6 DEF s, t, u

LEMMA ThreeAreJoined ==
  ASSUME NEW a, NEW b, NEW c
  PROVE  <<a, b>> \o <<c>> = <<a, b, c>> /\ IsSequence(<<a, b, c>>)
<1> DEFINE s == <<a, b>>
           t == <<c>>
           u == <<a, b, c>>
<1> HIDE DEF s, t, u
<1>1. IsSequence(s) /\ IsSequence(t) /\ IsSequence(u)
  <2>1. u \in Seq({a, b, c})
    BY DEF u
  <2> QED BY <2>1, SequenceTuples, SequenceOf DEF s, t
<1>2. /\ Len(s) = 2 /\ Len(t) = 1 /\ s[1] = a /\ s[2] = b /\ t[1] = c
      /\ Len(u) = 3 /\ u[1] = a /\ u[2] = b /\ u[3] = c
  BY DEF s, t, u
<1>3. /\ IsSequence(s \o t) /\ Len(s \o t) = Len(s) + Len(t)
      /\ \A i \in 1..Len(s) : (s \o t)[i] = s[i]
      /\ \A i \in 1..Len(t) : (s \o t)[Len(s) + i] = t[i]
  BY <1>1, SequenceJoin
<1>4. /\ Len(s \o t) = 3 /\ (s \o t)[1] = u[1] /\ (s \o t)[2] = u[2]
      /\ (s \o t)[3] = u[3]
  <2>1. (s \o t)[Len(s) + 1] = t[1]
    BY <1>2, <1>3
  <2> QED BY <1>2, <1>3, <2>1
<1>5. \A i \in 1..3 : (s \o t)[i] = u[i]
  BY <1>4
<1>6. s \o t = u
  BY <1>1, <1>2, <1>3, <1>4, <1>5, SequenceSame
<1> QED BY <1>1, <1>6 DEF s, t, u
=============================================================================
