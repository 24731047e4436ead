---------------------------- MODULE NatInduction ----------------------------
(***************************************************************************)
(* Induction over the natural numbers with a set in the place of a         *)
(* predicate: the form in which the proofs of the other modules use it.    *)
(***************************************************************************)
EXTENDS Integers, WellFoundedInduction, TLAPS

\* A set of natural numbers that is not empty has a least member.
LEMMA LeastMember ==
  ASSUME NEW T \in SUBSET Nat, T # {}
  PROVE  \E x \in T : \A y \in T : x <= y
<1> DEFINE R == OpToRel(<, Nat)
<1>1. IsWellFoundedOn(R, Nat)
  BY NatLessThanWellFounded
<1> HIDE DEF R
<1>2. PICK x \in T : \A y \in T : ~ (<<y, x>> \in R)
  BY <1>1, WFMin
<1>3. \A y \in T : ~ (y < x)
  BY <1>2 DEF R, OpToRel
<1> QED BY <1>3

\* A set that has 0 and with every number the next one has all natural numbers.
LEMMA SetInduction ==
  ASSUME NEW S \in SUBSET Nat, 0 \in S, \A n \in S : n + 1 \in S
  PROVE  S = Nat
<1> SUFFICES ASSUME S # Nat PROVE FALSE
  OBVIOUS
<1>1. PICK x \in Nat \ S : \A y \in Nat \ S : x <= y
  <2>1. Nat \ S # {} /\ Nat \ S \in SUBSET Nat
    OBVIOUS
  <2> QED BY <2>1, LeastMember
<1>2. x # 0 /\ x - 1 \in S
  BY <1>1
<1> QED BY <1>1, <1>2

\* The same for the numbers up to m.
LEMMA BoundedInduction ==
  ASSUME NEW m \in Nat, NEW S \in SUBSET Nat, 0 \in S,
         \A n \in 1 .. m : n - 1 \in S => n \in S
  PROVE  \A n \in 0 .. m : n \in S
<1> DEFINE T == {n \in Nat : n <= m => n \in S}
<1>1. 0 \in T
  OBVIOUS
<1>2. ASSUME NEW n \in T PROVE n + 1 \in T
  <2>1. CASE n + 1 <= m
    <3>1. n \in S /\ n + 1 \in 1 .. m /\ (n + 1) - 1 = n
      BY <2>1
    <3>2. n + 1 \in S
      BY <3>1
    <3> QED BY <3>2
  <2>2. CASE ~(n + 1 <= m)
    BY <2>2
  <2> QED BY <2>1, <2>2
<1>3. T = Nat
  <2>1. T \in SUBSET Nat
    OBVIOUS
  <2> HIDE DEF T
  <2> QED BY <1>1, <1>2, <2>1, SetInduction
<1> QED BY <1>3
=============================================================================
