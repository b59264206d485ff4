----------------------------- MODULE SetInduction -----------------------------
(***************************************************************************)
(* Induction for the proofs about this model: least numbers and induction  *)
(* over the numbers for a property given as the set of what has it, both   *)
(* from the well-foundedness of < on Nat.                                  *)
(***************************************************************************)
EXTENDS Integers, FiniteSets, FiniteSetTheorems, WellFoundedInduction, TLAPS

\* A set of naturals that is not empty has a least member.
LEMMA LeastNat ==
  ASSUME NEW S, S \subseteq Nat, S # {}
  PROVE  \E n \in S : \A m \in S : n <= m
<1> DEFINE Less == {p \in Nat \X Nat : p[1] < p[2]}
<1>1. OpToRel(<, Nat) = Less
  BY Zenon DEF OpToRel
<1>2. PICK n \in S : \A m \in S : <<m, n>> \notin Less
  <2> HIDE DEF Less
  <2> QED
    BY <1>1, WFMin, NatLessThanWellFounded
<1>3. \A m \in S : m < n => <<m, n>> \in Less
  OBVIOUS
<1> HIDE DEF Less
<1>4. \A m \in S : ~(m < n) /\ m \in Nat /\ n \in Nat
  BY <1>2, <1>3
<1> QED
  BY <1>4

\* What holds of 0 and of every successor holds of all.
LEMMA InductionOnNat ==
  ASSUME NEW S, 0 \in S, \A n \in Nat : n \in S => n + 1 \in S
  PROVE  Nat \subseteq S
<1> SUFFICES ASSUME Nat \ S # {} PROVE FALSE
  OBVIOUS
<1>1. PICK n \in Nat \ S : \A m \in Nat \ S : n <= m
  <2> DEFINE T == Nat \ S
  <2>1. T \subseteq Nat /\ T # {}
    OBVIOUS
  <2> HIDE DEF T
  <2>2. \E n \in T : \A m \in T : n <= m
    BY <2>1, LeastNat
  <2> QED
    BY <2>2 DEF T
<1> QED
  BY <1>1, n - 1 \in Nat
=============================================================================
