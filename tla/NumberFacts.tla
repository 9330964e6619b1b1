----------------------------- MODULE NumberFacts -----------------------------
(***************************************************************************)
(* The first and the last of a set of indices exist.                       *)
(***************************************************************************)
EXTENDS Integers, WellFoundedInduction, TLAPS

\* A set of naturals that is not empty has a least element.
LEMMA LeastNat ==
  ASSUME NEW S, S \subseteq Nat, S # {}
  PROVE  \E i \in S : \A j \in S : i <= j
<1>1. IsWellFoundedOn(OpToRel(<, Nat), Nat)
  BY NatLessThanWellFounded
<1>2. PICK i \in S : \A j \in S : ~ (<<j, i>> \in OpToRel(<, Nat))
  BY <1>1, WFMin
<1>3. \A j \in S : ~ (j < i)
  BY <1>2 DEF OpToRel
<1>. QED BY <1>3

\* A set of indices up to n that is not empty has a greatest element.
LEMMA GreatestNat ==
  ASSUME NEW n \in Nat, NEW S, S \subseteq 1..n, S # {}
  PROVE  \E i \in S : \A j \in S : i >= j
<1>. DEFINE T == {k \in Nat : \E i \in S : k = n - i}
<1>1. T \subseteq Nat
  OBVIOUS
<1>0. T # {}
  <2>1. PICK i \in S : TRUE
    OBVIOUS
  <2>2. n - i \in T
    BY <2>1
  <2>. QED BY <2>2
<1>2. PICK k \in T : \A l \in T : k <= l
  BY <1>0, <1>1, LeastNat
<1>3. PICK i \in S : k = n - i
  BY <1>2
<1>4. \A j \in S : n - j \in T
  OBVIOUS
<1>. QED BY <1>2, <1>3, <1>4
=============================================================================
