------------------------------- MODULE Extrema ------------------------------
(***************************************************************************)
(* Least and greatest elements of sets of natural numbers, which the       *)
(* models CHOOSE: the migration at hand, the tip of the chain, the last    *)
(* entry of a host, the shard of a height.                                 *)
(***************************************************************************)
EXTENDS Integers, TLAPS, WellFoundedInduction

(***************************************************************************)
(* A set of natural numbers that is not empty has a least element.         *)
(***************************************************************************)
LEMMA LeastExists ==
  ASSUME NEW T \in SUBSET Nat, T # {}
  PROVE  \E k \in T : \A j \in T : k <= j
<1> DEFINE R == {ss \in Nat \X Nat : ss[1] < ss[2]}
<1>1. IsWellFoundedOn(R, Nat)
  BY NatLessThanWellFounded DEF OpToRel
<1>2. \E x \in T : \A y \in T : ~(<<y, x>> \in R)
  <2> HIDE DEF R
  <2> QED  BY <1>1, WFMin, Zenon
<1>3. PICK x \in T : \A y \in T : ~(<<y, x>> \in R)
  BY <1>2
<1>4. ASSUME NEW y \in T PROVE x <= y
  <2>1. ~(<<y, x>> \in R) /\ x \in Nat /\ y \in Nat
    BY <1>3
  <2> QED  BY <2>1
<1> QED  BY <1>4

(***************************************************************************)
(* One that is bounded has a greatest element: the distances to the bound  *)
(* have a least one.                                                       *)
(***************************************************************************)
LEMMA GreatestExists ==
  ASSUME NEW T \in SUBSET Nat, T # {}, NEW b \in Nat, \A j \in T : j <= b
  PROVE  \E k \in T : \A j \in T : j <= k
<1> DEFINE D == {b - j : j \in T}
<1>1. \A j \in T : j \in Nat /\ b - j \in Nat
  OBVIOUS
<1>2. D \in SUBSET Nat /\ D # {}
  BY Zenon, <1>1
<1>3. PICK d \in D : \A c \in D : d <= c
  <2> HIDE DEF D
  <2> QED  BY <1>2, LeastExists, Zenon
<1>4. PICK k \in T : d = b - k
  BY <1>3
<1>5. ASSUME NEW j \in T PROVE j <= k
  <2>1. b - k <= b - j
    BY Zenon, <1>3, <1>4
  <2> QED  BY <1>1, <2>1
<1> QED  BY <1>5
=============================================================================
