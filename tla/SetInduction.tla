---------------------------- MODULE SetInduction ----------------------------
(***************************************************************************)
(* Induction over the natural numbers, for sets of them: what the proofs   *)
(* about recursive functions and about sequences of any length rest on.    *)
(* It comes from the well-foundedness of the order of the naturals, and is *)
(* used with the set of the numbers that have the property in question.    *)
(***************************************************************************)
EXTENDS Integers, WellFoundedInduction, TLAPS

(* Every set of natural numbers that is not empty has a least element.     *)
LEMMA LeastNatural ==
  ASSUME NEW U \in SUBSET Nat, U # {}
  PROVE  \E x \in U : \A y \in U : x <= y
<1> DEFINE R == OpToRel(<, Nat)
<1>1. IsWellFoundedOn(R, Nat)
  BY NatLessThanWellFounded
<1>2. PICK x \in U : \A y \in U : ~ (<<y, x>> \in R)
  <2> HIDE DEF R
  <2> QED BY <1>1, WFMin, Zenon
<1>3. ASSUME NEW y \in U
      PROVE  x <= y
  <2>1. <<y, x>> \notin {p \in Nat \X Nat : p[1] < p[2]}
    BY <1>2 DEF OpToRel
  <2> QED
    BY <2>1
<1> QED
  BY <1>3

(* A set of naturals with 0, and with every successor of its elements, has *)
(* every natural.                                                          *)
LEMMA NaturalInduction ==
  ASSUME NEW U \in SUBSET Nat, 0 \in U, \A n \in U : n + 1 \in U
  PROVE  \A n \in Nat : n \in U
<1>1. SUFFICES ASSUME NEW m \in Nat \ U
               PROVE  FALSE
  OBVIOUS
<1>2. PICK n \in Nat \ U : \A y \in Nat \ U : n <= y
  BY <1>1, LeastNatural
<1>3. n - 1 \in Nat /\ n - 1 \in U
  BY <1>2
<1> QED
  BY <1>2, <1>3

(* The same up to a bound.                                                 *)
LEMMA IntervalInduction ==
  ASSUME NEW N \in Nat, NEW U, 0 \in U, \A n \in 0 .. N - 1 : n \in U => n + 1 \in U
  PROVE  \A n \in 0 .. N : n \in U
<1> DEFINE W == {n \in Nat : n <= N => n \in U}
<1>1. \A n \in W : n + 1 \in W
  OBVIOUS
<1>2. \A n \in Nat : n \in W
  <2>1. W \in SUBSET Nat /\ 0 \in W
    OBVIOUS
  <2> HIDE DEF W
  <2> QED BY <1>1, <2>1, NaturalInduction
<1> QED
  BY <1>2

(* Stepping down: what holds at the bound, and before wherever it holds.   *)
LEMMA DownwardInduction ==
  ASSUME NEW N \in Nat, NEW U, N \in U, \A n \in 0 .. N - 1 : n + 1 \in U => n \in U
  PROVE  \A n \in 0 .. N : n \in U
<1> DEFINE W == {n \in 0 .. N : N - n \in U}
<1>1. 0 \in W
  OBVIOUS
<1>2. \A n \in 0 .. N - 1 : n \in W => n + 1 \in W
  OBVIOUS
<1>3. \A n \in 0 .. N : n \in W
  <2> HIDE DEF W
  <2> QED BY <1>1, <1>2, IntervalInduction
<1>4. ASSUME NEW n \in 0 .. N
      PROVE  n \in U
  <2>1. N - n \in 0 .. N
    OBVIOUS
  <2> QED
    BY <1>3, <2>1
<1> QED
  BY <1>4
=============================================================================
