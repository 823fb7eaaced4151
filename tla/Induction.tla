------------------------------ MODULE Induction ------------------------------
(***************************************************************************)
(* Facts that the proofs of several components need: least and greatest     *)
(* elements, induction on sets of numbers, and the functions that are       *)
(* defined by recursion along a sequence.                                   *)
(***************************************************************************)
EXTENDS Integers, Sequences, FiniteSetsExt, NaturalsInduction,
        WellFoundedInduction, SequenceTheorems, TLAPS

\* Every set of natural numbers that is not empty has a least element.
LEMMA LeastNatural ==
  ASSUME NEW S \in SUBSET Nat, S # {}
  PROVE  \E m \in S : \A x \in S : m <= x
<1> DEFINE R == {ss \in Nat \X Nat : ss[1] < ss[2]}
<1>1. OpToRel(<, Nat) = R
  BY DEF OpToRel
<1>2. IsWellFoundedOn(R, Nat)
  BY <1>1, NatLessThanWellFounded, Zenon
<1> HIDE DEF R
<1>3. PICK m \in S : \A y \in S : ~(<<y, m>> \in R)
  BY <1>2, WFMin
<1>4. \A y \in S : ~(y < m)
  BY <1>3 DEF R
<1> QED BY <1>4

\* Induction: a set with 0 and the successor of each of its elements up to b
\* has all the numbers up to b.
LEMMA InductionUpTo ==
  ASSUME NEW b \in Nat, NEW S, 0 \in S,
         \A n \in 0..b - 1 : n \in S => n + 1 \in S
  PROVE  0..b \subseteq S
<1> SUFFICES ASSUME NEW x \in 0..b, x \notin S PROVE FALSE
  OBVIOUS
<1> DEFINE T == {n \in 0..b : n \notin S}
<1>1. T \in SUBSET Nat /\ T # {}
  OBVIOUS
<1>2. PICK m \in T : \A y \in T : m <= y
  BY <1>1, LeastNatural
<1>3. m # 0 /\ m - 1 \in 0..b - 1
  BY <1>2
<1>4. m - 1 \in S
  BY <1>2, <1>3
<1> QED BY <1>2, <1>3, <1>4

LEMMA MinIsLeast ==
  ASSUME NEW S \in SUBSET Nat, S # {}
  PROVE  Min(S) \in S /\ \A x \in S : Min(S) <= x
<1>1. \E m \in S : \A x \in S : m <= x
  BY LeastNatural
<1> QED BY <1>1 DEF Min

LEMMA MaxIsGreatest ==
  ASSUME NEW b \in Nat, NEW S \in SUBSET (0..b), S # {}
  PROVE  Max(S) \in S /\ \A x \in S : x <= Max(S)
<1> DEFINE T == {n \in 0..b : b - n \in S}
<1>0. PICK z \in S : TRUE
  OBVIOUS
<1>1. T \in SUBSET Nat /\ b - z \in T
  BY <1>0
<1>2. PICK m \in T : \A x \in T : m <= x
  BY <1>1, LeastNatural
<1>3. b - m \in S
  BY <1>2
<1>4. ASSUME NEW x \in S PROVE x <= b - m
  <2>1. b - x \in 0..b /\ b - (b - x) = x
    OBVIOUS
  <2>2. b - x \in T
    BY <2>1
  <2>3. m <= b - x
    BY <1>2, <2>2
  <2>4. x \in Int /\ m \in Int
    BY <1>2
  <2> QED BY <2>3, <2>4
<1>5. \E y \in S : \A x \in S : y >= x
  BY <1>3, <1>4
<1> QED BY <1>5 DEF Max

LEMMA MinOfTwo ==
  ASSUME NEW a \in Int, NEW b \in Int
  PROVE  Min({a, b}) = IF a <= b THEN a ELSE b
  BY DEF Min

LEMMA MaxOfTwo ==
  ASSUME NEW a \in Int, NEW b \in Int
  PROVE  Max({a, b}) = IF a >= b THEN a ELSE b
  BY DEF Max
==============================================================================
