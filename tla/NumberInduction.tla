-------------------------- MODULE NumberInduction ---------------------------
(***************************************************************************)
(* Induction over the natural numbers, stated with sets: S stands for the  *)
(* numbers that have a property.                                           *)
(***************************************************************************)
EXTENDS Integers, NaturalsInduction, WellFoundedInduction, TLAPS

\* A set of natural numbers that is not empty has a least element.
LEMMA LeastElement ==
    ASSUME NEW T, T \subseteq Nat, T # {}
    PROVE  \E x \in T : \A y \in T : x <= y
<1> DEFINE R == OpToRel(<, Nat)
<1>1. IsWellFoundedOn(R, Nat)
  BY NatLessThanWellFounded
<1>2. \A x, y \in Nat : x < y => <<x, y>> \in R
  BY DEF OpToRel
<1> HIDE DEF R
<1>3. PICK x \in T : \A y \in T : ~ (<<y, x>> \in R)
  BY <1>1, WFMin
<1>4. ASSUME NEW y \in T PROVE x <= y
  <2>1. x \in Nat /\ y \in Nat
    OBVIOUS
  <2>2. ~ (y < x)
    BY <1>2, <1>3, <2>1
  <2> QED
    BY <2>1, <2>2
<1> QED
  BY <1>4

\* A set with m that is closed under successor up to n has all of m .. n.
LEMMA IntervalInduction ==
    ASSUME NEW S, NEW m \in Nat, NEW n \in Nat, m \in S,
           \A i \in m .. n - 1 : i \in S => i + 1 \in S
    PROVE  \A i \in m .. n : i \in S
<1> SUFFICES ASSUME NEW k \in m .. n, k \notin S PROVE FALSE
  OBVIOUS
<1> DEFINE T == {i \in Nat : i \in m .. n /\ i \notin S}
<1>1. T \subseteq Nat /\ T # {}
  OBVIOUS
<1>2. PICK x \in T : \A y \in T : x <= y
  <2> HIDE DEF T
  <2> QED
    BY <1>1, LeastElement
<1>3. x \in m .. n /\ x \notin S /\ x # m
  BY <1>2
<1>4. x - 1 \in m .. n - 1 /\ x - 1 \in Nat
  BY <1>3
<1>5. x - 1 \in S
  <2>1. x - 1 \notin T
    BY <1>2, <1>3, <1>4
  <2> QED
    BY <2>1, <1>4
<1>6. (x - 1) + 1 = x
  BY <1>3
<1> QED
  BY <1>3, <1>4, <1>5, <1>6

=============================================================================
