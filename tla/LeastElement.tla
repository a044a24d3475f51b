---------------------------- MODULE LeastElement ----------------------------
(***************************************************************************)
(* Every set of naturals has a least element, and a bounded one a greatest *)
(* one: what Min and Max of the community modules choose.  The other proof *)
(* modules use these in place of induction.                                *)
(***************************************************************************)
EXTENDS Integers, FiniteSetsExt, WellFoundedInduction, TLAPS

LEMMA NatHasLeast ==
    ASSUME NEW S \in SUBSET Nat, S # {}
    PROVE  \E x \in S : \A y \in S : x <= y
  <1>1. PICK x \in S : \A y \in S : ~(<<y, x>> \in OpToRel(<, Nat))
    BY NatLessThanWellFounded, WFMin
  <1>2. \A y \in S : <<y, x>> \in Nat \X Nat /\ (y < x => <<y, x>> \in OpToRel(<, Nat))
    BY DEF OpToRel
  <1>3. \A y \in S : ~(y < x)
    BY <1>1, <1>2
  <1> QED
    BY <1>3

LEMMA MinIn ==
    ASSUME NEW S \in SUBSET Nat, S # {}
    PROVE  Min(S) \in S /\ \A y \in S : Min(S) <= y
  BY NatHasLeast DEF Min

LEMMA MaxIn ==
    ASSUME NEW n \in Nat, NEW S \in SUBSET (1..n), S # {}
    PROVE  Max(S) \in S /\ \A y \in S : y <= Max(S)
  <1> DEFINE T == {n - x : x \in S}
  <1>1. \A x \in S : x \in 1..n /\ n - x \in Nat
    OBVIOUS
  <1>2. T \in SUBSET Nat /\ T # {}
    BY <1>1
  <1>3. PICK t \in T : \A y \in T : t <= y
    BY <1>2, NatHasLeast
  <1>4. PICK x \in S : t = n - x
    OBVIOUS
  <1>5. \A y \in S : n - y \in T
    OBVIOUS
  <1>6. \A y \in S : n - x <= n - y
    BY <1>3, <1>4, <1>5
  <1>7. \A y \in S : x >= y
    BY <1>1, <1>6
  <1>8. \E z \in S : \A y \in S : z >= y
    BY <1>7
  <1>9. Max(S) \in S /\ \A y \in S : Max(S) >= y
    BY <1>8 DEF Max
  <1> QED
    BY <1>1, <1>9

LEMMA MinPair ==
    ASSUME NEW a \in Int, NEW b \in Int
    PROVE  Min({a, b}) = IF a <= b THEN a ELSE b
  <1> DEFINE least == IF a <= b THEN a ELSE b
  <1>1. \A x \in {a, b} : (\A y \in {a, b} : x =< y) <=> x = least
    OBVIOUS
  <1>2. least \in {a, b}
    OBVIOUS
  <1> HIDE DEF least
  <1>3. (CHOOSE x \in {a, b} : \A y \in {a, b} : x =< y) = least
    BY <1>1, <1>2
  <1> QED
    BY <1>3 DEF Min, least

LEMMA MaxPair ==
    ASSUME NEW a \in Int, NEW b \in Int
    PROVE  Max({a, b}) = IF a >= b THEN a ELSE b
  <1> DEFINE most == IF a >= b THEN a ELSE b
  <1>1. \A x \in {a, b} : (\A y \in {a, b} : x >= y) <=> x = most
    OBVIOUS
  <1>2. most \in {a, b}
    OBVIOUS
  <1> HIDE DEF most
  <1>3. (CHOOSE x \in {a, b} : \A y \in {a, b} : x >= y) = most
    BY <1>1, <1>2
  <1> QED
    BY <1>3 DEF Max, most
=============================================================================
