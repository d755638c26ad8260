-------------------------- MODULE NaturalExtremes --------------------------
(* The least and the greatest member of a set of naturals, which the       *)
(* models name with CHOOSE.                                                *)
EXTENDS Integers, WellFoundedInduction, TLAPS

LEMMA LeastOf ==
  ASSUME NEW S, S \subseteq Nat, S # {}
  PROVE  \E m \in S : \A n \in S : m <= n
<1> DEFINE R == OpToRel(<, Nat)
<1>1. IsWellFoundedOn(R, Nat)
  BY NatLessThanWellFounded
<1> HIDE DEF R
<1>2. PICK m \in S : \A n \in S : ~(<<n, m>> \in R)
  BY <1>1, WFMin
<1>3. \A n \in S : <<n, m>> \in R <=> n < m
  BY DEF OpToRel, R
<1>4. \A n \in S : ~(n < m)
  BY <1>2, <1>3, Zenon
<1>5. ASSUME NEW n \in S PROVE m <= n
  BY <1>4, SMT
<1> QED
  BY <1>5

LEMMA GreatestOf ==
  ASSUME NEW S, S \subseteq Nat, S # {}, NEW b \in Nat, \A n \in S : n <= b
  PROVE  \E m \in S : \A n \in S : n <= m
<1> DEFINE T == {b - n : n \in S}
<1>1. ASSUME NEW t \in T PROVE t \in Nat
  <2>1. PICK n \in S : t = b - n
    OBVIOUS
  <2>2. n \in Nat /\ n <= b
    OBVIOUS
  <2> QED
    BY <2>1, <2>2
<1>2. T # {}
  OBVIOUS
<1> HIDE DEF T
<1>3. PICK d \in T : \A t \in T : d <= t
  BY <1>1, <1>2, LeastOf
<1>4. PICK m \in S : d = b - m
  BY <1>3 DEF T
<1>5. ASSUME NEW n \in S PROVE n <= m
  <2>1. b - n \in T /\ n \in Nat /\ m \in Nat
    BY DEF T
  <2>2. d <= b - n
    BY <1>3, <2>1
  <2> QED
    BY <1>4, <2>1, <2>2
<1> QED
  BY <1>5
=============================================================================
