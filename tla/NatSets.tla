------------------------------- MODULE NatSets -------------------------------
(***************************************************************************)
(* Facts about finite sets of event and turn numbers that the proofs of    *)
(* several modules rest on: greatest and least elements, and counting from *)
(* the top, which is what ORDER BY ... DESC LIMIT k or OFFSET k - 1 does.  *)
(***************************************************************************)
EXTENDS Integers, FiniteSetTheorems, WellFoundedInduction, TLAPS

\* A non-empty set of natural numbers has a least element.
LEMMA LeastExists ==
  ASSUME NEW S, S \subseteq Nat, S # {}
  PROVE  \E e \in S : \A f \in S : e <= f
<1>1. \E x \in S : \A y \in S : ~(<<y, x>> \in OpToRel(<, Nat))
  BY NatLessThanWellFounded, WFMin
<1>2. PICK x \in S : \A y \in S : ~(<<y, x>> \in OpToRel(<, Nat))
  BY <1>1
<1>3. \A y \in S : ~(y < x)
  BY <1>2 DEF OpToRel
<1> QED BY <1>3

\* A non-empty set of natural numbers below a bound has a greatest element.
LEMMA GreatestExists ==
  ASSUME NEW n \in Nat, NEW S, S \subseteq 0..n, S # {}
  PROVE  \E e \in S : \A f \in S : f <= e
<1> DEFINE T == {n - e : e \in S}
<1>1. T \subseteq Nat /\ T # {}
  <2>1. \A e \in S : n - e \in Nat
    OBVIOUS
  <2> QED BY <2>1
<1>2. PICK x \in T : \A y \in T : x <= y
  <2> HIDE DEF T
  <2> QED BY <1>1, LeastExists
<1>3. PICK e \in S : x = n - e
  BY DEF T
<1>4. ASSUME NEW f \in S PROVE f <= e
  <2>1. n - f \in T /\ f \in 0..n /\ e \in 0..n
    OBVIOUS
  <2>2. n - e <= n - f
    BY <1>2, <1>3, <2>1
  <2> QED BY <2>1, <2>2
<1> QED BY <1>4

\* A set of numbers up to a bound is finite.
LEMMA BoundedFinite ==
  ASSUME NEW n \in Nat, NEW S, S \subseteq 0..n
  PROVE  IsFiniteSet(S) /\ Cardinality(S) \in Nat
<1>1. IsFiniteSet(0..n)
  BY FS_Interval
<1>2. S \in SUBSET (0..n)
  OBVIOUS
<1>3. IsFiniteSet(S)
  BY <1>1, <1>2, FS_Subset
<1> QED BY <1>3, FS_CardinalityType

\* Elements from t on.
AtLeast(S, t) == {u \in S : u >= t}

\* Taking the least of the elements from t on away leaves those of the next one.
LEMMA AtLeastNext ==
  ASSUME NEW n \in Nat, NEW S, S \subseteq 0..n, NEW t \in S, Cardinality(AtLeast(S, t)) > 1
  PROVE  \E u \in S : u > t /\ Cardinality(AtLeast(S, u)) = Cardinality(AtLeast(S, t)) - 1
<1> DEFINE above == AtLeast(S, t) \ {t}
<1>1. IsFiniteSet(AtLeast(S, t)) /\ Cardinality(AtLeast(S, t)) \in Nat
  <2>1. AtLeast(S, t) \subseteq 0..n
    BY DEF AtLeast
  <2> QED BY <2>1, BoundedFinite
<1>2. t \in AtLeast(S, t)
  BY DEF AtLeast
<1>3. IsFiniteSet(above) /\ Cardinality(above) = Cardinality(AtLeast(S, t)) - 1
  BY <1>1, <1>2, FS_RemoveElement
<1>4. above # {}
  BY <1>1, <1>3, FS_EmptySet
<1>5. above \subseteq Nat /\ above \subseteq S
  <2>1. above \subseteq S
    BY DEF AtLeast
  <2>2. S \subseteq Nat
    OBVIOUS
  <2> HIDE DEF above
  <2> QED BY <2>1, <2>2
<1>6. PICK u \in above : \A f \in above : u <= f
  <2> HIDE DEF above
  <2> QED BY <1>4, <1>5, LeastExists
<1>7. u \in S /\ u > t
  <2>1. u \in S /\ u >= t /\ u # t /\ u \in Nat /\ t \in Nat
    BY <1>6 DEF AtLeast
  <2> QED BY <2>1
<1>8. AtLeast(S, u) = above
  <2>1. \A f \in S : f >= u => f \in above
    BY <1>7 DEF AtLeast
  <2>2. \A f \in above : f \in S /\ f >= u
    BY <1>6, <1>7 DEF AtLeast
  <2> QED BY <2>1, <2>2 DEF AtLeast
<1> QED BY <1>3, <1>7, <1>8

\* A set of at least k numbers has a k-th one from the top.
LEMMA NthExists ==
  ASSUME NEW n \in Nat, NEW S, S \subseteq 0..n, NEW k \in Nat \ {0}, Cardinality(S) >= k
  PROVE  \E t \in S : Cardinality(AtLeast(S, t)) = k
<1> DEFINE high == {t \in S : Cardinality(AtLeast(S, t)) >= k}
<1>1. S # {}
  <2>1. Cardinality({}) = 0
    BY FS_EmptySet
  <2> QED BY <2>1
<1>2. PICK m \in S : \A f \in S : m <= f
  <2>1. S \subseteq Nat
    OBVIOUS
  <2> QED BY <1>1, <2>1, LeastExists
<1>3. AtLeast(S, m) = S
  BY <1>2 DEF AtLeast
<1>4. m \in high
  BY <1>3
<1>5. PICK t \in high : \A f \in high : f <= t
  <2>1. high \subseteq 0..n
    OBVIOUS
  <2> HIDE DEF high
  <2> QED BY <1>4, <2>1, GreatestExists
<1>6. Cardinality(AtLeast(S, t)) \in Nat /\ t \in S
  <2>1. AtLeast(S, t) \subseteq 0..n
    BY DEF AtLeast
  <2> QED BY <2>1, BoundedFinite
<1>7. ~(Cardinality(AtLeast(S, t)) > k)
  <2> SUFFICES ASSUME Cardinality(AtLeast(S, t)) > k PROVE FALSE
    OBVIOUS
  <2>1. PICK u \in S : u > t /\ Cardinality(AtLeast(S, u)) = Cardinality(AtLeast(S, t)) - 1
    <3>1. Cardinality(AtLeast(S, t)) > 1
      BY <1>6
    <3> QED BY <1>6, <3>1, AtLeastNext
  <2>2. u \in high
    BY <1>6, <2>1
  <2>3. u <= t /\ u \in 0..n /\ t \in 0..n
    BY <1>5, <2>2
  <2> QED BY <2>1, <2>3
<1> QED BY <1>5, <1>6, <1>7

\* The elements with fewer than k above them.
Above(S, e) == {f \in S : f > e}
Top(S, k) == {e \in S : Cardinality(Above(S, e)) < k}

LEMMA TopBounded ==
  ASSUME NEW n \in Nat, NEW S, S \subseteq 0..n, NEW k \in Nat
  PROVE  Cardinality(Top(S, k)) <= k
<1>1. Top(S, k) \subseteq 0..n /\ \A e \in S : Above(S, e) \subseteq 0..n
  BY DEF Top, Above
<1>2. IsFiniteSet(Top(S, k)) /\ Cardinality(Top(S, k)) \in Nat
  BY <1>1, BoundedFinite
<1>3. CASE Top(S, k) = {}
  <2>1. Cardinality({}) = 0
    BY FS_EmptySet
  <2> QED BY <1>3, <2>1
<1>4. CASE Top(S, k) # {}
  <2>1. PICK m \in Top(S, k) : \A f \in Top(S, k) : m <= f
    <3>1. Top(S, k) \subseteq Nat
      BY <1>1
    <3> QED BY <1>4, <3>1, LeastExists
  <2>2. m \in S /\ Cardinality(Above(S, m)) < k
    BY DEF Top
  <2>3. IsFiniteSet(Above(S, m)) /\ Cardinality(Above(S, m)) \in Nat
    BY <1>1, <2>2, BoundedFinite
  <2>4. /\ IsFiniteSet(Above(S, m) \cup {m})
        /\ Cardinality(Above(S, m) \cup {m}) = Cardinality(Above(S, m)) + 1
    <3>1. m \notin Above(S, m)
      BY <2>2 DEF Above
    <3> QED BY <2>3, <3>1, FS_AddElement
  <2>5. Top(S, k) \in SUBSET (Above(S, m) \cup {m})
    <3>1. ASSUME NEW e \in Top(S, k), e # m PROVE e \in Above(S, m)
      <4>1. e \in S /\ m <= e /\ e \in Nat /\ m \in Nat
        BY <1>1, <2>1 DEF Top
      <4> QED BY <3>1, <4>1 DEF Above
    <3> QED BY <3>1
  <2>6. Cardinality(Top(S, k)) <= Cardinality(Above(S, m) \cup {m})
    BY <2>4, <2>5, FS_Subset
  <2> QED BY <1>2, <2>2, <2>3, <2>4, <2>6
<1> QED BY <1>3, <1>4
=============================================================================
