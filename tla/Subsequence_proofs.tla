-------------------------- MODULE Subsequence_proofs --------------------------
(***************************************************************************)
(* What Pick returns. The induction over positions is done with the least  *)
(* counterexample (WFMin), since the induction theorems of the library     *)
(* take an operator as a parameter.                                        *)
(***************************************************************************)
EXTENDS Subsequence, FiniteSetTheorems, WellFoundedInduction, TLAPS

\* A non-empty set of natural numbers has a least element.
LEMMA LeastNatural ==
    ASSUME NEW T \in SUBSET Nat, T # {}
    PROVE  \E m \in T : \A x \in T : m <= x
<1>1. PICK m \in T : \A x \in T : ~(<<x, m>> \in OpToRel(<, Nat))
  BY WFMin, NatLessThanWellFounded, Zenon
<1>2. \A x \in T : ~(x < m)
  BY <1>1, Zenon DEF OpToRel
<1>3. QED
  BY <1>2, SMT

\* Counting the positions up to n one at a time reaches every number up to their
\* cardinality: position k of a subsequence exists.
LEMMA NthExists ==
    ASSUME NEW n \in Nat, NEW I \in SUBSET (1 .. n), NEW k \in 1 .. Cardinality(I)
    PROVE  \E i \in I : Cardinality({j \in I : j <= i}) = k
<1> DEFINE upto(m) == {j \in I : j <= m}
           T == {m \in Nat : Cardinality(upto(m)) >= k}
<1> HIDE DEF upto, T
<1>0. \A j \in I : j \in Nat /\ 1 <= j /\ j <= n
  BY SMT
<1>1. IsFiniteSet(I) /\ Cardinality(I) \in Nat
  <2>1. IsFiniteSet(1 .. n)
    BY FS_Interval, SMT
  <2>2. QED
    BY <2>1, FS_Subset, FS_CardinalityType, Zenon
<1>2. ASSUME NEW m \in Nat
      PROVE  IsFiniteSet(upto(m)) /\ Cardinality(upto(m)) \in Nat
  <2>1. upto(m) \in SUBSET I
    BY DEF upto
  <2>2. QED
    BY <1>1, <2>1, FS_Subset, FS_CardinalityType, Zenon
<1>3. upto(n) = I
  BY <1>0, Zenon DEF upto
<1>4. n \in T
  BY <1>1, <1>3, SMT DEF T
<1>5. PICK m \in T : \A x \in T : m <= x
  <2>1. T \in SUBSET Nat /\ T # {}
    BY <1>4 DEF T
  <2>2. QED
    BY <2>1, LeastNatural, Zenon
<1>6. m \in Nat /\ Cardinality(upto(m)) >= k
  BY <1>5 DEF T
<1>7. m # 0
  <2>1. SUFFICES ASSUME m = 0 PROVE FALSE
    OBVIOUS
  <2>2. \A j \in I : ~(j <= 0)
    BY <1>0, SMT
  <2>3. upto(0) = {}
    BY <2>2, Zenon DEF upto
  <2>4. Cardinality(upto(0)) = 0
    BY <2>3, FS_EmptySet, Zenon
  <2>5. QED
    BY <1>6, <2>1, <2>4, SMT
<1>8. m - 1 \in Nat /\ m - 1 \notin T
  BY <1>5, <1>6, <1>7, SMT
<1>9. Cardinality(upto(m - 1)) \in Nat /\ Cardinality(upto(m - 1)) < k
  <2>1. Cardinality(upto(m - 1)) \in Nat
    BY <1>2, <1>8, Zenon
  <2>2. QED
    BY <1>8, <2>1, SMT DEF T
<1>10. \A j \in I : j <= m <=> (j <= m - 1 \/ j = m)
  BY <1>0, <1>6, SMT
<1>11. CASE m \in I
  <2>1. upto(m) = upto(m - 1) \cup {m}
    BY <1>10, <1>11, Zenon DEF upto
  <2>2. m \notin upto(m - 1)
    BY <1>6, SMT DEF upto
  <2>3. IsFiniteSet(upto(m - 1))
    BY <1>2, <1>8, Zenon
  <2>4. Cardinality(upto(m)) = Cardinality(upto(m - 1)) + 1
    BY <2>1, <2>2, <2>3, FS_AddElement, Zenon
  <2>5. Cardinality(upto(m)) = k
    BY <1>6, <1>9, <2>4, SMT
  <2>6. QED
    BY <1>11, <2>5, Zenon DEF upto
<1>12. CASE m \notin I
  <2>1. upto(m) = upto(m - 1)
    BY <1>10, <1>12, Zenon DEF upto
  <2>2. QED
    BY <1>6, <1>9, <2>1, SMT
<1>13. QED
  BY <1>11, <1>12

\* The n-th position is one of the positions.
LEMMA NthType ==
    ASSUME NEW n \in Nat, NEW I \in SUBSET (1 .. n), NEW k \in 1 .. Cardinality(I)
    PROVE  Nth(I, k) \in I
BY NthExists, Zenon DEF Nth

\* Filtering a sequence of members of S gives a sequence of members of S.
THEOREM PickType ==
    ASSUME NEW S, NEW s \in Seq(S), NEW I \in SUBSET (DOMAIN s)
    PROVE  Pick(s, I) \in Seq(S)
<1>1. Len(s) \in Nat /\ DOMAIN s = 1 .. Len(s) /\ s \in [1 .. Len(s) -> S]
  OBVIOUS
<1>2. Cardinality(I) \in Nat
  <2>1. IsFiniteSet(1 .. Len(s))
    BY <1>1, FS_Interval, SMT
  <2>2. QED
    BY <1>1, <2>1, FS_Subset, FS_CardinalityType, Zenon
<1>3. \A k \in 1 .. Cardinality(I) : s[Nth(I, k)] \in S
  <2>1. \A k \in 1 .. Cardinality(I) : Nth(I, k) \in I
    BY <1>1, NthType, Zenon
  <2>2. QED
    BY <1>1, <2>1, Zenon
<1>4. Pick(s, I) \in [1 .. Cardinality(I) -> S]
  BY <1>3, Zenon DEF Pick
<1>5. QED
  BY <1>2, <1>4, SMT

\* Two positions with as many positions up to them are the same: no position is counted
\* twice, so the k-th position is the one with k positions up to it.
LEMMA NthOnto ==
    ASSUME NEW n \in Nat, NEW I \in SUBSET (1 .. n), NEW i \in I
    PROVE  /\ Cardinality({j \in I : j <= i}) \in 1 .. Cardinality(I)
           /\ Nth(I, Cardinality({j \in I : j <= i})) = i
<1> DEFINE upto(m) == {j \in I : j <= m}
           k == Cardinality(upto(i))
<1> HIDE DEF upto, k
<1>0. \A j \in I : j \in Nat /\ 1 <= j /\ j <= n
  BY SMT
<1>1. IsFiniteSet(I) /\ Cardinality(I) \in Nat
  <2>1. IsFiniteSet(1 .. n)
    BY FS_Interval, SMT
  <2>2. QED
    BY <2>1, FS_Subset, FS_CardinalityType, Zenon
<1>2. ASSUME NEW m
      PROVE  /\ upto(m) \in SUBSET I
             /\ IsFiniteSet(upto(m)) /\ Cardinality(upto(m)) \in Nat
             /\ Cardinality(upto(m)) <= Cardinality(I)
  <2>1. upto(m) \in SUBSET I
    BY DEF upto
  <2>2. QED
    BY <1>1, <2>1, FS_Subset, FS_CardinalityType, Zenon
<1>3. k \in 1 .. Cardinality(I)
  <2>1. i \in upto(i)
    BY <1>0, SMT DEF upto
  <2>2. Cardinality(upto(i)) # 0
    BY <1>2, <2>1, FS_EmptySet, Zenon
  <2>3. QED
    BY <1>1, <1>2, <2>2, SMT DEF k
<1>4. ASSUME NEW a \in I, NEW b \in I, a < b
      PROVE  Cardinality(upto(a)) # Cardinality(upto(b))
  <2>1. upto(a) \in SUBSET upto(b)
    <3>1. \A j \in I : j <= a => j <= b
      BY <1>0, <1>4, SMT
    <3>2. QED
      BY <3>1, Zenon DEF upto
  <2>2. b \in upto(b) /\ b \notin upto(a)
    BY <1>0, <1>4, SMT DEF upto
  <2>3. QED
    BY <1>2, <2>1, <2>2, FS_Subset, Zenon
<1>5. \A a \in I : Cardinality(upto(a)) = k => a = i
  <2>1. \A a \in I : a < i \/ i < a \/ a = i
    BY <1>0, SMT
  <2>2. QED
    BY <1>4, <2>1, Zenon DEF k
<1>6. Nth(I, k) \in I /\ Cardinality(upto(Nth(I, k))) = k
  <2>1. \E a \in I : Cardinality(upto(a)) = k
    BY <1>3, NthExists, Zenon DEF upto
  <2>2. Nth(I, k) = CHOOSE a \in I : Cardinality(upto(a)) = k
    BY Zenon DEF Nth, upto
  <2>3. QED
    BY <2>1, <2>2, Zenon
<1>7. Nth(I, k) = i
  BY <1>5, <1>6, Zenon
<1>8. QED
  BY <1>3, <1>7, Zenon DEF upto, k

\* Filtering keeps the elements at the chosen positions, and no others.
THEOREM PickKeeps ==
    ASSUME NEW S, NEW s \in Seq(S), NEW I \in SUBSET (DOMAIN s)
    PROVE  /\ \A i \in I : \E k \in DOMAIN Pick(s, I) : Pick(s, I)[k] = s[i]
           /\ \A k \in DOMAIN Pick(s, I) : \E i \in I : Pick(s, I)[k] = s[i]
<1>1. Len(s) \in Nat /\ DOMAIN s = 1 .. Len(s)
  OBVIOUS
<1>2. DOMAIN Pick(s, I) = 1 .. Cardinality(I)
  BY DEF Pick
<1>3. \A k \in 1 .. Cardinality(I) : Pick(s, I)[k] = s[Nth(I, k)]
  BY DEF Pick
<1>4. \A i \in I : \E k \in 1 .. Cardinality(I) : Nth(I, k) = i
  BY <1>1, NthOnto, Zenon
<1>5. \A k \in 1 .. Cardinality(I) : Nth(I, k) \in I
  BY <1>1, NthType, Zenon
<1>6. QED
  BY <1>2, <1>3, <1>4, <1>5, Zenon

\* Filtering keeps the order: the positions the elements had are increasing, and they are
\* all the chosen ones.
THEOREM PickOrder ==
    ASSUME NEW S, NEW s \in Seq(S), NEW I \in SUBSET (DOMAIN s)
    PROVE  \E at \in [DOMAIN Pick(s, I) -> I] :
              /\ \A k \in DOMAIN Pick(s, I) : Pick(s, I)[k] = s[at[k]]
              /\ \A k, l \in DOMAIN Pick(s, I) : k < l => at[k] < at[l]
              /\ \A i \in I : \E k \in DOMAIN Pick(s, I) : at[k] = i
<1> DEFINE c == Cardinality(I)
           upto(m) == {j \in I : j <= m}
           pos == [k \in 1 .. c |-> Nth(I, k)]
<1>1. Len(s) \in Nat /\ DOMAIN s = 1 .. Len(s) /\ I \in SUBSET (1 .. Len(s))
  OBVIOUS
<1>2. \A j \in I : j \in Nat
  BY <1>1, SMT
<1>3. IsFiniteSet(I) /\ c \in Nat
  <2>1. IsFiniteSet(1 .. Len(s))
    BY <1>1, FS_Interval, SMT
  <2>2. QED
    BY <1>1, <2>1, FS_Subset, FS_CardinalityType, Zenon
<1>4. DOMAIN Pick(s, I) = 1 .. c /\ \A k \in 1 .. c : Pick(s, I)[k] = s[Nth(I, k)]
  BY DEF Pick
<1>5. \A k \in 1 .. c : Nth(I, k) \in I
  BY <1>1, NthType, Zenon
<1>6. \A k \in 1 .. c : Cardinality(upto(Nth(I, k))) = k
  <2>1. TAKE k \in 1 .. c
  <2>2. \E i \in I : Cardinality(upto(i)) = k
    BY <1>1, NthExists, Zenon
  <2>3. QED
    BY <2>2, Zenon DEF Nth
<1>7. \A k, l \in 1 .. c : k < l => Nth(I, k) < Nth(I, l)
  <2>1. SUFFICES ASSUME NEW k \in 1 .. c, NEW l \in 1 .. c, k < l, ~(Nth(I, k) < Nth(I, l))
                 PROVE  FALSE
    OBVIOUS
  <2>2. Nth(I, l) <= Nth(I, k) /\ Nth(I, l) \in Nat /\ Nth(I, k) \in Nat
    BY <1>2, <1>5, <2>1
  <2>3. upto(Nth(I, l)) \in SUBSET upto(Nth(I, k))
    <3>1. \A j \in I : j <= Nth(I, l) => j <= Nth(I, k)
      BY <1>2, <2>2, SMT
    <3>2. QED
      BY <3>1, Zenon
  <2>4. IsFiniteSet(upto(Nth(I, k)))
    <3>1. upto(Nth(I, k)) \in SUBSET I
      OBVIOUS
    <3>2. QED
      BY <1>3, <3>1, FS_Subset, Zenon
  <2>5. Cardinality(upto(Nth(I, l))) <= Cardinality(upto(Nth(I, k)))
    BY <2>3, <2>4, FS_Subset, Zenon
  <2>6. l <= k
    BY <1>6, <2>5, Zenon
  <2>7. QED
    BY <1>3, <2>1, <2>6
<1>8. \A i \in I : \E k \in 1 .. c : Nth(I, k) = i
  BY <1>1, NthOnto, Zenon
<1>9. pos \in [1 .. c -> I] /\ \A k \in 1 .. c : pos[k] = Nth(I, k)
  BY <1>5
<1> HIDE DEF pos, c
<1>10. pos \in [DOMAIN Pick(s, I) -> I]
  BY <1>4, <1>9, Zenon
<1>11. \A k \in DOMAIN Pick(s, I) : Pick(s, I)[k] = s[pos[k]]
  BY <1>4, <1>9, Zenon
<1>12. \A k, l \in DOMAIN Pick(s, I) : k < l => pos[k] < pos[l]
  BY <1>4, <1>7, <1>9
<1>13. \A i \in I : \E k \in DOMAIN Pick(s, I) : pos[k] = i
  BY <1>4, <1>8, <1>9, Zenon
<1>14. QED
  BY <1>10, <1>11, <1>12, <1>13, Zenon

\* Some position of a sequence is its last one with a property.
LEMMA GreatestPosition ==
    ASSUME NEW n \in Nat, NEW T \in SUBSET (1 .. n), T # {}
    PROVE  \E m \in T : \A x \in T : x <= m
<1> DEFINE U == {n - x : x \in T}
<1>1. \A x \in T : x \in Nat /\ n - x \in Nat
  BY SMT
<1>2. U \in SUBSET Nat /\ U # {}
  BY <1>1, Zenon
<1>3. PICK u \in U : \A y \in U : u <= y
  BY <1>2, LeastNatural
<1>4. PICK m \in T : u = n - m
  BY <1>3
<1>5. \A x \in T : n - m <= n - x
  BY <1>3, <1>4, Zenon
<1>6. \A x \in T : x <= m
  BY <1>1, <1>4, <1>5, SMT
<1>7. QED
  BY <1>4, <1>6
==============================================================================
