------------------------------ MODULE NatOrder ------------------------------
(***************************************************************************)
(* Lemmas about sets of natural numbers, for the proofs about the other    *)
(* modules.                                                                *)
(***************************************************************************)
EXTENDS Integers, FiniteSetsExt, Ordering, FiniteSetTheorems, TLAPS

\* The code that scans a list of processors or of records from its beginning
\* finds the least number of a set: Min is one of them, and none is smaller.
LEMMA MinIsLeast ==
  ASSUME NEW S \in SUBSET Nat, S # {}
  PROVE  Min(S) \in S /\ \A m \in S : Min(S) <= m
<1>1. PICK x \in S : \A y \in S : <<y, x>> \notin OpToRel(<, Nat)
  BY WFMin, NatLessThanWellFounded, Zenon
<1>2. x \in Nat /\ S \subseteq Nat
  OBVIOUS
<1>3. \A y \in S : ~(y < x)
  <2>1. ASSUME NEW y \in S, y < x
        PROVE  FALSE
    <3>1. <<y, x>> \in OpToRel(<, Nat)
      BY <1>2, <2>1 DEF OpToRel
    <3>2. QED
      BY <1>1, <3>1
  <2>2. QED
    BY <2>1
<1>4. \A y \in S : x <= y
  BY <1>2, <1>3
<1>5. QED
  BY <1>4 DEF Min

\* The newest record of a variable has the greatest of a set of positions: Max
\* is one of them, and none is greater.
LEMMA MaxIsGreatest ==
  ASSUME NEW S \in SUBSET Nat, S # {}, NEW b \in Nat, \A m \in S : m <= b
  PROVE  Max(S) \in S /\ \A m \in S : m <= Max(S)
<1> DEFINE Bounds == {n \in Nat : \A m \in S : m <= n}
           x == Min(Bounds)
<1>1. x \in Bounds /\ \A n \in Bounds : x <= n
  <2>1. Bounds \in SUBSET Nat /\ b \in Bounds
    OBVIOUS
  <2>2. QED
    BY <2>1, MinIsLeast
<1> HIDE DEF x
<1>2. x \in S
  <2>1. SUFFICES ASSUME x \notin S
                 PROVE  FALSE
    OBVIOUS
  <2>2. \A m \in S : m < x /\ m \in Nat
    BY <1>1, <2>1
  <2>3. PICK m \in S : m < x /\ m \in Nat
    BY <2>2
  <2>4. x - 1 \in Nat /\ \A n \in S : n <= x - 1
    BY <1>1, <2>2, <2>3
  <2>5. x - 1 \in Bounds
    BY <2>4
  <2>6. QED
    BY <1>1, <2>5
<1>3. \A m \in S : x >= m
  BY <1>1
<1>4. Max(S) \in S /\ \A m \in S : Max(S) >= m
  BY <1>2, <1>3 DEF Max
<1>5. QED
  BY <1>4

\* A loop over a set of positions passes over each of them once, in their order.
LEMMA InOrderIsEnumeration ==
  ASSUME NEW S \in SUBSET Nat, IsFiniteSet(S)
  PROVE  /\ Cardinality(S) \in Nat
         /\ InOrder(S) \in [1 .. Cardinality(S) -> S]
         /\ \A i \in S : \E k \in 1 .. Cardinality(S) : InOrder(S)[k] = i
         /\ \A k, l \in 1 .. Cardinality(S) : k < l => InOrder(S)[k] < InOrder(S)[l]
<1> DEFINE Below(i) == {j \in S : j < i}
           n == Cardinality(S)
           rank == [i \in S |-> Cardinality(Below(i)) + 1]
<1>1. n \in Nat
  BY FS_CardinalityType
<1>2. \A i \in S : IsFiniteSet(Below(i)) /\ Cardinality(Below(i)) \in Nat /\ Cardinality(Below(i)) < n
  <2>1. TAKE i \in S
  <2>2. Below(i) \in SUBSET S /\ i \notin Below(i)
    OBVIOUS
  <2>3. IsFiniteSet(Below(i)) /\ Cardinality(Below(i)) <= n
        /\ (n = Cardinality(Below(i)) => S = Below(i))
    BY <2>2, FS_Subset
  <2>4. Cardinality(Below(i)) \in Nat
    BY <2>3, FS_CardinalityType
  <2>5. QED
    BY <1>1, <2>2, <2>3, <2>4
<1>3. \A i, j \in S : i < j => Cardinality(Below(i)) < Cardinality(Below(j))
  <2>1. SUFFICES ASSUME NEW i \in S, NEW j \in S, i < j
                 PROVE  Cardinality(Below(i)) < Cardinality(Below(j))
    OBVIOUS
  <2>2. Below(i) \in SUBSET Below(j) /\ i \in Below(j) /\ i \notin Below(i)
    <3>1. i \in Nat /\ j \in Nat /\ \A m \in S : m \in Nat
      OBVIOUS
    <3>2. \A m \in Below(i) : m \in Below(j)
      BY <2>1, <3>1
    <3>3. i \in Below(j) /\ i \notin Below(i)
      BY <2>1, <3>1
    <3>4. QED
      BY <3>2, <3>3
  <2>3. Cardinality(Below(i)) <= Cardinality(Below(j))
        /\ (Cardinality(Below(j)) = Cardinality(Below(i)) => Below(j) = Below(i))
    BY <1>2, <2>2, FS_Subset
  <2>4. QED
    BY <1>2, <2>2, <2>3
<1>4. rank \in [S -> 1 .. n] /\ \A i, j \in S : i < j => rank[i] < rank[j]
  BY <1>1, <1>2, <1>3
<1>5. rank \in Injection(S, 1 .. n)
  <2>1. \A i, j \in S : rank[i] = rank[j] => i = j
    BY <1>1, <1>4
  <2>2. QED
    BY <1>4, <2>1 DEF Injection, IsInjective
<1>6. rank \in Surjection(S, 1 .. n)
  <2>1. IsFiniteSet(1 .. n) /\ Cardinality(1 .. n) = n
    BY <1>1, FS_Interval
  <2>2. QED
    BY <1>5, <2>1, FS_Injection
<1>7. \A k \in 1 .. n : Nth(S, k) \in S /\ rank[Nth(S, k)] = k
  <2>1. TAKE k \in 1 .. n
  <2>2. PICK i \in S : rank[i] = k
    BY <1>6 DEF Surjection
  <2>3. Cardinality(Below(i)) = k - 1
    BY <1>2, <2>2
  <2>4. Nth(S, k) \in S /\ Cardinality(Below(Nth(S, k))) = k - 1
    BY <2>3 DEF Nth
  <2>5. QED
    BY <1>1, <2>4
<1> HIDE DEF rank
<1>8. InOrder(S) \in [1 .. n -> S] /\ \A k \in 1 .. n : rank[InOrder(S)[k]] = k
  BY <1>7 DEF InOrder
<1>9. ASSUME NEW i \in S
      PROVE  \E k \in 1 .. n : InOrder(S)[k] = i
  <2>1. rank[i] \in 1 .. n
    BY <1>4
  <2>2. rank[InOrder(S)[rank[i]]] = rank[i] /\ InOrder(S)[rank[i]] \in S
    BY <1>8, <2>1
  <2>3. QED
    BY <1>5, <2>1, <2>2 DEF Injection, IsInjective
<1>10. ASSUME NEW k \in 1 .. n, NEW l \in 1 .. n, k < l
       PROVE  InOrder(S)[k] < InOrder(S)[l]
  <2>1. PICK i \in S, j \in S : i = InOrder(S)[k] /\ j = InOrder(S)[l]
    BY <1>8
  <2>2. rank[i] = k /\ rank[j] = l /\ k \in Nat /\ l \in Nat /\ i \in Nat /\ j \in Nat
    BY <1>1, <1>8, <2>1
  <2>3. ~(j < i) /\ i # j
    BY <1>4, <1>10, <2>2
  <2>4. QED
    BY <2>1, <2>2, <2>3
<1>11. QED
  BY <1>1, <1>8, <1>9, <1>10
=============================================================================
