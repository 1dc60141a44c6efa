-------------------------- MODULE NvramSync_proofs --------------------------
(***************************************************************************)
(* Type correctness of NvramSync, and the proofs that the buffers of DXE   *)
(* follow those of SMM and that the MOR request is guarded, for any        *)
(* variables, sizes of the stores, keys and numbers of calls and errors.   *)
(***************************************************************************)
EXTENDS NvramSync, NatOrder, SequenceTheorems, TLAPS

---------------------------------------------------------------------------
\* Stores and the values in them.

\* The value of a variable in one store.
Value(l, v) == ValueAt(l, Find(l, Len(l), v))

\* What a store may hold: its own variables, no more records than fit.
Recorded == Data \cup (0 .. 2) \cup {Absent}
Fits(l, s) ==
    /\ l \in Seq(Record) /\ Len(l) <= Cap(s)
    /\ \A i \in 1 .. Len(l) : StoreOf(l[i].var) = s

\* The record that is found is the last one of its variable.
LEMMA FindIsLast ==
  ASSUME NEW l, Len(l) \in Nat, NEW e \in Nat, NEW v
  PROVE  /\ RecordsOf(l, e, v) = {} => Find(l, e, v) = 0
         /\ RecordsOf(l, e, v) # {} =>
              /\ Find(l, e, v) \in RecordsOf(l, e, v)
              /\ \A i \in RecordsOf(l, e, v) : i <= Find(l, e, v)
         /\ Find(l, e, v) \in 0 .. Len(l) /\ Find(l, e, v) <= e
<1>1. RecordsOf(l, e, v) \in SUBSET Nat /\ \A i \in RecordsOf(l, e, v) : i <= e /\ i <= Len(l)
  BY DEF RecordsOf
<1>2. RecordsOf(l, e, v) = {} => Find(l, e, v) = 0
  BY DEF Find
<1>3. RecordsOf(l, e, v) # {} =>
        /\ Find(l, e, v) \in RecordsOf(l, e, v)
        /\ \A i \in RecordsOf(l, e, v) : i <= Find(l, e, v)
  BY <1>1, MaxIsGreatest DEF Find
<1>4. QED
  BY <1>1, <1>2, <1>3

\* The value is that of a record no later record of the variable follows.
LEMMA ValueOfLast ==
  ASSUME NEW l, Len(l) \in Nat, NEW v, NEW i \in RecordsOf(l, Len(l), v),
         \A j \in RecordsOf(l, Len(l), v) : j <= i
  PROVE  Value(l, v) = l[i].val /\ Find(l, Len(l), v) = i
<1>1. Find(l, Len(l), v) \in RecordsOf(l, Len(l), v) /\ i <= Find(l, Len(l), v)
  BY FindIsLast
<1>2. Find(l, Len(l), v) <= i /\ i \in 1 .. Len(l) /\ Find(l, Len(l), v) \in 1 .. Len(l)
  BY <1>1 DEF RecordsOf
<1>3. Find(l, Len(l), v) = i /\ i # 0
  BY <1>1, <1>2
<1>4. QED
  BY <1>3 DEF Value, ValueAt

LEMMA ValueOfNone ==
  ASSUME NEW l, NEW v, RecordsOf(l, Len(l), v) = {}
  PROVE  Value(l, v) = Absent
  BY DEF Value, ValueAt, Find

\* A stored value is that of a record, or none is stored.
LEMMA ValueType ==
  ASSUME NEW l \in Seq(Record), NEW v
  PROVE  Value(l, v) \in Recorded
<1>1. Len(l) \in Nat /\ Find(l, Len(l), v) \in 0 .. Len(l)
  BY FindIsLast, LenProperties
<1>2. Find(l, Len(l), v) # 0 => l[Find(l, Len(l), v)] \in Record
  BY <1>1, ElementOfSeq
<1>3. QED
  BY <1>2 DEF Value, ValueAt, Record, Recorded

---------------------------------------------------------------------------
\* What SetVariable makes of a store.

LEMMA DeletedStore ==
  ASSUME NEW l \in Seq(Record), NEW v \in Var
  PROVE  /\ Deleted(l, v) \in Seq(Record) /\ Len(Deleted(l, v)) = Len(l)
         /\ \A i \in 1 .. Len(l) : Deleted(l, v)[i].var = l[i].var
         /\ \A w : w # v => RecordsOf(Deleted(l, v), Len(l), w) = RecordsOf(l, Len(l), w)
         /\ RecordsOf(Deleted(l, v), Len(l), v) = {}
         /\ \A i \in 1 .. Len(l) : l[i].var # v => Deleted(l, v)[i] = l[i]
<1>1. Len(l) \in Nat /\ \A i \in 1 .. Len(l) : l[i] \in Record
  BY LenProperties, ElementOfSeq
<1>2. \A i \in 1 .. Len(l) :
        /\ Deleted(l, v)[i] = IF l[i].var = v THEN [l[i] EXCEPT !.val = Absent] ELSE l[i]
        /\ Deleted(l, v)[i] \in Record /\ Deleted(l, v)[i].var = l[i].var
        /\ l[i].var = v => Deleted(l, v)[i].val = Absent
  BY <1>1 DEF Deleted, Record
<1>3. Deleted(l, v) \in Seq(Record) /\ Len(Deleted(l, v)) = Len(l)
  <2>1. Deleted(l, v) \in [1 .. Len(l) -> Record]
    BY <1>1, <1>2 DEF Deleted
  <2>2. QED
    BY <1>1, <2>1, IsASeq, LenProperties
<1>4. QED
  BY <1>1, <1>2, <1>3 DEF RecordsOf

LEMMA DeletedValue ==
  ASSUME NEW l \in Seq(Record), NEW v \in Var
  PROVE  /\ Value(Deleted(l, v), v) = Absent
         /\ \A w : w # v => Value(Deleted(l, v), w) = Value(l, w)
<1>1. Len(l) \in Nat
  BY LenProperties
<1>2. Value(Deleted(l, v), v) = Absent
  BY DeletedStore, ValueOfNone
<1>3. ASSUME NEW w, w # v
      PROVE  Value(Deleted(l, v), w) = Value(l, w)
  <2>1. RecordsOf(Deleted(l, v), Len(l), w) = RecordsOf(l, Len(l), w)
        /\ Len(Deleted(l, v)) = Len(l)
    BY <1>3, DeletedStore
  <2>2. Find(Deleted(l, v), Len(l), w) = Find(l, Len(l), w)
    BY <2>1 DEF Find
  <2>3. CASE RecordsOf(l, Len(l), w) = {}
    BY <2>1, <2>3, ValueOfNone
  <2>4. CASE RecordsOf(l, Len(l), w) # {}
    <3>1. Find(l, Len(l), w) \in RecordsOf(l, Len(l), w)
      BY <1>1, <2>4, FindIsLast
    <3>2. Deleted(l, v)[Find(l, Len(l), w)] = l[Find(l, Len(l), w)]
      BY <1>3, <3>1, DeletedStore DEF RecordsOf
    <3>3. QED
      BY <2>1, <2>2, <3>2 DEF Value, ValueAt
  <2>5. QED
    BY <2>3, <2>4
<1>4. QED
  BY <1>2, <1>3

LEMMA AppendedValue ==
  ASSUME NEW l \in Seq(Record), NEW v \in Var, NEW d \in Recorded, d # Absent
  PROVE  LET m == Append(l, [var |-> v, val |-> d]) IN
         /\ m \in Seq(Record) /\ Len(m) = Len(l) + 1
         /\ m[Len(l) + 1] = [var |-> v, val |-> d] /\ \A i \in 1 .. Len(l) : m[i] = l[i]
         /\ Value(m, v) = d /\ \A w : w # v => Value(m, w) = Value(l, w)
<1> DEFINE r == [var |-> v, val |-> d]
           m == Append(l, r)
           n == Len(l)
<1>1. n \in Nat /\ r \in Record
  BY LenProperties DEF Record, Recorded
<1>2. m \in Seq(Record) /\ Len(m) = n + 1 /\ m[n + 1] = r /\ \A i \in 1 .. n : m[i] = l[i]
  BY <1>1, AppendProperties
<1> HIDE DEF m
<1>3. Value(m, v) = d
  <2>1. n + 1 \in RecordsOf(m, n + 1, v) /\ \A j \in RecordsOf(m, n + 1, v) : j <= n + 1
    BY <1>1, <1>2 DEF RecordsOf
  <2>2. QED
    BY <1>1, <1>2, <2>1, ValueOfLast
<1>4. ASSUME NEW w, w # v
      PROVE  Value(m, w) = Value(l, w)
  <2>1. RecordsOf(m, n + 1, w) = RecordsOf(l, n, w)
    BY <1>1, <1>2, <1>4 DEF RecordsOf
  <2>2. Find(m, n + 1, w) = Find(l, n, w)
    BY <2>1 DEF Find
  <2>3. CASE RecordsOf(l, n, w) = {}
    BY <1>2, <2>1, <2>3, ValueOfNone
  <2>4. CASE RecordsOf(l, n, w) # {}
    <3>1. Find(l, n, w) \in 1 .. n
      BY <1>1, <2>4, FindIsLast DEF RecordsOf
    <3>2. QED
      BY <1>2, <2>2, <3>1 DEF Value, ValueAt
  <2>5. QED
    BY <2>3, <2>4
<1>5. QED
  BY <1>2, <1>3, <1>4 DEF m

\* The records that a garbage collection copies: one of each variable with a value.
LEMMA NewestRecords ==
  ASSUME NEW l \in Seq(Record)
  PROVE  /\ Newest(l) \in SUBSET (1 .. Len(l)) /\ IsFiniteSet(Newest(l))
         /\ \A i \in Newest(l) : l[i].val # Absent /\ Value(l, l[i].var) = l[i].val
         /\ \A i, j \in Newest(l) : l[i].var = l[j].var => i = j
         /\ \A v : RecordsOf(l, Len(l), v) # {} => \E i \in Newest(l) : l[i].var = v
<1>1. Len(l) \in Nat
  BY LenProperties
<1>2. Newest(l) \in SUBSET (1 .. Len(l)) /\ IsFiniteSet(Newest(l))
  <2>1. IsFiniteSet(1 .. Len(l)) /\ Newest(l) \in SUBSET (1 .. Len(l))
    BY <1>1, FS_Interval DEF Newest
  <2>2. QED
    BY <2>1, FS_Subset
<1>3. ASSUME NEW i \in Newest(l)
      PROVE  l[i].val # Absent /\ Value(l, l[i].var) = l[i].val
  <2>1. i = Find(l, Len(l), l[i].var) /\ i \in 1 .. Len(l) /\ i # 0
    BY <1>1 DEF Newest
  <2>2. i \in RecordsOf(l, Len(l), l[i].var)
    BY <1>1, <2>1, FindIsLast
  <2>3. QED
    BY <2>1, <2>2 DEF RecordsOf, Value, ValueAt
<1>4. \A i, j \in Newest(l) : l[i].var = l[j].var => i = j
  BY DEF Newest
<1>5. ASSUME NEW v, RecordsOf(l, Len(l), v) # {}
      PROVE  \E i \in Newest(l) : l[i].var = v
  <2>1. Find(l, Len(l), v) \in RecordsOf(l, Len(l), v)
    BY <1>1, <1>5, FindIsLast
  <2>2. QED
    BY <2>1 DEF RecordsOf, Newest
<1>6. QED
  BY <1>2, <1>3, <1>4, <1>5

\* A garbage collection keeps the values, and one record of each variable.
LEMMA CompactStore ==
  ASSUME NEW l \in Seq(Record)
  PROVE  /\ Compact(l) \in Seq(Record) /\ Len(Compact(l)) = Cardinality(Newest(l))
         /\ Cardinality(Newest(l)) <= Len(l)
         /\ \A k \in 1 .. Len(Compact(l)) : \E i \in Newest(l) : Compact(l)[k] = l[i]
         /\ \A w : Value(Compact(l), w) = Value(l, w)
<1> DEFINE S == Newest(l)
           n == Cardinality(S)
           m == Compact(l)
           f == InOrder(S)
<1>1. S \in SUBSET Nat /\ S \in SUBSET (1 .. Len(l)) /\ IsFiniteSet(S) /\ Len(l) \in Nat
  BY NewestRecords, LenProperties
<1>2. /\ n \in Nat /\ f \in [1 .. n -> S] /\ \A i \in S : \E k \in 1 .. n : f[k] = i
      /\ \A j, k \in 1 .. n : j < k => f[j] < f[k]
  BY <1>1, InOrderIsEnumeration
<1>3. n <= Len(l)
  <2>1. IsFiniteSet(1 .. Len(l)) /\ Cardinality(1 .. Len(l)) = Len(l)
    <3>1. 1 \in Int /\ Len(l) \in Int /\ Len(l) >= 0
      BY <1>1
    <3>2. /\ IsFiniteSet(1 .. Len(l))
          /\ Cardinality(1 .. Len(l)) = IF 1 > Len(l) THEN 0 ELSE Len(l) - 1 + 1
      BY <3>1, FS_Interval
    <3>3. QED
      BY <3>1, <3>2
  <2>2. QED
    BY <1>1, <2>1, FS_Subset
<1> HIDE DEF f, S, n
<1>4. m = [k \in 1 .. n |-> l[f[k]]]
  BY DEF Compact, f, S, n
<1> HIDE DEF m
<1>5. \A k \in 1 .. n : f[k] \in S /\ m[k] = l[f[k]] /\ m[k] \in Record
  BY <1>1, <1>2, <1>4, ElementOfSeq
<1>6. m \in Seq(Record) /\ Len(m) = n
  <2>1. m \in [1 .. n -> Record]
    BY <1>4, <1>5
  <2>2. QED
    BY <1>2, <2>1, IsASeq, LenProperties
<1>7. ASSUME NEW w
      PROVE  Value(m, w) = Value(l, w)
  <2>1. CASE RecordsOf(l, Len(l), w) = {}
    <3>1. \A i \in S : l[i].var # w
      BY <1>1, <2>1, NewestRecords DEF S, RecordsOf
    <3>2. RecordsOf(m, Len(m), w) = {}
      BY <1>5, <1>6, <3>1 DEF RecordsOf
    <3>3. QED
      BY <2>1, <3>2, ValueOfNone
  <2>2. CASE RecordsOf(l, Len(l), w) # {}
    <3>1. PICK i \in S : l[i].var = w
      BY <2>2, NewestRecords DEF S
    <3>2. PICK k \in 1 .. n : f[k] = i
      BY <1>2
    <3>3. l[i].val # Absent /\ Value(l, w) = l[i].val
      BY <3>1, NewestRecords DEF S
    <3>4. k \in RecordsOf(m, Len(m), w)
      BY <1>2, <1>5, <1>6, <3>1, <3>2, <3>3 DEF RecordsOf
    <3>5. ASSUME NEW j \in RecordsOf(m, Len(m), w)
          PROVE  j = k
      <4>1. j \in 1 .. n /\ l[f[j]].var = w /\ f[j] \in S
        BY <1>5, <1>6 DEF RecordsOf
      <4>2. f[j] = f[k]
        BY <3>1, <3>2, <4>1, NewestRecords DEF S
      <4>3. QED
        BY <1>1, <1>2, <1>5, <3>2, <4>1, <4>2
    <3>6. Len(m) \in Nat /\ k \in Nat /\ \A j \in RecordsOf(m, Len(m), w) : j <= k
      BY <1>2, <1>6, <3>5
    <3>7. Value(m, w) = m[k].val
      BY <3>4, <3>6, ValueOfLast
    <3>8. m[k] = l[i]
      BY <1>5, <3>2
    <3>9. QED
      BY <3>3, <3>7, <3>8
  <2>3. QED
    BY <2>1, <2>2
<1>8. QED
  BY <1>3, <1>5, <1>6, <1>7 DEF S, m, n

\* The variables of a store are no more than the records it has room for.
LEMMA Variables ==
  ASSUME NEW s \in Store
  PROVE  LET own == {w \in Var : StoreOf(w) = s}
         IN IsFiniteSet(own) /\ Cardinality(own) \in Nat /\ Cardinality(own) <= Cap(s)
<1> DEFINE own == {w \in Var : StoreOf(w) = s}
<1>1. CASE s = "NV"
  <2>1. own = {Mor, MorLock}
    BY <1>1, SyncAssumption DEF Var, StoreOf
  <2>2. IsFiniteSet({Mor}) /\ Cardinality({Mor}) = 1 /\ MorLock \notin {Mor}
    BY FS_Singleton DEF Mor, MorLock
  <2>3. IsFiniteSet({Mor} \cup {MorLock}) /\ Cardinality({Mor} \cup {MorLock}) = 2
    BY <2>2, FS_AddElement
  <2>4. own = {Mor} \cup {MorLock}
    BY <2>1
  <2>5. QED
    BY <1>1, <2>3, <2>4, SyncAssumption DEF Cap
<1>2. CASE s = "MEM"
  <2>1. own = Other
    BY <1>2, SyncAssumption DEF Var, StoreOf
  <2>2. QED
    BY <1>2, <2>1, SyncAssumption, FS_CardinalityType DEF Cap
<1>3. QED
  BY <1>1, <1>2 DEF Store

\* After a garbage collection that drops a variable there is room for a record.
LEMMA SpaceLeft ==
  ASSUME NEW v \in Var, NEW l, Fits(l, StoreOf(v)), RecordsOf(l, Len(l), v) = {}
  PROVE  Cardinality(Newest(l)) < Cap(StoreOf(v))
<1> DEFINE s == StoreOf(v)
           own == {w \in Var : StoreOf(w) = s}
           f == [i \in Newest(l) |-> l[i].var]
<1>1. l \in Seq(Record) /\ Len(l) \in Nat /\ s \in Store
  BY LenProperties DEF Fits, StoreOf, Store
<1>2. IsFiniteSet(own) /\ Cardinality(own) \in Nat /\ Cardinality(own) <= Cap(s) /\ v \in own
  BY <1>1, Variables
<1>3. IsFiniteSet(own \ {v}) /\ Cardinality(own \ {v}) = Cardinality(own) - 1
  BY <1>2, FS_RemoveElement
<1>4. \A i \in Newest(l) : l[i].var \in own \ {v}
  <2>1. TAKE i \in Newest(l)
  <2>2. i \in 1 .. Len(l) /\ l[i].val # Absent
    BY <1>1, NewestRecords
  <2>3. l[i].var \in own
    <3>1. l[i] \in Record
      BY <1>1, <2>2, ElementOfSeq
    <3>2. QED
      BY <2>2, <3>1 DEF Record, Fits
  <2>4. l[i].var # v
    BY <2>2 DEF RecordsOf
  <2>5. QED
    BY <2>3, <2>4
<1>5. f \in Injection(Newest(l), own \ {v})
  <2>1. \A i, j \in Newest(l) : f[i] = f[j] => i = j
    BY <1>1, NewestRecords
  <2>2. f \in [Newest(l) -> own \ {v}]
    BY <1>4
  <2>3. QED
    BY <2>1, <2>2 DEF Injection, IsInjective
<1>6. Cardinality(Newest(l)) <= Cardinality(own \ {v}) /\ Cardinality(Newest(l)) \in Nat
  BY <1>1, <1>3, <1>5, FS_Injection, NewestRecords, FS_CardinalityType
<1>7. Cap(s) \in Nat
  BY SyncAssumption DEF Cap
<1>8. QED
  BY <1>2, <1>3, <1>6, <1>7

LEMMA CompactFits ==
  ASSUME NEW s \in Store, NEW l, Fits(l, s)
  PROVE  Fits(Compact(l), s) /\ \A w : Value(Compact(l), w) = Value(l, w)
<1>1. l \in Seq(Record) /\ Len(l) \in Nat /\ Cap(s) \in Nat /\ Len(l) <= Cap(s)
  BY LenProperties, SyncAssumption DEF Fits, Cap
<1>2. /\ Compact(l) \in Seq(Record) /\ Len(Compact(l)) <= Len(l)
      /\ \A k \in 1 .. Len(Compact(l)) : \E i \in 1 .. Len(l) : Compact(l)[k] = l[i]
      /\ \A w : Value(Compact(l), w) = Value(l, w)
  <2>1. Newest(l) \in SUBSET (1 .. Len(l))
    BY <1>1, NewestRecords
  <2>2. QED
    BY <1>1, <2>1, CompactStore
<1>3. Len(Compact(l)) <= Cap(s)
  BY <1>1, <1>2, LenProperties
<1>4. QED
  BY <1>2, <1>3 DEF Fits

\* SetVariable stores the value it is given and leaves the other variables alone.
LEMMA PutStore ==
  ASSUME NEW v \in Var, NEW d \in Recorded, NEW l, Fits(l, StoreOf(v))
  PROVE  /\ Fits(Put(l, v, d), StoreOf(v)) /\ Value(Put(l, v, d), v) = d
         /\ \A w : w # v => Value(Put(l, v, d), w) = Value(l, w)
<1> DEFINE s == StoreOf(v)
           gone == Deleted(l, v)
           r == [var |-> v, val |-> d]
<1>1. /\ l \in Seq(Record) /\ Len(l) \in Nat /\ Cap(s) \in Nat /\ Len(l) <= Cap(s)
      /\ s \in Store
  BY LenProperties, SyncAssumption DEF Fits, Cap, Store, StoreOf
<1>2. Fits(gone, s) /\ gone \in Seq(Record)
  BY <1>1, DeletedStore DEF Fits
<1>3. CASE d = Absent
  BY <1>1, <1>2, <1>3, DeletedValue DEF Put
<1>4. CASE d # Absent /\ d = Value(l, v)
  <2>1. Put(l, v, d) = l
    BY <1>4 DEF Put, Value
  <2>2. QED
    BY <1>4, <2>1
<1>5. CASE d # Absent /\ d # Value(l, v)
  <2> DEFINE m == IF Len(l) < Cap(s) THEN l ELSE Compact(gone)
  <2>1. Put(l, v, d) = Append(m, r)
    BY <1>5 DEF Put, Value
  <2>2. /\ Fits(m, s) /\ Len(m) \in Nat /\ Len(m) < Cap(s)
        /\ \A w : w # v => Value(m, w) = Value(l, w)
    <3>1. CASE Len(l) < Cap(s)
      BY <1>1, <3>1
    <3>2. CASE ~(Len(l) < Cap(s))
      <4>1. RecordsOf(gone, Len(gone), v) = {}
        BY <1>1, DeletedStore
      <4>2. Cardinality(Newest(gone)) < Cap(s)
        BY <1>2, <4>1, SpaceLeft
      <4>3. Len(Compact(gone)) < Cap(s) /\ Len(Compact(gone)) \in Nat
        BY <1>2, <4>2, CompactStore, LenProperties
      <4>4. Fits(Compact(gone), s) /\ \A w : Value(Compact(gone), w) = Value(gone, w)
        BY <1>1, <1>2, CompactFits
      <4>5. \A w : w # v => Value(Compact(gone), w) = Value(l, w)
        BY <1>1, <4>4, DeletedValue
      <4>6. QED
        BY <3>2, <4>3, <4>4, <4>5
    <3>3. QED
      BY <3>1, <3>2
  <2> HIDE DEF m
  <2>3. /\ Append(m, r) \in Seq(Record) /\ Len(Append(m, r)) = Len(m) + 1
        /\ Append(m, r)[Len(m) + 1] = r /\ \A i \in 1 .. Len(m) : Append(m, r)[i] = m[i]
        /\ Value(Append(m, r), v) = d /\ \A w : w # v => Value(Append(m, r), w) = Value(m, w)
    BY <1>5, <2>2, AppendedValue DEF Fits
  <2>4. Fits(Append(m, r), s)
    BY <1>1, <2>2, <2>3 DEF Fits
  <2>5. QED
    BY <2>1, <2>2, <2>3, <2>4
<1>6. QED
  BY <1>3, <1>4, <1>5

\* A write that is refused leaves the other variables alone as well.
LEMMA RefusedStore ==
  ASSUME NEW v \in Var, NEW d \in Recorded, NEW l, Fits(l, StoreOf(v)), NEW m \in Refused(l, v, d)
  PROVE  Fits(m, StoreOf(v)) /\ \A w : w # v => Value(m, w) = Value(l, w)
<1>1. StoreOf(v) \in Store
  BY DEF StoreOf, Store
<1>2. CASE m = l
  BY <1>2
<1>3. CASE m = Compact(l)
  BY <1>1, <1>3, CompactFits
<1>4. CASE m = Put(l, v, d)
  BY <1>4, PutStore
<1>5. QED
  BY <1>2, <1>3, <1>4 DEF Refused

---------------------------------------------------------------------------
\* The inductive invariant.

Stores == \A s \in Store : Fits(smm[s], s) /\ Fits(dxe[s], s)

\* In which order the stores change hands, and where the calls of DXE can be.
Modes ==
    /\ up => active
    /\ stopped = shutDown /\ (stopped => up) /\ (viaSmm => shutDown) /\ (morActive => up)
    /\ ~active => \A c \in Callers : pc[c] = "idle"
    /\ pc["query"] \notin {"read", "copy"}
    /\ pc["get"] # "idle" => arg \in Var
    /\ pc["get"] \notin {"idle", "read"} => ~viaSmm

\* What the MOR lock variable says of the lock.
MorAgrees ==
    /\ ~morActive => ~morLock /\ morKey = NoKey
    /\ LockAgrees

\* SMM and DXE hold the same records, or those of SMM have been collected since.
Current(l) == \A i \in 1 .. Len(l) : l[i].val = Value(l, l[i].var)
Copied ==
    up /\ ~stopped => \A s \in Store :
        dxe[s] = smm[s] \/ (Current(smm[s]) /\ \A v : Value(dxe[s], v) = Value(smm[s], v))

\* The values GetVariable may return include the present ones.
Seen ==
    pc["get"] # "idle" => /\ up => ValueIn(smm, arg) \in seen
                          /\ ~viaSmm => ValueIn(dxe, arg) \in seen

\* A store that is not marked, or has been enumerated in this ReenumerateVarStore,
\* has been enumerated to its end; the index is that of the unmarked stores.
Enumerated(s) ==
    (s = "NV" /\ \E c \in Callers : pc[c] = "mem") \/ \E c \in Callers : pc[c] = "clear"
Indexed(v) ==
    LET l == dxe[StoreOf(v)] IN
    IF index[v] = 0 THEN RecordsOf(l, Len(l), v) = {}
    ELSE index[v] <= Len(l) /\ l[index[v]].var = v
Marks ==
    \A s \in Store \ missed :
        /\ s \notin mask \/ Enumerated(s) => end[s] = Len(dxe[s])
        /\ s \notin mask /\ (\A c \in Callers : pc[c] # "index") =>
             \A v \in Var : StoreOf(v) = s => Indexed(v)

\* What GetVariable has found, or is going to find, has been seen.
WillFind ==
    LET l == dxe[StoreOf(arg)]
        e == end[StoreOf(arg)]
    IN e <= Len(l) /\ ValueAt(l, Find(l, e, arg)) \in seen
WillUseIndex ==
    LET l == dxe[StoreOf(arg)] IN
    IF index[arg] = 0 THEN Absent \in seen
    ELSE index[arg] <= end[StoreOf(arg)] /\ l[index[arg]].var = arg
HasFound ==
    LET l == dxe[StoreOf(arg)] IN
    IF pos = 0 THEN Absent \in seen
    ELSE pos <= Len(l) /\ l[pos].var = arg /\ l[pos].val \in seen
Reading ==
    ~viaSmm /\ StoreOf(arg) \notin missed /\ ~moved /\ pc["query"] # "index" =>
        /\ pc["get"] \in {"index", "read"} => WillFind
        /\ pc["get"] = "read" => WillUseIndex
        /\ pc["get"] = "copy" => HasFound

IInv == TypeOK /\ Stores /\ Modes /\ MorAgrees
CopyInv == Copied /\ Seen /\ Marks /\ Reading

---------------------------------------------------------------------------
\* Type correctness, and what the MOR lock variable says of the lock.

\* A step that is allowed while the lock variable reads other than 0.
MorStep ==
    morActive /\ ValueIn(smm, MorLock) # 0 /\ faults = 0 => ValueIn(smm', Mor) = ValueIn(smm, Mor)

LEMMA Constants ==
  /\ Mor \in Var /\ MorLock \in Var /\ Mor # MorLock /\ Mor \notin Other /\ MorLock \notin Other
  /\ StoreOf(Mor) = "NV" /\ StoreOf(MorLock) = "NV"
  /\ \A v \in Var : StoreOf(v) \in Store /\ Values(v) \cup {Absent} \subseteq Recorded
  /\ \A s \in Store : Cap(s) \in Nat /\ Cap(s) <= NvCap + MemCap
  /\ {0, 1, 2, Absent} \subseteq Recorded /\ Absent \notin {0, 1, 2}
  /\ MaxSets \in Nat /\ MaxFaults \in Nat /\ NvCap \in Nat /\ MemCap \in Nat
<1>1. Mor # MorLock
  BY DEF Mor, MorLock
<1>2. /\ {Mor, MorLock} \cap Other = {} /\ {NvCap, MemCap, MaxSets, MaxFaults} \subseteq Nat
      /\ Absent \notin Data \cup (0 .. 2) \cup Keys
  BY SyncAssumption
<1>3. \A v \in Var : StoreOf(v) \in Store /\ Values(v) \cup {Absent} \subseteq Recorded
  BY DEF StoreOf, Store, Values, Recorded
<1>4. \A s \in Store : Cap(s) \in Nat /\ Cap(s) <= NvCap + MemCap
  BY <1>2 DEF Cap
<1>5. {0, 1, 2, Absent} \subseteq Recorded /\ Absent \notin {0, 1, 2}
  BY <1>2 DEF Recorded
<1>6. QED
  BY <1>1, <1>2, <1>3, <1>4, <1>5 DEF Var, StoreOf

LEMMA ValuesIn ==
  ASSUME NEW stores, NEW v
  PROVE  ValueIn(stores, v) = Value(stores[StoreOf(v)], v)
  BY DEF ValueIn, Value

\* A call of SetVariable in SMM changes the value of its variable alone; a call
\* that reports an error is counted.
LEMMA StoredInSmm ==
  ASSUME TypeOK, Stores, NEW v \in Var, NEW d \in Recorded, sets < MaxSets, SmmSetVariableInt(v, d)
  PROVE  /\ smm' \in [Store -> Seq(Record)] /\ \A s \in Store : Fits(smm'[s], s)
         /\ sets' \in 0 .. MaxSets /\ faults' \in 0 .. MaxFaults
         /\ faults' # faults => faults' # 0
         /\ faults' = 0 => ValueIn(smm', v) = d
         /\ \A w : w # v => ValueIn(smm', w) = ValueIn(smm, w)
<1> DEFINE s == StoreOf(v)
<1>1. /\ s \in Store /\ Fits(smm[s], s) /\ smm \in [Store -> Seq(Record)]
      /\ faults \in 0 .. MaxFaults /\ sets \in 0 .. MaxSets /\ MaxFaults \in Nat /\ MaxSets \in Nat
  BY Constants DEF Stores, TypeOK
<1>2. /\ Fits(Put(smm[s], v, d), s) /\ Value(Put(smm[s], v, d), v) = d
      /\ \A w : w # v => Value(Put(smm[s], v, d), w) = Value(smm[s], w)
  BY <1>1, PutStore
<1>3. ASSUME NEW l \in Refused(smm[s], v, d)
      PROVE  Fits(l, s) /\ \A w : w # v => Value(l, w) = Value(smm[s], w)
  BY <1>1, RefusedStore
<1>4. sets' \in 0 .. MaxSets
  BY <1>1 DEF SmmSetVariableInt
<1>5. CASE smm' = [smm EXCEPT ![s] = Put(@, v, d)] /\ faults' = faults
  <2>1. /\ smm' \in [Store -> Seq(Record)] /\ smm'[s] = Put(smm[s], v, d)
        /\ \A t \in Store : t # s => smm'[t] = smm[t]
    BY <1>1, <1>2, <1>5 DEF Fits
  <2>2. \A t \in Store : Fits(smm'[t], t)
    BY <1>2, <2>1 DEF Stores
  <2>3. ASSUME NEW w, w # v
        PROVE  ValueIn(smm', w) = ValueIn(smm, w)
    <3>1. StoreOf(w) \in Store
      BY DEF StoreOf, Store
    <3>2. QED
      BY <1>2, <2>1, <2>3, <3>1, ValuesIn
  <2>4. ValueIn(smm', v) = d
    BY <1>2, <2>1, ValuesIn
  <2>5. QED
    BY <1>1, <1>4, <1>5, <2>1, <2>2, <2>3, <2>4
<1>6. CASE faults < MaxFaults /\ faults' = faults + 1
           /\ \E l \in Refused(smm[s], v, d) : smm' = [smm EXCEPT ![s] = l]
  <2>1. PICK l : /\ Fits(l, s) /\ smm' = [smm EXCEPT ![s] = l]
                 /\ \A w : w # v => Value(l, w) = Value(smm[s], w)
    BY <1>3, <1>6
  <2>2. l \in Seq(Record)
    BY <2>1 DEF Fits
  <2>3. smm' \in [Store -> Seq(Record)] /\ \A t \in Store : Fits(smm'[t], t)
    BY <1>1, <2>1, <2>2 DEF Stores
  <2>4. faults' \in 0 .. MaxFaults /\ faults' # 0
    BY <1>1, <1>6
  <2>5. ASSUME NEW w, w # v
        PROVE  ValueIn(smm', w) = ValueIn(smm, w)
    <3>1. smm'[StoreOf(w)] = IF StoreOf(w) = s THEN l ELSE smm[StoreOf(w)]
      BY <1>1, <2>1 DEF StoreOf, Store
    <3>2. QED
      BY <2>1, <2>5, <3>1, ValuesIn
  <2>6. QED
    BY <1>4, <2>3, <2>4, <2>5
<1>7. QED
  BY <1>5, <1>6 DEF SmmSetVariableInt

\* What a call of SMM leaves of the buffers of DXE and of the mailbox.
MailTyped ==
    /\ dxe \in [Store -> Seq(Record)] /\ (\A s \in Store : Fits(dxe[s], s))
    /\ mask \subseteq Store /\ missed \subseteq Store /\ {shutDown, stopped, moved} \subseteq BOOLEAN
    /\ stopped = shutDown

LEMMA Announced ==
  ASSUME TypeOK, Stores, Modes, NEW S \in SUBSET Store,
         NEW stores \in [Store -> Seq(Record)], \A s \in Store : Fits(stores[s], s),
         Announce(S, stores)
  PROVE  MailTyped' /\ (shutDown => shutDown')
<1>1. MailTyped
  BY DEF MailTyped, Stores, TypeOK, Modes
<1>2. CASE UNCHANGED <<mask, dxe, shutDown, stopped, missed, moved>>
  BY <1>1, <1>2 DEF MailTyped
<1>3. CASE shutDown' = TRUE /\ stopped' = TRUE /\ UNCHANGED <<mask, dxe, missed, moved>>
  BY <1>1, <1>3 DEF MailTyped
<1>4. CASE /\ mask' = mask \cup S /\ UNCHANGED <<shutDown, stopped>>
           /\ dxe' = [s \in Store |-> IF s \in S THEN stores[s] ELSE dxe[s]]
           /\ missed' = missed \cup
                {s \in S : \E c \in Callers : pc[c] = "clear" \/ (s = "NV" /\ pc[c] = "mem")}
           /\ moved' = (moved \/ (/\ pc["get"] \in {"index", "read", "copy"}
                                  /\ Moves(dxe[StoreOf(arg)], dxe'[StoreOf(arg)])))
  <2>1. dxe' \in [Store -> Seq(Record)] /\ (\A s \in Store : Fits(dxe'[s], s))
    BY <1>1, <1>4 DEF MailTyped
  <2>2. moved' \in BOOLEAN
    BY <1>4
  <2>3. QED
    BY <1>1, <1>4, <2>1, <2>2 DEF MailTyped
<1>5. QED
  BY <1>2, <1>3, <1>4 DEF Announce, Unannounced

\* The steps of SMM keep the types and the modes.
LEMMA SmmStep ==
  ASSUME IInv, up, smm' \in [Store -> Seq(Record)], \A s \in Store : Fits(smm'[s], s), MailTyped',
         shutDown => shutDown', UNCHANGED kept, morLock' \in BOOLEAN, morActive' \in BOOLEAN,
         morKey' \in Keys \cup {NoKey}, sets' \in 0 .. MaxSets, faults' \in 0 .. MaxFaults
  PROVE  TypeOK' /\ Stores' /\ Modes'
<1>1. /\ dxe' \in [Store -> Seq(Record)] /\ (\A s \in Store : Fits(dxe'[s], s))
      /\ mask' \subseteq Store /\ missed' \subseteq Store
      /\ {shutDown', stopped', moved'} \subseteq BOOLEAN /\ stopped' = shutDown'
  BY DEF MailTyped
<1>2. UNCHANGED <<end, index, up, migrated, active, viaSmm, pc, arg, pos, got>>
  BY DEF kept, call
<1>3. Stores'
  BY <1>1 DEF Stores
<1>4. TypeOK'
  <2>1. /\ end' \in [Store -> Nat]
        /\ \A s \in Store : Len(smm'[s]) <= Cap(s) /\ Len(dxe'[s]) <= Cap(s) /\ end'[s] <= Cap(s)
    BY <1>1, <1>2 DEF Fits, IInv, TypeOK
  <2>2. {shutDown', up', stopped', migrated', active', viaSmm', morLock', morActive', moved'}
          \subseteq BOOLEAN
    BY <1>1, <1>2 DEF IInv, TypeOK
  <2>3. QED
    BY <1>1, <1>2, <2>1, <2>2 DEF IInv, TypeOK
<1>5. Modes'
  BY <1>1, <1>2 DEF IInv, Modes
<1>6. QED
  BY <1>3, <1>4, <1>5

\* MorAgrees only depends on the lock, on the errors and on the variable.
LEMMA MorUnchanged ==
  ASSUME MorAgrees, UNCHANGED <<smm, mor, faults>>
  PROVE  MorAgrees'
  BY DEF MorAgrees, LockAgrees, ValueIn, mor

\* What ResetMorVariables leaves of the non-volatile store, and what of it is
\* announced: l and m are the store it leaves and the store it copies.
MorReset(l, m) ==
    /\ Fits(l, "NV") /\ Fits(m, "NV") /\ smm' = [smm EXCEPT !["NV"] = l]
    /\ \A w : w \notin {Mor, MorLock} => Value(l, w) = Value(smm["NV"], w)
    /\ sets' \in 0 .. MaxSets
    /\ faults' \in 0 .. MaxFaults /\ (faults' = 0 => Value(l, MorLock) = 0)
    /\ Unannounced \/ Announce({"NV"}, [smm EXCEPT !["NV"] = m])

LEMMA MorVariablesReset ==
  ASSUME TypeOK, Stores, ResetMorVariables \/ ResetMorVariablesFails
  PROVE  \E l, m : MorReset(l, m)
<1>1. /\ Fits(smm["NV"], "NV") /\ faults \in 0 .. MaxFaults /\ MaxFaults \in Nat
      /\ sets \in 0 .. MaxSets /\ MaxSets \in Nat
  BY Constants DEF TypeOK, Stores, Store
<1>2. ASSUME NEW v \in {Mor, MorLock}, NEW k, Fits(k, "NV"),
             \A w : w \notin {Mor, MorLock} => Value(k, w) = Value(smm["NV"], w)
      PROVE  /\ Fits(Put(k, v, 0), "NV") /\ Value(Put(k, v, 0), v) = 0
             /\ \A w : w # v => Value(Put(k, v, 0), w) = Value(k, w)
             /\ \A w : w \notin {Mor, MorLock} => Value(Put(k, v, 0), w) = Value(smm["NV"], w)
             /\ \A l \in Refused(k, v, 0) :
                    /\ Fits(l, "NV")
                    /\ \A w : w \notin {Mor, MorLock} => Value(l, w) = Value(smm["NV"], w)
  <2>1. v \in Var /\ StoreOf(v) = "NV" /\ 0 \in Recorded
    BY Constants
  <2>2. /\ Fits(Put(k, v, 0), "NV") /\ Value(Put(k, v, 0), v) = 0
        /\ \A w : w # v => Value(Put(k, v, 0), w) = Value(k, w)
    BY <1>2, <2>1, PutStore
  <2>3. ASSUME NEW l \in Refused(k, v, 0)
        PROVE  Fits(l, "NV") /\ \A w : w # v => Value(l, w) = Value(k, w)
    BY <1>2, <2>1, RefusedStore
  <2>4. QED
    BY <1>2, <2>2, <2>3
<1>3. /\ Fits(Unlocked, "NV") /\ Value(Unlocked, MorLock) = 0
      /\ \A w : w \notin {Mor, MorLock} => Value(Unlocked, w) = Value(smm["NV"], w)
  BY <1>1, <1>2 DEF Unlocked
<1>4. CASE ResetMorVariables
  <2>1. PICK l \in {Unlocked, Requested(Unlocked)} :
          NvBecomes(l) /\ Announce({"NV"}, smm') /\ faults' = faults /\ sets' = sets
    BY <1>4 DEF ResetMorVariables, counts
  <2>2. /\ Fits(l, "NV") /\ Value(l, MorLock) = 0
        /\ \A w : w \notin {Mor, MorLock} => Value(l, w) = Value(smm["NV"], w)
    BY <1>2, <1>3, <2>1, Constants DEF Requested
  <2>3. MorReset(l, l)
    BY <1>1, <2>1, <2>2 DEF MorReset, NvBecomes
  <2>4. QED
    BY <2>3
<1>5. CASE ResetMorVariablesFails
  <2>1. faults' \in 0 .. MaxFaults /\ faults' # 0 /\ sets' \in 0 .. MaxSets
    BY <1>1, <1>5 DEF ResetMorVariablesFails
  <2>2. ASSUME NEW l \in Refused(smm["NV"], MorLock, 0)
        PROVE  /\ Fits(l, "NV") /\ Fits(Requested(l), "NV")
               /\ \A w : w \notin {Mor, MorLock} =>
                      Value(l, w) = Value(smm["NV"], w) /\ Value(Requested(l), w) = Value(smm["NV"], w)
               /\ \A m \in Refused(l, Mor, 0) :
                      /\ Fits(m, "NV")
                      /\ \A w : w \notin {Mor, MorLock} => Value(m, w) = Value(smm["NV"], w)
    BY <1>1, <1>2 DEF Requested
  <2>3. ASSUME NEW l \in Refused(smm["NV"], MorLock, 0), NvBecomes(l), Unannounced
        PROVE  MorReset(l, l)
    BY <2>1, <2>2, <2>3 DEF MorReset, NvBecomes
  <2>4. ASSUME NEW l \in Refused(smm["NV"], MorLock, 0), NvBecomes(Requested(l)),
               Announce({"NV"}, smm')
        PROVE  MorReset(Requested(l), Requested(l))
    BY <2>1, <2>2, <2>4 DEF MorReset, NvBecomes
  <2>5. ASSUME NEW l \in Refused(smm["NV"], MorLock, 0), NEW m \in Refused(l, Mor, 0),
               NvBecomes(m), Unannounced
        PROVE  MorReset(m, m)
    BY <2>1, <2>2, <2>5 DEF MorReset, NvBecomes
  <2>6. ASSUME NEW l \in Refused(Unlocked, Mor, 0), NvBecomes(l),
               Announce({"NV"}, [smm EXCEPT !["NV"] = Unlocked])
        PROVE  MorReset(l, Unlocked)
    BY <1>2, <1>3, <2>1, <2>6 DEF MorReset, NvBecomes
  <2>7. QED
    BY <1>5, <2>3, <2>4, <2>5, <2>6 DEF ResetMorVariablesFails
<1>6. QED
  BY <1>4, <1>5

LEMMA SmmReadyToLockStep ==
  ASSUME IInv, SmmReadyToLock
  PROVE  /\ IInv'
         /\ \A v : ValueIn(smm', v) = ValueIn(smm, v) \/ (v \in {Mor, MorLock} /\ ~morActive)
<1>1. /\ smm \in [Store -> Seq(Record)] /\ Fits(smm["NV"], "NV") /\ "NV" \in Store
      /\ up /\ ~morActive /\ morActive' = TRUE /\ UNCHANGED <<kept, morLock, morKey>>
      /\ ~morLock /\ morKey = NoKey
  BY DEF SmmReadyToLock, IInv, TypeOK, Stores, Store, MorAgrees
<1>2. PICK l, m : MorReset(l, m)
  BY MorVariablesReset DEF SmmReadyToLock, IInv
<1>3. /\ smm' \in [Store -> Seq(Record)] /\ \A s \in Store : Fits(smm'[s], s)
      /\ smm'["NV"] = l /\ \A s \in Store : s # "NV" => smm'[s] = smm[s]
  BY <1>1, <1>2 DEF MorReset, Fits, IInv, Stores
<1>4. MailTyped' /\ (shutDown => shutDown')
  <2>1. CASE Unannounced
    BY <2>1 DEF Unannounced, MailTyped, IInv, TypeOK, Stores, Modes
  <2>2. CASE Announce({"NV"}, [smm EXCEPT !["NV"] = m])
    <3>1. /\ [smm EXCEPT !["NV"] = m] \in [Store -> Seq(Record)]
          /\ \A s \in Store : Fits([smm EXCEPT !["NV"] = m][s], s)
      BY <1>1, <1>2 DEF MorReset, Fits, IInv, Stores
    <3>2. {"NV"} \in SUBSET Store
      BY <1>1
    <3>3. QED
      BY <2>2, <3>1, <3>2, Announced DEF IInv
  <2>3. QED
    BY <1>2, <2>1, <2>2 DEF MorReset
<1>5. TypeOK' /\ Stores' /\ Modes'
  <2>1. /\ morLock' \in BOOLEAN /\ morActive' \in BOOLEAN /\ morKey' \in Keys \cup {NoKey}
        /\ sets' \in 0 .. MaxSets /\ faults' \in 0 .. MaxFaults
    BY <1>1, <1>2 DEF IInv, TypeOK, MorReset
  <2>2. QED
    BY <1>1, <1>3, <1>4, <2>1, SmmStep
<1>6. MorAgrees'
  <2>1. faults' = 0 => ValueIn(smm', MorLock) = 0
    BY <1>2, <1>3, Constants, ValuesIn DEF MorReset
  <2>2. QED
    BY <1>1, <2>1 DEF MorAgrees, LockAgrees
<1>7. ASSUME NEW v
      PROVE  ValueIn(smm', v) = ValueIn(smm, v) \/ (v \in {Mor, MorLock} /\ ~morActive)
  <2>1. StoreOf(v) \in Store
    BY DEF StoreOf, Store
  <2>2. QED
    BY <1>1, <1>2, <1>3, <2>1, ValuesIn DEF MorReset
<1>8. QED
  BY <1>5, <1>6, <1>7 DEF IInv

\* What either kind of SetVariable in SMM does to the stores, to their copies
\* and to the counts.
LEMMA StoredAndAnnounced ==
  ASSUME IInv, NEW v \in Var, NEW d \in Recorded, sets < MaxSets, SmmSetVariableInt(v, d)
  PROVE  /\ smm' \in [Store -> Seq(Record)] /\ \A s \in Store : Fits(smm'[s], s)
         /\ MailTyped' /\ (shutDown => shutDown')
<1>1. smm' \in [Store -> Seq(Record)] /\ \A s \in Store : Fits(smm'[s], s)
  BY StoredInSmm DEF IInv
<1>2. CASE Announce(Changed(v, d), smm')
  <2>1. Changed(v, d) \in SUBSET Store
    BY Constants DEF Changed
  <2>2. QED
    BY <1>1, <1>2, <2>1, Announced DEF IInv
<1>3. CASE Unannounced
  BY <1>1, <1>3 DEF Unannounced, MailTyped, IInv, TypeOK, Stores, Modes
<1>4. QED
  BY <1>1, <1>2, <1>3 DEF SmmSetVariableInt

LEMMA SmmSetVariableStep ==
  ASSUME IInv, NEW v \in Var, NEW d \in Values(v) \cup {Absent}, SmmSetVariable(v, d)
  PROVE  /\ IInv'
         /\ morActive /\ ValueIn(smm, MorLock) # 0 /\ faults = 0
              => ValueIn(smm', Mor) = ValueIn(smm, Mor)
<1>1. /\ up /\ sets < MaxSets /\ CheckForMorVariables(v, d) /\ SmmSetVariableInt(v, d)
      /\ morLock' = (morLock \/ (morActive /\ v = MorLock /\ d = 1))
      /\ UNCHANGED <<kept, morKey, morActive>> /\ d \in Recorded
  BY Constants DEF SmmSetVariable
<1>2. /\ smm' \in [Store -> Seq(Record)] /\ (\A s \in Store : Fits(smm'[s], s))
      /\ MailTyped' /\ (shutDown => shutDown')
  BY <1>1, StoredAndAnnounced
<1>3. /\ sets' \in 0 .. MaxSets /\ faults' \in 0 .. MaxFaults /\ (faults' # faults => faults' # 0)
      /\ faults' = 0 => ValueIn(smm', v) = d
      /\ \A w : w # v => ValueIn(smm', w) = ValueIn(smm, w)
  BY <1>1, StoredInSmm DEF IInv
<1>4. TypeOK' /\ Stores' /\ Modes'
  <2>1. morLock' \in BOOLEAN /\ morActive' \in BOOLEAN /\ morKey' \in Keys \cup {NoKey}
    BY <1>1 DEF IInv, TypeOK
  <2>2. QED
    BY <1>1, <1>2, <1>3, <2>1, SmmStep
<1>5. MorAgrees'
  <2>1. CASE ~morActive
    BY <1>1, <2>1 DEF MorAgrees, LockAgrees, IInv
  <2>2. CASE morActive /\ faults' # 0
    BY <1>1, <2>2 DEF MorAgrees, LockAgrees, IInv
  <2>3. CASE morActive /\ faults' = 0 /\ v # MorLock
    BY <1>1, <1>3, <2>3 DEF MorAgrees, LockAgrees, IInv
  <2>4. CASE morActive /\ faults' = 0 /\ v = MorLock
    <3>1. faults = 0 /\ ~morLock /\ d # Absent /\ ValueIn(smm', MorLock) = d
      BY <1>1, <1>3, <2>4, Constants DEF CheckForMorVariables
    <3>2. morKey = NoKey /\ d \in {0, 1}
      <4>1. ValueIn(smm, MorLock) = 0
        BY <2>4, <3>1 DEF IInv, MorAgrees, LockAgrees
      <4>2. morKey = NoKey
        BY <2>4, <3>1, <4>1 DEF IInv, MorAgrees, LockAgrees
      <4>3. d \in {0, 1}
        BY <2>4, <3>1, Constants DEF Values
      <4>4. QED
        BY <4>2, <4>3
    <3>3. morLock' <=> d # 0
      <4>1. morLock' = (d = 1)
        BY <1>1, <2>4, <3>1
      <4>2. (d = 1) <=> d # 0
        BY <3>2
      <4>3. QED
        BY <4>1, <4>2
    <3>4. morActive' /\ morKey' = NoKey
      BY <1>1, <2>4, <3>2
    <3>5. QED
      BY <3>1, <3>3, <3>4 DEF MorAgrees, LockAgrees
  <2>5. QED
    BY <2>1, <2>2, <2>3, <2>4
<1>6. ASSUME morActive, ValueIn(smm, MorLock) # 0, faults = 0
      PROVE  ValueIn(smm', Mor) = ValueIn(smm, Mor)
  <2>1. morLock
    BY <1>6 DEF IInv, MorAgrees, LockAgrees
  <2>2. v # Mor
    BY <1>1, <1>6, <2>1, Constants DEF CheckForMorVariables
  <2>3. QED
    BY <1>3, <1>6, <2>2
<1>7. QED
  BY <1>4, <1>5, <1>6 DEF IInv

LEMMA MorLockKeyStep ==
  ASSUME IInv, NEW k \in Keys, MorLockKey(k)
  PROVE  IInv' /\ ValueIn(smm', Mor) = ValueIn(smm, Mor)
<1>1. /\ up /\ morActive /\ sets < MaxSets /\ UNCHANGED <<kept, morActive>>
  BY DEF MorLockKey
<1>2. ASSUME NEW d \in {0, 2}, SmmSetVariableInt(MorLock, d), morLock' \in BOOLEAN,
             morKey' \in Keys \cup {NoKey}, morLock' <=> d # 0, morKey' # NoKey => d = 2
      PROVE  IInv' /\ ValueIn(smm', Mor) = ValueIn(smm, Mor)
  <2>1. d \in Recorded
    BY Constants
  <2>2. /\ smm' \in [Store -> Seq(Record)] /\ (\A s \in Store : Fits(smm'[s], s))
        /\ MailTyped' /\ (shutDown => shutDown')
    BY <1>1, <1>2, <2>1, Constants, StoredAndAnnounced
  <2>3. /\ sets' \in 0 .. MaxSets /\ faults' \in 0 .. MaxFaults
        /\ ValueIn(smm', Mor) = ValueIn(smm, Mor) /\ (faults' = 0 => ValueIn(smm', MorLock) = d)
    BY <1>1, <1>2, <2>1, Constants, StoredInSmm DEF IInv
  <2>4. TypeOK' /\ Stores' /\ Modes'
    <3>1. morActive' \in BOOLEAN
      BY <1>1 DEF IInv, TypeOK
    <3>2. QED
      BY <1>1, <1>2, <2>2, <2>3, <3>1, SmmStep
  <2>5. MorAgrees'
    BY <1>1, <1>2, <2>3 DEF MorAgrees, LockAgrees
  <2>6. QED
    BY <2>3, <2>4, <2>5 DEF IInv
<1>3. CASE /\ ~morLock /\ morLock' = TRUE /\ morKey' = k /\ SmmSetVariableInt(MorLock, 2)
  BY <1>2, <1>3
<1>4. CASE /\ morLock' = FALSE /\ morKey' = NoKey /\ SmmSetVariableInt(MorLock, 0)
  BY <1>2, <1>4
<1>5. CASE /\ morLock /\ morKey # NoKey /\ morKey # k /\ morKey' = NoKey
           /\ UNCHANGED <<smm, dxe, mask, shutDown, stopped, missed, moved, morLock, counts>>
  <2>1. /\ smm' \in [Store -> Seq(Record)] /\ (\A s \in Store : Fits(smm'[s], s))
        /\ MailTyped' /\ (shutDown => shutDown')
    BY <1>5 DEF IInv, TypeOK, Stores, Modes, MailTyped
  <2>2. /\ sets' \in 0 .. MaxSets /\ faults' \in 0 .. MaxFaults /\ morLock' \in BOOLEAN
        /\ morActive' \in BOOLEAN /\ morKey' \in Keys \cup {NoKey}
    BY <1>1, <1>5 DEF IInv, TypeOK, counts
  <2>3. TypeOK' /\ Stores' /\ Modes'
    BY <1>1, <2>1, <2>2, SmmStep
  <2>4. MorAgrees' /\ ValueIn(smm', Mor) = ValueIn(smm, Mor)
    BY <1>1, <1>5 DEF MorAgrees, LockAgrees, IInv, ValueIn, counts
  <2>5. QED
    BY <2>3, <2>4 DEF IInv
<1>6. QED
  BY <1>3, <1>4, <1>5 DEF MorLockKey

\* IndexReset enters no record behind the last one that a store has room for.
LEMMA IndexTyped ==
  ASSUME NEW d \in [Store -> Seq(Record)], NEW e \in [Store -> Nat],
         \A s \in Store : Len(d[s]) <= Cap(s)
  PROVE  /\ IndexOf(d, e) \in [Var -> 0 .. NvCap + MemCap]
         /\ \A v \in Var :
              LET found == RecordsOf(d[StoreOf(v)], e[StoreOf(v)], v) IN
              /\ found = {} => IndexOf(d, e)[v] = 0
              /\ found # {} => /\ IndexOf(d, e)[v] \in found
                               /\ \A i \in found : IndexOf(d, e)[v] <= i
<1>1. ASSUME NEW v \in Var
      PROVE  LET found == RecordsOf(d[StoreOf(v)], e[StoreOf(v)], v) IN
             /\ found = {} => IndexOf(d, e)[v] = 0
             /\ found # {} => /\ IndexOf(d, e)[v] \in found
                              /\ \A i \in found : IndexOf(d, e)[v] <= i
             /\ IndexOf(d, e)[v] \in 0 .. NvCap + MemCap
  <2> DEFINE s == StoreOf(v)
             found == RecordsOf(d[s], e[s], v)
  <2>1. /\ s \in Store /\ Len(d[s]) \in Nat /\ e[s] \in Nat /\ Len(d[s]) <= NvCap + MemCap
        /\ NvCap \in Nat /\ MemCap \in Nat
    BY Constants, LenProperties
  <2>2. found \in SUBSET Nat /\ \A i \in found : i <= NvCap + MemCap
    BY <2>1 DEF RecordsOf
  <2>3. IndexOf(d, e)[v] = IF found = {} THEN 0 ELSE Min(found)
    BY DEF IndexOf
  <2>4. found # {} => Min(found) \in found /\ \A i \in found : Min(found) <= i
    BY <2>2, MinIsLeast
  <2>5. QED
    BY <2>1, <2>2, <2>3, <2>4
<1>2. IndexOf(d, e) \in [Var -> 0 .. NvCap + MemCap]
  BY <1>1 DEF IndexOf
<1>3. QED
  BY <1>1, <1>2

\* Before SMM takes over a call of SetVariable leaves everything to DXE.
LEMMA DxeSetVariableStep ==
  ASSUME IInv, NEW v \in Var, NEW d \in Values(v) \cup {Absent}, DxeSetVariable(v, d)
  PROVE  IInv' /\ UNCHANGED smm /\ \A s \in Store : end'[s] = Len(dxe'[s])
<1> DEFINE s == StoreOf(v)
           l == Put(dxe[s], v, d)
<1>1. /\ sets < MaxSets /\ sets' = sets + 1 /\ dxe' = [dxe EXCEPT ![s] = l]
      /\ end' = [t \in Store |-> Len(dxe'[t])] /\ index' = IndexOf(dxe', end')
      /\ UNCHANGED <<smm, mailbox, mor, call, faults, ghosts>>
      /\ s \in Store /\ d \in Recorded /\ MaxSets \in Nat
  BY Constants DEF DxeSetVariable
<1>2. dxe \in [Store -> Seq(Record)] /\ Fits(l, s)
  BY <1>1, PutStore DEF IInv, TypeOK, Stores
<1>3. dxe' \in [Store -> Seq(Record)] /\ \A t \in Store : Fits(dxe'[t], t)
  BY <1>1, <1>2 DEF Fits, IInv, Stores
<1>4. end' \in [Store -> Nat] /\ (\A t \in Store : Len(dxe'[t]) <= Cap(t) /\ end'[t] <= Cap(t))
  <2>1. \A t \in Store : Len(dxe'[t]) \in Nat /\ Cap(t) \in Nat /\ Len(dxe'[t]) <= Cap(t)
    BY <1>3, Constants, LenProperties DEF Fits
  <2>2. QED
    BY <1>1, <2>1
<1>5. index' \in [Var -> 0 .. NvCap + MemCap]
  BY <1>1, <1>3, <1>4, IndexTyped
<1>6. sets' \in 0 .. MaxSets
  BY <1>1 DEF IInv, TypeOK
<1>7. TypeOK'
  <2>1. /\ smm' \in [Store -> Seq(Record)] /\ mask' \subseteq Store
        /\ pc' \in [Callers -> {"idle", "nv", "mem", "clear", "index", "read", "copy"}]
        /\ {shutDown', up', stopped', migrated', active', viaSmm', morLock', morActive', moved'}
              \subseteq BOOLEAN
    BY <1>1 DEF IInv, TypeOK, mailbox, mor, call, ghosts
  <2>2. /\ morKey' \in Keys \cup {NoKey} /\ faults' \in 0 .. MaxFaults
        /\ arg' \in Var \cup {Absent} /\ pos' \in 0 .. NvCap + MemCap
        /\ got' \in Data \cup (0 .. 2) \cup {Absent} /\ missed' \subseteq Store
    BY <1>1 DEF IInv, TypeOK, mor, call, ghosts
  <2>3. \A t \in Store : Len(smm'[t]) <= Cap(t)
    BY <1>1 DEF IInv, TypeOK
  <2>4. QED
    BY <1>3, <1>4, <1>5, <1>6, <2>1, <2>2, <2>3 DEF TypeOK
<1>8. Stores'
  BY <1>1, <1>3 DEF IInv, Stores
<1>9. Modes'
  BY <1>1 DEF IInv, Modes, mailbox, mor, call
<1>10. MorAgrees'
  BY <1>1, MorUnchanged DEF IInv
<1>11. QED
  BY <1>1, <1>7, <1>8, <1>9, <1>10 DEF IInv

\* The steps of a call of DXE: they leave the stores and their copies alone.
LEMMA CallStep ==
  ASSUME IInv, UNCHANGED <<smm, dxe, shutDown, up, stopped, migrated, active, mor, counts>>,
         end' \in [Store -> Nat], \A s \in Store : end'[s] <= Cap(s),
         index' \in [Var -> 0 .. NvCap + MemCap], mask' \subseteq Store, missed' \subseteq Store,
         {viaSmm', moved'} \subseteq BOOLEAN,
         pc' \in [Callers -> {"idle", "nv", "mem", "clear", "index", "read", "copy"}],
         arg' \in Var \cup {Absent}, pos' \in 0 .. NvCap + MemCap,
         got' \in Data \cup (0 .. 2) \cup {Absent}, Modes'
  PROVE  IInv'
<1>1. Stores' /\ MorAgrees'
  BY MorUnchanged DEF IInv, Stores, counts
<1>2. TypeOK'
  <2>1. {shutDown', up', stopped', migrated', active', viaSmm', morLock', morActive', moved'}
          \subseteq BOOLEAN
    BY DEF IInv, TypeOK, mor
  <2>2. /\ smm' \in [Store -> Seq(Record)] /\ dxe' \in [Store -> Seq(Record)]
        /\ \A s \in Store : Len(smm'[s]) <= Cap(s) /\ Len(dxe'[s]) <= Cap(s) /\ end'[s] <= Cap(s)
        /\ morKey' \in Keys \cup {NoKey} /\ faults' \in 0 .. MaxFaults /\ sets' \in 0 .. MaxSets
    BY DEF IInv, TypeOK, mor, counts
  <2>3. QED
    BY <2>1, <2>2 DEF TypeOK
<1>3. QED
  BY <1>1, <1>2 DEF IInv

\* What the calls find typed.
LEMMA CallTypes ==
  ASSUME IInv
  PROVE  /\ end \in [Store -> Nat] /\ \A s \in Store : end[s] <= Cap(s)
         /\ index \in [Var -> 0 .. NvCap + MemCap] /\ mask \subseteq Store /\ missed \subseteq Store
         /\ viaSmm \in BOOLEAN /\ moved \in BOOLEAN /\ shutDown \in BOOLEAN
         /\ pc \in [Callers -> {"idle", "nv", "mem", "clear", "index", "read", "copy"}]
         /\ arg \in Var \cup {Absent} /\ pos \in 0 .. NvCap + MemCap
         /\ got \in Data \cup (0 .. 2) \cup {Absent}
         /\ dxe \in [Store -> Seq(Record)] /\ (\A s \in Store : Len(dxe[s]) \in 0 .. Cap(s))
<1>1. \A s \in Store : Cap(s) \in Nat
  BY Constants
<1>2. \A s \in Store : Len(dxe[s]) \in 0 .. Cap(s)
  BY <1>1, LenProperties DEF IInv, TypeOK
<1>3. QED
  BY <1>2 DEF IInv, TypeOK

LEMMA TakeOverStep ==
  ASSUME IInv, NvramSmmInit \/ DxeReadyToLock \/ MigrateNvram
  PROVE  IInv' /\ UNCHANGED faults
         /\ (morActive => UNCHANGED smm) /\ UNCHANGED <<dxe, end>>
<1>1. CASE NvramSmmInit
  <2>1. /\ ~active /\ ~up /\ smm' = dxe /\ up' = TRUE /\ active' = TRUE
        /\ UNCHANGED <<dxe, end, index, mask, shutDown, stopped, migrated, viaSmm, mor, call,
                       counts, ghosts>>
    BY <1>1 DEF NvramSmmInit
  <2>2. ~morActive /\ Modes'
    BY <2>1 DEF IInv, Modes, mor, call
  <2>3. Stores' /\ MorAgrees'
    BY <2>1, <2>2 DEF IInv, Stores, MorAgrees, LockAgrees, mor
  <2>4. TypeOK'
    <3>1. {shutDown', up', stopped', migrated', active', viaSmm', morLock', morActive', moved'}
            \subseteq BOOLEAN
      BY <2>1 DEF IInv, TypeOK, mor, ghosts
    <3>2. /\ smm' \in [Store -> Seq(Record)] /\ dxe' \in [Store -> Seq(Record)]
          /\ end' \in [Store -> Nat]
          /\ \A s \in Store : Len(smm'[s]) <= Cap(s) /\ Len(dxe'[s]) <= Cap(s) /\ end'[s] <= Cap(s)
      BY <2>1 DEF IInv, TypeOK
    <3>3. QED
      BY <2>1, <3>1, <3>2 DEF IInv, TypeOK, mor, call, counts, ghosts
  <2>5. QED
    BY <2>1, <2>2, <2>3, <2>4 DEF IInv, counts
<1>2. ASSUME UNCHANGED <<copies, mask, shutDown, up, stopped, viaSmm, mor, call, counts, ghosts>>,
             migrated' \in BOOLEAN, active' \in BOOLEAN, active => active',
             ~active => \A c \in Callers : pc[c] = "idle"
      PROVE  IInv' /\ UNCHANGED faults /\ UNCHANGED smm /\ UNCHANGED <<dxe, end>>
  <2>1. Modes'
    BY <1>2 DEF IInv, Modes, mor, call
  <2>2. Stores' /\ MorAgrees'
    BY <1>2, MorUnchanged DEF IInv, Stores, copies, counts
  <2>3. TypeOK'
    BY <1>2 DEF IInv, TypeOK, copies, mor, call, counts, ghosts
  <2>4. QED
    BY <1>2, <2>1, <2>2, <2>3 DEF IInv, copies, counts
<1>3. CASE DxeReadyToLock
  BY <1>2, <1>3 DEF DxeReadyToLock, IInv, Modes, TypeOK
<1>4. CASE MigrateNvram
  BY <1>2, <1>4 DEF MigrateNvram, IInv, Modes, TypeOK
<1>5. QED
  BY <1>1, <1>3, <1>4

LEMMA CheckStep ==
  ASSUME IInv, NEW c \in Callers, Check(c)
  PROVE  /\ viaSmm' \in BOOLEAN
         /\ pc' \in [Callers -> {"idle", "nv", "mem", "clear", "index", "read", "copy"}]
         /\ pc'[c] = IF ~viaSmm' THEN "nv" ELSE Done(c)
         /\ \A b \in Callers \ {c} : pc'[b] = pc[b]
         /\ pc[c] = "idle" /\ active /\ (c = "query" => pc["get"] = "idle")
         /\ viaSmm' = (viaSmm \/ shutDown)
  BY CallTypes DEF Check, Goto, Done, May

LEMMA GetVariableStep ==
  ASSUME IInv, NEW v \in Asked, GetVariable(v)
  PROVE  IInv'
<1>1. /\ arg' = v /\ pos' = 0 /\ got' = Absent /\ moved' = FALSE
      /\ UNCHANGED <<copies, mask, shutDown, up, stopped, migrated, active, mor, counts, missed>>
      /\ v \in Var
  BY SyncAssumption DEF GetVariable
<1>2. /\ viaSmm' \in BOOLEAN
      /\ pc' \in [Callers -> {"idle", "nv", "mem", "clear", "index", "read", "copy"}]
      /\ pc'["get"] = IF ~viaSmm' THEN "nv" ELSE "read"
      /\ pc'["query"] = pc["query"] /\ active /\ viaSmm' = (viaSmm \/ shutDown)
  BY CheckStep DEF GetVariable, Callers, Done
<1>3. Modes'
  BY <1>1, <1>2 DEF IInv, Modes, mor
<1>4. 0 \in 0 .. NvCap + MemCap
  BY Constants
<1>5. QED
  BY <1>1, <1>2, <1>3, <1>4, CallStep, CallTypes DEF copies

LEMMA QueryVariableInfoStep ==
  ASSUME IInv, QueryVariableInfo
  PROVE  IInv'
<1>1. UNCHANGED <<copies, mask, shutDown, up, stopped, migrated, active, mor, arg, pos, got,
                  counts, ghosts>>
  BY DEF QueryVariableInfo
<1>2. /\ viaSmm' \in BOOLEAN
      /\ pc' \in [Callers -> {"idle", "nv", "mem", "clear", "index", "read", "copy"}]
      /\ pc'["query"] \in {"nv", "idle"} /\ pc'["get"] = pc["get"] /\ pc["get"] = "idle" /\ active
      /\ viaSmm' = (viaSmm \/ shutDown)
  BY CheckStep DEF QueryVariableInfo, Callers, Done
<1>3. Modes'
  BY <1>1, <1>2 DEF IInv, Modes, mor
<1>4. QED
  BY <1>1, <1>2, <1>3, CallStep, CallTypes DEF copies, ghosts

\* A call goes on: what a step leaves of the modes.
LEMMA GoneOn ==
  ASSUME IInv, NEW c \in Callers, NEW step \in {"nv", "mem", "clear", "index"}, At(c, step),
         NEW next \in {"mem", "clear", "index", Done(c)}, Goto(c, next),
         UNCHANGED <<active, shutDown, up, stopped, viaSmm, mor, arg>>
  PROVE  /\ Modes'
         /\ pc' \in [Callers -> {"idle", "nv", "mem", "clear", "index", "read", "copy"}]
<1>1. /\ pc' \in [Callers -> {"idle", "nv", "mem", "clear", "index", "read", "copy"}]
      /\ pc'[c] = next /\ \A b \in Callers \ {c} : pc'[b] = pc[b]
  BY CallTypes DEF Goto, Done
<1>2. pc[c] = step /\ active /\ (c = "get" => ~viaSmm /\ arg \in Var)
  BY DEF At, IInv, Modes
<1>3. \A b \in Callers : pc'[b] # "idle" => pc[b] # "idle"
  BY <1>1, <1>2
<1>4. pc'["query"] \notin {"read", "copy"}
  BY <1>1 DEF Callers, Done, IInv, Modes
<1>5. pc'["get"] # "idle" => arg' \in Var
  BY <1>3 DEF Callers, IInv, Modes
<1>6. pc'["get"] \notin {"idle", "read"} => ~viaSmm'
  BY <1>1, <1>2 DEF Callers, IInv, Modes
<1>7. QED
  BY <1>1, <1>2, <1>4, <1>5, <1>6 DEF IInv, Modes, mor

LEMMA EnumerateStep ==
  ASSUME IInv, NEW c \in Callers, NEW s \in Store,
         NEW step \in {"nv", "mem"}, At(c, step), NEW next \in {"mem", "clear"},
         Enumerate(c, s, next)
  PROVE  IInv'
<1>1. /\ Goto(c, next) /\ UNCHANGED <<smm, dxe, index, mailbox, mor, arg, pos, got, counts, moved>>
      /\ \/ end' = [end EXCEPT ![s] = Len(dxe[s])] /\ missed' = missed \ {s}
         \/ UNCHANGED <<end, missed>>
  BY DEF Enumerate
<1>2. /\ Modes'
      /\ pc' \in [Callers -> {"idle", "nv", "mem", "clear", "index", "read", "copy"}]
  BY <1>1, GoneOn DEF mailbox
<1>3. end' \in [Store -> Nat] /\ missed' \subseteq Store /\ \A t \in Store : end'[t] <= Cap(t)
  <2>1. Len(dxe[s]) \in Nat /\ Len(dxe[s]) <= Cap(s)
    BY CallTypes, Constants
  <2>2. QED
    BY <1>1, <2>1, CallTypes
<1>4. QED
  BY <1>1, <1>2, <1>3, CallStep, CallTypes DEF mailbox

LEMMA ClearMaskStep ==
  ASSUME IInv, NEW c \in Callers, ClearMask(c)
  PROVE  IInv'
<1>1. /\ At(c, "clear") /\ mask' = {} /\ Goto(c, IF mask = {} THEN Done(c) ELSE "index")
      /\ UNCHANGED <<copies, shutDown, up, stopped, migrated, active, viaSmm, mor, arg, pos, got,
                     counts, ghosts>>
  BY DEF ClearMask
<1>2. /\ Modes'
      /\ pc' \in [Callers -> {"idle", "nv", "mem", "clear", "index", "read", "copy"}]
  BY <1>1, GoneOn
<1>3. QED
  BY <1>1, <1>2, CallStep, CallTypes DEF copies, ghosts

LEMMA IndexResetStep ==
  ASSUME IInv, NEW c \in Callers, IndexReset(c)
  PROVE  IInv'
<1>1. /\ At(c, "index") /\ Goto(c, Done(c)) /\ index' = IndexOf(dxe, end)
      /\ UNCHANGED <<smm, dxe, end, mailbox, mor, arg, pos, got, counts, ghosts>>
  BY DEF IndexReset
<1>2. /\ Modes'
      /\ pc' \in [Callers -> {"idle", "nv", "mem", "clear", "index", "read", "copy"}]
  BY <1>1, GoneOn DEF mailbox
<1>3. index' \in [Var -> 0 .. NvCap + MemCap]
  <2>1. dxe \in [Store -> Seq(Record)] /\ end \in [Store -> Nat]
        /\ \A s \in Store : Len(dxe[s]) <= Cap(s)
    BY CallTypes DEF IInv, TypeOK
  <2>2. IndexOf(dxe, end) \in [Var -> 0 .. NvCap + MemCap]
    BY <2>1, IndexTyped
  <2>3. QED
    BY <1>1, <2>2
<1>4. QED
  BY <1>1, <1>2, <1>3, CallStep, CallTypes DEF mailbox, ghosts

\* The end of GetVariable.
LEMMA ReturnStep ==
  ASSUME IInv, NEW d \in Recorded, pc["get"] \in {"read", "copy"}, Return(d), moved' = FALSE,
         UNCHANGED <<copies, mailbox, mor, counts, missed>>
  PROVE  IInv'
<1>1. /\ pc' \in [Callers -> {"idle", "nv", "mem", "clear", "index", "read", "copy"}]
      /\ pc'["get"] = "idle" /\ pc'["query"] = pc["query"]
      /\ arg' = Absent /\ pos' = 0 /\ got' = d
  BY CallTypes DEF Return, Goto, Callers
<1>2. Modes'
  BY <1>1 DEF IInv, Modes, mailbox, mor, Callers
<1>3. 0 \in 0 .. NvCap + MemCap /\ got' \in Data \cup (0 .. 2) \cup {Absent}
  BY <1>1, Constants DEF Recorded
<1>4. QED
  BY <1>1, <1>2, <1>3, CallStep, CallTypes DEF copies, mailbox

LEMMA ReadInSmmStep ==
  ASSUME IInv, ReadInSmm
  PROVE  IInv'
<1>1. ValueIn(smm, arg) \in Recorded
  BY Constants, ValueType, ValuesIn DEF ReadInSmm, At, IInv, TypeOK, Modes
<1>2. QED
  BY <1>1, ReturnStep DEF ReadInSmm, At

LEMMA CopyDataStep ==
  ASSUME IInv, CopyData
  PROVE  IInv'
<1> DEFINE l == dxe[StoreOf(arg)]
           d == IF pos > Len(l) THEN Absent ELSE ValueAt(l, pos)
<1>1. d \in Recorded
  <2>1. /\ l \in Seq(Record) /\ Len(l) \in Nat /\ pos \in Nat
    BY Constants, LenProperties, CallTypes DEF CopyData, At, IInv, Modes
  <2> HIDE DEF l
  <2>2. pos \in 1 .. Len(l) => l[pos] \in Record
    BY <2>1, ElementOfSeq
  <2>3. pos \in 1 .. Len(l) => l[pos].val \in Recorded
    BY <2>2 DEF Record, Recorded
  <2>4. QED
    BY <2>1, <2>3, Constants DEF ValueAt
<1>2. QED
  BY <1>1, ReturnStep DEF CopyData, At

LEMMA SearchStep ==
  ASSUME IInv, Search
  PROVE  IInv'
<1>1. /\ At("get", "read") /\ ~viaSmm /\ pos' = FindRecord(arg) /\ Goto("get", "copy")
      /\ UNCHANGED <<copies, mailbox, mor, arg, got, counts, ghosts>>
  BY DEF Search
<1>2. /\ pc' \in [Callers -> {"idle", "nv", "mem", "clear", "index", "read", "copy"}]
      /\ pc'["get"] = "copy" /\ pc'["query"] = pc["query"] /\ pc["get"] = "read"
  BY <1>1, CallTypes DEF Goto, Callers, At
<1>3. Modes'
  BY <1>1, <1>2 DEF IInv, Modes, mailbox, mor, Callers
<1>4. pos' \in 0 .. NvCap + MemCap
  <2> DEFINE s == StoreOf(arg)
  <2>1. /\ s \in Store /\ Len(dxe[s]) \in Nat /\ end[s] \in Nat
        /\ Len(dxe[s]) <= Cap(s) /\ Cap(s) \in Nat /\ Cap(s) <= NvCap + MemCap
    BY <1>2, Constants, CallTypes DEF IInv, Modes
  <2>2. Find(dxe[s], end[s], arg) \in 0 .. Len(dxe[s])
    BY <2>1, FindIsLast
  <2>3. pos' \in {0, Find(dxe[s], end[s], arg)}
    BY <1>1 DEF FindRecord
  <2>4. QED
    BY <2>1, <2>2, <2>3, Constants
<1>5. QED
  BY <1>1, <1>2, <1>3, <1>4, CallStep, CallTypes DEF copies, mailbox, ghosts

LEMMA InitCorrect ==
  Init => IInv
<1>1. SUFFICES ASSUME Init PROVE IInv
  OBVIOUS
<1>2. /\ smm = [s \in Store |-> <<>>] /\ dxe = smm /\ end = [s \in Store |-> 0]
      /\ index = [v \in Var |-> 0]
      /\ mask = {} /\ sets = 0 /\ faults = 0 /\ morKey = NoKey
      /\ shutDown = FALSE /\ up = FALSE /\ stopped = FALSE /\ migrated = FALSE
      /\ active = FALSE /\ viaSmm = FALSE /\ morLock = FALSE /\ morActive = FALSE
      /\ pc = [c \in Callers |-> "idle"] /\ arg = Absent /\ pos = 0 /\ got = Absent
      /\ missed = {} /\ moved = FALSE
  BY <1>1 DEF Init
<1>3. \A s \in Store : /\ smm[s] = <<>> /\ dxe[s] = <<>> /\ Cap(s) \in Nat
                       /\ <<>> \in Seq(Record) /\ Len(<<>>) = 0
  BY <1>2, Constants
<1>4. Stores
  <2>1. \A s \in Store : Fits(<<>>, s)
    <3>1. 1 .. Len(<<>>) = {}
      OBVIOUS
    <3>2. QED
      BY <1>3, <3>1 DEF Fits
  <2>2. \A s \in Store : Fits(smm[s], s) /\ Fits(dxe[s], s)
    BY <1>3, <2>1
  <2>3. QED
    BY <2>2 DEF Stores
<1>5. Modes
  BY <1>2 DEF Modes, Callers
<1>6. MorAgrees
  BY <1>2 DEF MorAgrees, LockAgrees
<1>7. TypeOK
  <2>1. {shutDown, up, stopped, migrated, active, viaSmm, morLock, morActive, moved} \subseteq BOOLEAN
    BY <1>2
  <2>2. /\ smm \in [Store -> Seq(Record)] /\ dxe \in [Store -> Seq(Record)] /\ end \in [Store -> Nat]
        /\ \A s \in Store : Len(smm[s]) <= Cap(s) /\ Len(dxe[s]) <= Cap(s) /\ end[s] <= Cap(s)
    BY <1>2, <1>3
  <2>3. index \in [Var -> 0 .. NvCap + MemCap]
    BY <1>2, Constants
  <2>4. /\ faults \in 0 .. MaxFaults /\ sets \in 0 .. MaxSets /\ pos \in 0 .. NvCap + MemCap
    BY <1>2, Constants
  <2>5. pc \in [Callers -> {"idle", "nv", "mem", "clear", "index", "read", "copy"}]
    BY <1>2
  <2>6. QED
    BY <1>2, <2>1, <2>2, <2>3, <2>4, <2>5 DEF TypeOK
<1>8. QED
  BY <1>4, <1>5, <1>6, <1>7 DEF IInv

\* A step of the calls of DXE, which changes no store.
CallerStep ==
    \/ \E v \in Asked : GetVariable(v)
    \/ \E c \in Callers : EnumerateNv(c) \/ EnumerateMem(c) \/ ClearMask(c) \/ IndexReset(c)
    \/ QueryVariableInfo \/ ReadInSmm \/ Search \/ CopyData

LEMMA CallerSteps ==
  ASSUME IInv, CallerStep
  PROVE  IInv' /\ UNCHANGED <<smm, dxe, up, stopped, counts>>
<1>1. ASSUME NEW v \in Asked, GetVariable(v)
      PROVE  IInv' /\ UNCHANGED <<smm, dxe, up, stopped, counts>>
  BY <1>1, GetVariableStep DEF GetVariable, copies
<1>2. ASSUME NEW c \in Callers, EnumerateNv(c) \/ EnumerateMem(c)
      PROVE  IInv' /\ UNCHANGED <<smm, dxe, up, stopped, counts>>
  <2>1. PICK s \in Store, step \in {"nv", "mem"}, next \in {"mem", "clear"} :
          At(c, step) /\ Enumerate(c, s, next)
    BY <1>2 DEF EnumerateNv, EnumerateMem, Store
  <2>2. QED
    BY <2>1, EnumerateStep DEF Enumerate, mailbox
<1>3. ASSUME NEW c \in Callers, ClearMask(c)
      PROVE  IInv' /\ UNCHANGED <<smm, dxe, up, stopped, counts>>
  BY <1>3, ClearMaskStep DEF ClearMask, copies
<1>4. ASSUME NEW c \in Callers, IndexReset(c)
      PROVE  IInv' /\ UNCHANGED <<smm, dxe, up, stopped, counts>>
  BY <1>4, IndexResetStep DEF IndexReset, mailbox
<1>5. CASE QueryVariableInfo
  BY <1>5, QueryVariableInfoStep DEF QueryVariableInfo, copies
<1>6. CASE ReadInSmm
  BY <1>6, ReadInSmmStep DEF ReadInSmm, copies, mailbox
<1>7. CASE Search
  BY <1>7, SearchStep DEF Search, copies, mailbox
<1>8. CASE CopyData
  BY <1>8, CopyDataStep DEF CopyData, copies, mailbox
<1>9. QED
  BY <1>1, <1>2, <1>3, <1>4, <1>5, <1>6, <1>7, <1>8 DEF CallerStep

LEMMA StepCorrect ==
  IInv /\ [Next]_vars => IInv' /\ MorStep
<1>1. SUFFICES ASSUME IInv, [Next]_vars PROVE IInv' /\ MorStep
  OBVIOUS
<1>2. ASSUME NEW v \in Var, NEW d \in Values(v) \cup {Absent}, DxeSetVariable(v, d)
      PROVE  IInv' /\ MorStep
  BY <1>1, <1>2, DxeSetVariableStep DEF MorStep, ValueIn
<1>3. ASSUME NEW v \in Var, NEW d \in Values(v) \cup {Absent}, SmmSetVariable(v, d)
      PROVE  IInv' /\ MorStep
  BY <1>1, <1>3, SmmSetVariableStep DEF MorStep
<1>4. ASSUME NEW k \in Keys, MorLockKey(k)
      PROVE  IInv' /\ MorStep
  BY <1>1, <1>4, MorLockKeyStep DEF MorStep
<1>5. CASE SmmReadyToLock
  <2>1. ~morActive
    BY <1>5 DEF SmmReadyToLock
  <2>2. QED
    BY <1>1, <1>5, <2>1, SmmReadyToLockStep DEF MorStep
<1>6. CASE NvramSmmInit \/ DxeReadyToLock \/ MigrateNvram
  BY <1>1, <1>6, TakeOverStep DEF MorStep, ValueIn
<1>7. CASE CallerStep
  BY <1>1, <1>7, CallerSteps DEF MorStep, ValueIn
<1>8. CASE UNCHANGED vars
  <2>1. UNCHANGED <<smm, dxe, end, index, mor, counts, ghosts, call, mailbox>>
    BY <1>8 DEF vars, copies
  <2>2. Modes'
    BY <1>1, <2>1 DEF IInv, Modes, mailbox, call, mor
  <2>3. IInv'
    BY <1>1, <2>1, <2>2, CallStep, CallTypes DEF mailbox, call, ghosts, counts
  <2>4. QED
    BY <2>1, <2>3 DEF MorStep, ValueIn
<1>9. QED
  BY <1>1, <1>2, <1>3, <1>4, <1>5, <1>6, <1>7, <1>8 DEF Next, CallerStep

LEMMA Inductive ==
  Spec => []IInv /\ [][MorStep]_vars
<1>1. IInv /\ [Next]_vars => IInv' /\ [MorStep]_vars
  BY StepCorrect
<1>2. QED
  BY InitCorrect, <1>1, PTL DEF Spec

\* The stores, their copies, the mailbox and the calls keep their types: a store
\* holds records of known variables, never more than fit in it, whatever is
\* stored, collected, copied or enumerated (CopyVariables, NvramDxeCommon.c:2239).
THEOREM TypeCorrect == Spec => []TypeOK
<1>1. IInv => TypeOK
  BY DEF IInv
<1>2. QED
  BY Inductive, <1>1, PTL

\* The lock variable reads 0 exactly while the MOR request is not locked, and 2
\* while a key can unlock it, until a write reports an error (NvramSmm.c).
THEOREM LockVariableAgrees == Spec => []LockAgrees
<1>1. IInv => LockAgrees
  BY DEF IInv, MorAgrees
<1>2. QED
  BY Inductive, <1>1, PTL

\* Nobody changes the MOR request while the lock variable reads other than 0
\* (CheckForMorVariables), unless a write has failed before.
THEOREM MorRequestGuarded == Spec => MorGuarded
<1>1. QED
  BY Inductive, PTL DEF MorGuarded, MorStep

---------------------------------------------------------------------------
\* The buffers of DXE follow those of SMM, and what GetVariable finds in them.

\* What a store m keeps of the records of the variable a in an older store l.
Extends(l, m, a) ==
    /\ Len(l) <= Len(m)
    /\ \A i \in 1 .. Len(l) : l[i].var = a \/ m[i].var = a => m[i] = l[i]
\* Or none of them has a value outside X.
Fresh(m, a, X) == \A i \in 1 .. Len(m) : m[i].var = a => m[i].val \in X
Keeps(l, m, a, X) == Extends(l, m, a) \/ Fresh(m, a, X)

\* A garbage collection leaves the current value of each variable only.
LEMMA CompactCurrent ==
  ASSUME NEW l \in Seq(Record)
  PROVE  Current(Compact(l))
<1>1. ASSUME NEW k \in 1 .. Len(Compact(l))
      PROVE  Compact(l)[k].val = Value(Compact(l), Compact(l)[k].var)
  <2>1. PICK i \in Newest(l) : Compact(l)[k] = l[i]
    BY CompactStore
  <2>2. Value(l, l[i].var) = l[i].val
    BY NewestRecords
  <2>3. Value(Compact(l), l[i].var) = Value(l, l[i].var)
    BY CompactStore
  <2>4. QED
    BY <2>1, <2>2, <2>3
<1>2. QED
  BY <1>1 DEF Current

\* l is m, or a garbage collection of m.
Collected(l, m) == l = m \/ (Current(l) /\ \A v : Value(l, v) = Value(m, v))

LEMMA RefusedCollected ==
  ASSUME ~SilentFaults, NEW l \in Seq(Record), NEW v, NEW d, NEW m \in Refused(l, v, d)
  PROVE  Collected(m, l)
<1>1. {SilentFaults} \ {FALSE} = {}
  BY SyncAssumption
<1>2. m \in {l, Compact(l)}
  BY <1>1 DEF Refused
<1>3. QED
  BY <1>2, CompactStore, CompactCurrent DEF Collected

\* A garbage collection leaves of a variable its current value, or no record.
LEMMA CollectedKeeps ==
  ASSUME NEW l, NEW m, Collected(m, l), NEW a, NEW X, Value(l, a) \in X, NEW k, Keeps(k, l, a, X)
  PROVE  Keeps(k, m, a, X)
<1>1. CASE m = l
  BY <1>1
<1>2. CASE Current(m) /\ \A v : Value(m, v) = Value(l, v)
  BY <1>2 DEF Current, Keeps, Fresh
<1>3. QED
  BY <1>1, <1>2 DEF Collected

\* SetVariable keeps the records of a variable in place, unless its garbage
\* collection leaves the current value alone, or it deletes the variable.
LEMMA PutKeeps ==
  ASSUME NEW v \in Var, NEW d \in Recorded, NEW l, Fits(l, StoreOf(v)),
         NEW a, NEW X, Value(Put(l, v, d), a) \in X,
         NEW k, Len(k) \in Nat, Keeps(k, l, a, X)
  PROVE  Keeps(k, Put(l, v, d), a, X)
<1> DEFINE s == StoreOf(v)
           gone == Deleted(l, v)
           r == [var |-> v, val |-> d]
           p == Put(l, v, d)
<1>1. l \in Seq(Record) /\ Len(l) \in Nat /\ s \in Store
  BY LenProperties, Constants DEF Fits
<1>2. /\ gone \in Seq(Record) /\ Len(gone) = Len(l)
      /\ \A i \in 1 .. Len(l) : gone[i].var = l[i].var
      /\ \A i \in 1 .. Len(l) : l[i].var # v => gone[i] = l[i]
  BY <1>1, DeletedStore
<1>3. CASE d = Absent
  <2>1. p = gone
    BY <1>3 DEF Put
  <2>2. CASE v = a
    <3>1. \A i \in 1 .. Len(l) : l[i].var = v => gone[i].val = Absent
      <4>1. \A i \in 1 .. Len(l) : l[i] \in Record
        BY <1>1, ElementOfSeq
      <4>2. QED
        BY <1>1, <4>1 DEF Deleted, Record
    <3>2. Absent \in X
      BY <1>1, <2>1, <2>2, DeletedValue
    <3>3. QED
      BY <1>2, <2>1, <2>2, <3>1, <3>2 DEF Keeps, Fresh
  <2>3. CASE v # a
    <3>1. \A i \in 1 .. Len(l) : (l[i].var = a \/ gone[i].var = a) => gone[i] = l[i]
      BY <1>2, <2>3
    <3>2. Fresh(l, a, X) => Fresh(gone, a, X)
      BY <1>2, <3>1 DEF Fresh
    <3>3. Extends(k, l, a) => Extends(k, gone, a)
      BY <1>1, <1>2, <3>1 DEF Extends
    <3>4. QED
      BY <2>1, <3>2, <3>3 DEF Keeps
  <2>4. QED
    BY <2>2, <2>3
<1>4. CASE d # Absent /\ d = Value(l, v)
  BY <1>4 DEF Put, Value
<1>5. CASE d # Absent /\ d # Value(l, v) /\ Len(l) < Cap(s)
  <2>1. p = Append(l, r)
    BY <1>5 DEF Put, Value
  <2>2. /\ p \in Seq(Record) /\ Len(p) = Len(l) + 1 /\ p[Len(l) + 1] = r /\ Value(p, v) = d
        /\ \A i \in 1 .. Len(l) : p[i] = l[i]
    BY <1>1, <1>5, <2>1, AppendedValue
  <2> HIDE DEF p
  <2>3. Extends(k, l, a) => Extends(k, p, a)
    BY <1>1, <2>2 DEF Extends
  <2>4. Fresh(l, a, X) => Fresh(p, a, X)
    <3>1. SUFFICES ASSUME Fresh(l, a, X), NEW i \in 1 .. Len(p), p[i].var = a
                   PROVE  p[i].val \in X
      BY DEF Fresh
    <3>2. CASE i = Len(l) + 1
      BY <2>2, <3>1, <3>2 DEF p
    <3>3. CASE i # Len(l) + 1
      BY <1>1, <2>2, <3>1, <3>3 DEF Fresh
    <3>4. QED
      BY <3>2, <3>3
  <2>5. QED
    BY <2>3, <2>4 DEF Keeps, p
<1>6. CASE d # Absent /\ d # Value(l, v) /\ ~(Len(l) < Cap(s))
  <2> DEFINE m == Compact(gone)
  <2>1. p = Append(m, r)
    BY <1>6 DEF Put, Value
  <2>2. /\ m \in Seq(Record) /\ Current(m) /\ Len(m) \in Nat
        /\ \A j \in 1 .. Len(m) : \E i \in Newest(gone) : m[j] = gone[i]
    BY <1>2, CompactStore, CompactCurrent, LenProperties
  <2>3. /\ p \in Seq(Record) /\ Len(p) = Len(m) + 1 /\ p[Len(m) + 1] = r /\ Value(p, v) = d
        /\ (\A j \in 1 .. Len(m) : p[j] = m[j]) /\ \A w : w # v => Value(p, w) = Value(m, w)
    BY <1>6, <2>1, <2>2, AppendedValue
  <2> HIDE DEF p, m
  <2>4. \A j \in 1 .. Len(m) : m[j].var # v
    <3>1. SUFFICES ASSUME NEW j \in 1 .. Len(m)
                   PROVE  m[j].var # v
      OBVIOUS
    <3>2. PICK i \in Newest(gone) : m[j] = gone[i]
      BY <2>2
    <3>3. i \in 1 .. Len(gone) /\ gone[i].val # Absent
      BY <1>2, NewestRecords
    <3>4. RecordsOf(gone, Len(gone), v) = {} /\ Len(gone) \in Nat
      BY <1>1, <1>2, DeletedStore
    <3>5. QED
      BY <3>2, <3>3, <3>4 DEF RecordsOf
  <2>5. ASSUME NEW j \in 1 .. Len(p), p[j].var = a
        PROVE  p[j].val \in X
    <3>1. CASE j = Len(m) + 1
      <4>1. a = v /\ p[j].val = Value(p, a)
        BY <2>3, <2>5, <3>1
      <4>2. QED
        BY <4>1 DEF p
    <3>2. CASE j # Len(m) + 1
      <4>1. j \in 1 .. Len(m) /\ p[j] = m[j] /\ a # v
        BY <2>2, <2>3, <2>4, <2>5, <3>2
      <4>2. p[j].val = Value(p, a)
        BY <2>2, <2>3, <2>5, <4>1 DEF Current
      <4>3. QED
        BY <4>2 DEF p
    <3>3. QED
      BY <3>1, <3>2
  <2>6. QED
    BY <2>5 DEF Keeps, Fresh, p
<1>7. QED
  BY <1>3, <1>4, <1>5, <1>6

\* While the mailbox is open, the records of DXE are among those of SMM, or SMM
\* has none but current ones.
LEMMA BuffersAlike ==
  ASSUME IInv, CopyInv, up, ~stopped, pc["get"] # "idle", NEW X, seen \subseteq X
  PROVE  Keeps(dxe[StoreOf(arg)], smm[StoreOf(arg)], arg, X)
<1> DEFINE s == StoreOf(arg)
<1>1. s \in Store
  BY DEF StoreOf, Store
<1>2. CASE dxe[s] = smm[s]
  <2>1. Len(smm[s]) \in Nat
    BY <1>1, LenProperties DEF IInv, TypeOK
  <2>2. QED
    BY <1>2, <2>1 DEF Keeps, Extends
<1>3. CASE Current(smm[s])
  <2>1. Value(smm[s], arg) \in X
    BY ValuesIn DEF CopyInv, Seen
  <2>2. Fresh(smm[s], arg, X)
    BY <1>3, <2>1 DEF Current, Fresh
  <2>3. QED
    BY <2>2 DEF Keeps
<1>4. QED
  BY <1>1, <1>2, <1>3 DEF CopyInv, Copied

\* The buffers are copied while GetVariable reads one of them.
LEMMA FoundInCopy ==
  ASSUME IInv, CopyInv, pc["get"] # "idle", UNCHANGED kept, seen \subseteq seen',
         ~viaSmm, pc["query"] # "index", StoreOf(arg) \notin missed, ~moved,
         NEW m, m \in Seq(Record), m = dxe'[StoreOf(arg)],
         Keeps(dxe[StoreOf(arg)], m, arg, seen'), ~Moves(dxe[StoreOf(arg)], m)
  PROVE  /\ pc["get"] \in {"index", "read"} => WillFind'
         /\ pc["get"] = "read" => WillUseIndex'
         /\ pc["get"] = "copy" => HasFound'
<1> DEFINE s == StoreOf(arg)
           l == dxe[s]
           e == end[s]
<1>1. /\ s \in Store /\ l \in Seq(Record) /\ Len(l) \in Nat /\ Len(m) \in Nat /\ e \in Nat
      /\ arg \in Var /\ pos \in Nat /\ index[arg] \in Nat
  BY Constants, CallTypes, LenProperties DEF IInv, Modes
<1>2. UNCHANGED <<end, index, pc, arg, pos>>
  BY DEF kept, call
<1>3. Len(l) <= Len(m) /\ \A i \in 1 .. Len(l) : m[i].var = l[i].var
  <2>1. ASSUME Len(m) < Len(l) PROVE FALSE
    <3>1. Len(l) \in 1 .. Len(l) /\ Len(l) > Len(m)
      BY <1>1, <2>1
    <3>2. QED
      BY <3>1 DEF Moves
  <2>2. Len(l) <= Len(m)
    BY <1>1, <2>1
  <2>3. QED
    BY <2>2 DEF Moves
<1>4. ASSUME pc["get"] \in {"index", "read"}
      PROVE  /\ e <= Len(m) /\ ValueAt(m, Find(m, e, arg)) \in seen' /\ e <= Len(l)
             /\ WillFind'
  <2>1. e <= Len(l) /\ ValueAt(l, Find(l, e, arg)) \in seen
    BY <1>4 DEF CopyInv, Reading, WillFind
  <2>2. CASE Extends(l, m, arg)
    <3>1. RecordsOf(m, e, arg) = RecordsOf(l, e, arg)
      <4>1. \A i \in 1 .. e : i \in 1 .. Len(l) /\ i <= Len(l) /\ i <= Len(m)
        BY <1>1, <1>3, <2>1
      <4>2. \A i \in 1 .. e : l[i].var = arg \/ m[i].var = arg => m[i] = l[i]
        BY <2>2, <4>1 DEF Extends
      <4>3. QED
        BY <4>1, <4>2 DEF RecordsOf
    <3>2. Find(m, e, arg) = Find(l, e, arg)
      BY <3>1 DEF Find
    <3>3. ValueAt(m, Find(m, e, arg)) = ValueAt(l, Find(l, e, arg))
      <4>1. CASE RecordsOf(l, e, arg) = {}
        BY <1>1, <3>2, <4>1, FindIsLast DEF ValueAt
      <4>2. CASE RecordsOf(l, e, arg) # {}
        <5>1. Find(l, e, arg) \in RecordsOf(l, e, arg)
          BY <1>1, <4>2, FindIsLast
        <5>2. Find(l, e, arg) \in 1 .. Len(l) /\ l[Find(l, e, arg)].var = arg
          BY <1>1, <5>1 DEF RecordsOf
        <5>3. m[Find(l, e, arg)] = l[Find(l, e, arg)]
          BY <2>2, <5>2 DEF Extends
        <5>4. QED
          BY <3>2, <5>3 DEF ValueAt
      <4>3. QED
        BY <4>1, <4>2
    <3>4. QED
      BY <1>1, <1>2, <1>3, <2>1, <3>3 DEF WillFind
  <2>3. CASE Fresh(m, arg, seen')
    <3>1. CASE RecordsOf(m, e, arg) # {}
      <4>1. Find(m, e, arg) \in RecordsOf(m, e, arg)
        BY <1>1, <3>1, FindIsLast
      <4>2. ValueAt(m, Find(m, e, arg)) \in seen'
        BY <1>1, <2>3, <4>1 DEF RecordsOf, ValueAt, Fresh
      <4>3. QED
        BY <1>1, <1>2, <1>3, <2>1, <4>2 DEF WillFind
    <3>2. CASE RecordsOf(m, e, arg) = {}
      <4>1. Find(m, e, arg) = 0
        BY <1>1, <3>2, FindIsLast
      <4>2. Absent \in seen'
        <5>1. CASE \E i \in 1 .. e : m[i].var = arg
          <6>1. PICK i \in 1 .. e : m[i].var = arg
            BY <5>1
          <6>2. i \in 1 .. Len(m) /\ i <= Len(m)
            BY <1>1, <1>3, <2>1
          <6>3. m[i].val = Absent
            BY <3>2, <6>1, <6>2 DEF RecordsOf
          <6>4. QED
            BY <2>3, <6>1, <6>2, <6>3 DEF Fresh
        <5>2. CASE \A i \in 1 .. e : m[i].var # arg
          <6>1. \A i \in 1 .. e : l[i].var # arg
            BY <1>1, <1>3, <2>1, <5>2
          <6>2. RecordsOf(l, e, arg) = {}
            BY <6>1 DEF RecordsOf
          <6>3. Find(l, e, arg) = 0
            BY <6>2 DEF Find
          <6>4. QED
            BY <2>1, <6>3 DEF ValueAt
        <5>3. QED
          BY <5>1, <5>2
      <4>3. QED
        BY <1>1, <1>2, <1>3, <2>1, <4>1, <4>2 DEF WillFind, ValueAt
    <3>3. QED
      BY <3>1, <3>2
  <2>4. QED
    BY <2>2, <2>3 DEF Keeps
<1>5. ASSUME pc["get"] = "read"
      PROVE  WillUseIndex'
  <2>1. IF index[arg] = 0 THEN Absent \in seen ELSE index[arg] <= e /\ l[index[arg]].var = arg
    BY <1>5 DEF CopyInv, Reading, WillUseIndex
  <2>2. index[arg] # 0 => m[index[arg]].var = arg
    BY <1>1, <1>3, <1>4, <1>5, <2>1
  <2>3. QED
    BY <1>2, <2>1, <2>2 DEF WillUseIndex
<1>6. ASSUME pc["get"] = "copy"
      PROVE  HasFound'
  <2>1. IF pos = 0 THEN Absent \in seen ELSE pos <= Len(l) /\ l[pos].var = arg /\ l[pos].val \in seen
    BY <1>6 DEF CopyInv, Reading, HasFound
  <2>2. CASE pos = 0
    BY <1>2, <2>1, <2>2 DEF HasFound
  <2>3. CASE pos # 0
    <3>1. pos \in 1 .. Len(l) /\ pos \in 1 .. Len(m) /\ m[pos].var = arg
      BY <1>1, <1>3, <2>1, <2>3
    <3>2. m[pos].val \in seen'
      BY <2>1, <2>3, <3>1 DEF Keeps, Extends, Fresh
    <3>3. QED
      BY <1>1, <1>2, <2>3, <3>1, <3>2 DEF HasFound
  <2>4. QED
    BY <2>2, <2>3
<1>7. QED
  BY <1>4, <1>5, <1>6

\* The other parts of what holds while the mailbox is open, when SMM announces.
LEMMA AnnouncedCopies ==
  ASSUME IInv, CopyInv, up, NEW S \in SUBSET Store, UNCHANGED kept, Witness,
         NEW stores \in [Store -> Seq(Record)], Announce(S, stores),
         \A s \in Store : IF s \in S THEN Collected(smm'[s], stores[s])
                         ELSE smm'[s] = smm[s] /\ stores[s] = smm[s],
         ~stopped /\ pc["get"] # "idle" =>
             Keeps(dxe[StoreOf(arg)], stores[StoreOf(arg)], arg, seen')
  PROVE  CopyInv'
<1>1. /\ UNCHANGED <<end, index, up, migrated, active, viaSmm, pc, arg, pos, got>>
      /\ pc["get"] # "idle" => arg \in Var /\ StoreOf(arg) \in Store
      /\ pc["get"] # "idle" => seen \subseteq seen' /\ ValueIn(smm', arg) \in seen'
  BY Constants DEF kept, call, Witness, IInv, Modes
<1>2. CASE /\ dxe' = dxe /\ mask' = mask /\ missed' = missed /\ moved' = moved
           /\ stopped'
  <2>1. Copied'
    BY <1>2 DEF Copied
  <2>2. Seen'
    BY <1>1, <1>2 DEF Seen, ValueIn, CopyInv
  <2>3. Marks'
    BY <1>1, <1>2 DEF CopyInv, Marks, Enumerated, Indexed
  <2>4. Reading'
    BY <1>1, <1>2 DEF CopyInv, Reading, WillFind, WillUseIndex, HasFound
  <2>5. QED
    BY <2>1, <2>2, <2>3, <2>4 DEF CopyInv
<1>3. CASE /\ ~stopped /\ stopped' = stopped /\ mask' = mask \cup S
           /\ dxe' = [s \in Store |-> IF s \in S THEN stores[s] ELSE dxe[s]]
           /\ missed' = missed \cup
                {s \in S : \E c \in Callers : pc[c] = "clear" \/ (s = "NV" /\ pc[c] = "mem")}
           /\ moved' = (moved \/ (/\ pc["get"] \in {"index", "read", "copy"}
                                  /\ Moves(dxe[StoreOf(arg)], dxe'[StoreOf(arg)])))
  <2>1. Copied'
    <3>1. SUFFICES ASSUME NEW s \in Store
                   PROVE  dxe'[s] = smm'[s] \/ (/\ Current(smm'[s])
                                                /\ \A v : Value(dxe'[s], v) = Value(smm'[s], v))
      BY DEF Copied
    <3>2. CASE s \in S
      BY <1>3, <3>2 DEF Collected
    <3>3. CASE s \notin S
      <4>1. dxe'[s] = dxe[s] /\ smm'[s] = smm[s]
        BY <1>3, <3>3
      <4>2. dxe[s] = smm[s] \/ (Current(smm[s]) /\ \A v : Value(dxe[s], v) = Value(smm[s], v))
        BY <1>3, <3>1 DEF CopyInv, Copied
      <4>3. QED
        BY <4>1, <4>2
    <3>4. QED
      BY <3>2, <3>3
  <2>2. Seen'
    <3>1. SUFFICES ASSUME pc["get"] # "idle"
                   PROVE  ValueIn(smm', arg) \in seen' /\ (~viaSmm => ValueIn(dxe', arg) \in seen')
      BY <1>1 DEF Seen
    <3>2. CASE StoreOf(arg) \in S
      <4>1. /\ dxe'[StoreOf(arg)] = stores[StoreOf(arg)]
            /\ Value(smm'[StoreOf(arg)], arg) = Value(stores[StoreOf(arg)], arg)
        BY <1>1, <1>3, <3>1, <3>2 DEF Collected
      <4>2. QED
        BY <1>1, <3>1, <4>1, ValuesIn
    <3>3. CASE StoreOf(arg) \notin S
      <4>1. dxe'[StoreOf(arg)] = dxe[StoreOf(arg)]
        BY <1>1, <1>3, <3>1, <3>3
      <4>2. QED
        BY <1>1, <3>1, <4>1 DEF CopyInv, Seen, ValueIn
    <3>4. QED
      BY <3>2, <3>3
  <2>3. Marks'
    <3>1. SUFFICES ASSUME NEW s \in Store, s \notin missed'
                   PROVE  /\ s \notin mask' \/ Enumerated(s) => end[s] = Len(dxe'[s])
                          /\ s \notin mask' /\ (\A c \in Callers : pc[c] # "index") =>
                               \A v \in Var : StoreOf(v) = s => Indexed(v)'
      BY <1>1 DEF Marks, Enumerated
    <3>2. CASE s \in S
      BY <1>3, <3>1, <3>2 DEF Enumerated
    <3>3. CASE s \notin S
      <4>1. dxe'[s] = dxe[s] /\ s \notin missed /\ (s \in mask' <=> s \in mask)
        BY <1>3, <3>1, <3>3
      <4>2. \A v \in Var : StoreOf(v) = s /\ Indexed(v) => Indexed(v)'
        BY <1>1, <4>1 DEF Indexed
      <4>3. QED
        BY <4>1, <4>2 DEF CopyInv, Marks
    <3>4. QED
      BY <3>2, <3>3
  <2>4. Reading'
    <3>1. SUFFICES ASSUME ~viaSmm, StoreOf(arg) \notin missed', ~moved', pc["query"] # "index",
                          pc["get"] \in {"index", "read", "copy"}
                   PROVE  /\ pc["get"] \in {"index", "read"} => WillFind'
                          /\ pc["get"] = "read" => WillUseIndex'
                          /\ pc["get"] = "copy" => HasFound'
      BY <1>1 DEF Reading
    <3>2. pc["get"] # "idle"
      BY <3>1
    <3>3. StoreOf(arg) \notin missed /\ ~moved /\ ~Moves(dxe[StoreOf(arg)], dxe'[StoreOf(arg)])
      BY <1>3, <3>1
    <3>4. Keeps(dxe[StoreOf(arg)], dxe'[StoreOf(arg)], arg, seen')
      <4>1. CASE StoreOf(arg) \in S
        BY <1>1, <1>3, <3>2, <4>1
      <4>2. CASE StoreOf(arg) \notin S
        <5>1. dxe'[StoreOf(arg)] = dxe[StoreOf(arg)] /\ Len(dxe[StoreOf(arg)]) \in Nat
          BY <1>1, <1>3, <3>2, <4>2, LenProperties DEF IInv, TypeOK
        <5>2. QED
          BY <5>1 DEF Keeps, Extends
      <4>3. QED
        BY <4>1, <4>2
    <3>5. dxe'[StoreOf(arg)] \in Seq(Record)
      BY <1>1, <1>3, <3>2 DEF IInv, TypeOK
    <3>6. QED
      BY <1>1, <3>1, <3>2, <3>3, <3>4, <3>5, FoundInCopy
  <2>5. QED
    BY <2>1, <2>2, <2>3, <2>4 DEF CopyInv
<1>4. stopped => dxe' = dxe /\ mask' = mask /\ missed' = missed /\ moved' = moved /\ stopped'
  BY DEF Announce, Unannounced
<1>5. QED
  BY <1>2, <1>3, <1>4 DEF Announce, Unannounced

\* A call that reports an error announces nothing, and at most collects garbage.
LEMMA UnannouncedCopies ==
  ASSUME IInv, CopyInv, up, UNCHANGED kept, Witness, NEW s \in Store,
         NEW l, Collected(l, smm[s]), smm' = [smm EXCEPT ![s] = l], Unannounced
  PROVE  CopyInv'
<1>1. /\ UNCHANGED <<end, index, up, migrated, active, viaSmm, pc, arg, pos, got>>
      /\ pc["get"] # "idle" => arg \in Var /\ StoreOf(arg) \in Store
      /\ pc["get"] # "idle" => seen \subseteq seen' /\ ValueIn(smm', arg) \in seen'
  BY Constants DEF kept, call, Witness, IInv, Modes
<1>2. /\ smm \in [Store -> Seq(Record)] /\ smm'[s] = l
      /\ \A t \in Store : t # s => smm'[t] = smm[t]
  BY DEF IInv, TypeOK
<1>3. l = smm[s] \/ (Current(l) /\ \A v : Value(l, v) = Value(smm[s], v))
  BY DEF Collected
<1>4. Copied'
  <2>1. SUFFICES ASSUME up, ~stopped, NEW t \in Store
                 PROVE  dxe[t] = smm'[t] \/ (/\ Current(smm'[t])
                                             /\ \A v : Value(dxe[t], v) = Value(smm'[t], v))
    BY <1>1 DEF Copied, Unannounced
  <2>2. dxe[t] = smm[t] \/ (Current(smm[t]) /\ \A v : Value(dxe[t], v) = Value(smm[t], v))
    BY <2>1 DEF CopyInv, Copied
  <2>3. QED
    BY <1>2, <1>3, <2>2 DEF Unannounced
<1>5. Seen'
  BY <1>1 DEF Seen, ValueIn, CopyInv, Unannounced
<1>6. Marks'
  BY <1>1 DEF CopyInv, Marks, Enumerated, Indexed, Unannounced
<1>7. Reading'
  BY <1>1 DEF CopyInv, Reading, WillFind, WillUseIndex, HasFound, Unannounced
<1>8. QED
  BY <1>4, <1>5, <1>6, <1>7 DEF CopyInv

LEMMA StoredCopies ==
  ASSUME ~SilentFaults, IInv, CopyInv, up, NEW v \in Var, NEW d \in Recorded, sets < MaxSets,
         UNCHANGED kept, Witness, SmmSetVariableInt(v, d)
  PROVE  CopyInv'
<1> DEFINE s == StoreOf(v)
<1>1. /\ smm \in [Store -> Seq(Record)] /\ smm' \in [Store -> Seq(Record)] /\ s \in Store
      /\ Fits(smm[s], s)
  BY StoredInSmm, Constants DEF IInv, TypeOK, Stores
<1>2. CASE smm' = [smm EXCEPT ![s] = Put(@, v, d)] /\ Announce(Changed(v, d), smm')
  <2>1. /\ Changed(v, d) \in SUBSET Store /\ s \in Changed(v, d)
        /\ smm'[s] = Put(smm[s], v, d) /\ \A t \in Store : t # s => smm'[t] = smm[t]
    BY <1>1, <1>2 DEF Changed
  <2>2. ASSUME ~stopped, pc["get"] # "idle"
        PROVE  Keeps(dxe[StoreOf(arg)], smm'[StoreOf(arg)], arg, seen')
    <3>1. /\ seen \subseteq seen' /\ ValueIn(smm', arg) \in seen' /\ StoreOf(arg) \in Store
      BY <2>2, Constants DEF Witness, IInv, Modes
    <3>2. Keeps(dxe[StoreOf(arg)], smm[StoreOf(arg)], arg, seen')
      BY <2>2, <3>1, BuffersAlike
    <3>3. CASE StoreOf(arg) = s
      <4>1. Value(Put(smm[s], v, d), arg) \in seen'
        BY <2>1, <3>1, <3>3, ValuesIn
      <4>2. Len(dxe[s]) \in Nat
        BY <1>1, LenProperties DEF IInv, TypeOK
      <4>3. QED
        BY <1>1, <2>1, <3>2, <3>3, <4>1, <4>2, PutKeeps
    <3>4. CASE StoreOf(arg) # s
      BY <2>1, <3>1, <3>2, <3>4
    <3>5. QED
      BY <3>3, <3>4
  <2>3. \A t \in Store : IF t \in Changed(v, d) THEN Collected(smm'[t], smm'[t])
                         ELSE smm'[t] = smm[t]
    BY <2>1 DEF Collected
  <2>4. QED
    BY <1>1, <1>2, <2>1, <2>2, <2>3, AnnouncedCopies
<1>3. CASE (\E l \in Refused(smm[s], v, d) : smm' = [smm EXCEPT ![s] = l]) /\ Unannounced
  <2>1. PICK l : Collected(l, smm[s]) /\ smm' = [smm EXCEPT ![s] = l]
    BY <1>1, <1>3, RefusedCollected DEF Fits
  <2>2. QED
    BY <1>1, <1>3, <2>1, UnannouncedCopies
<1>4. QED
  BY <1>2, <1>3 DEF SmmSetVariableInt

\* The same of ResetMorVariables: what it announces keeps the records GetVariable
\* reads in place, unless only values that have been seen are left of them.
LEMMA ResetKeeps ==
  ASSUME ~SilentFaults, TypeOK, Stores, ResetMorVariables \/ ResetMorVariablesFails
  PROVE  \E l, m :
           /\ smm' = [smm EXCEPT !["NV"] = l] /\ m \in Seq(Record)
           /\ \/ Unannounced /\ Collected(l, smm["NV"])
              \/ /\ Announce({"NV"}, [smm EXCEPT !["NV"] = m]) /\ Collected(l, m)
                 /\ \A k, a, X : Len(k) \in Nat /\ Keeps(k, smm["NV"], a, X)
                                /\ Value(smm["NV"], a) \in X /\ Value(l, a) \in X
                                  => Keeps(k, m, a, X)
<1> DEFINE old == smm["NV"]
<1>1. /\ old \in Seq(Record) /\ Fits(old, "NV")
      /\ Mor \in Var /\ MorLock \in Var /\ StoreOf(Mor) = "NV" /\ StoreOf(MorLock) = "NV"
      /\ Mor # MorLock /\ 0 \in Recorded
  BY Constants DEF TypeOK, Stores, Store
<1>2. /\ Fits(Unlocked, "NV") /\ Unlocked \in Seq(Record) /\ Value(Unlocked, MorLock) = 0
      /\ \A w : w # MorLock => Value(Unlocked, w) = Value(old, w)
  BY <1>1, PutStore DEF Unlocked, Fits
<1>3. ASSUME NEW k, Fits(k, "NV")
      PROVE  /\ Requested(k) \in Seq(Record) /\ Value(Requested(k), Mor) = 0
             /\ \A w : w # Mor => Value(Requested(k), w) = Value(k, w)
  BY <1>1, <1>3, PutStore DEF Requested, Fits
<1>4. ASSUME NEW k, NEW a, NEW X, Len(k) \in Nat, Keeps(k, old, a, X), Value(Unlocked, a) \in X
      PROVE  Keeps(k, Unlocked, a, X)
  BY <1>1, <1>4, PutKeeps DEF Unlocked
<1>5. ASSUME NEW r, Fits(r, "NV"), NEW k, NEW a, NEW X, Len(k) \in Nat, Keeps(k, r, a, X),
             Value(Requested(r), a) \in X
      PROVE  Keeps(k, Requested(r), a, X)
  BY <1>1, <1>5, PutKeeps DEF Requested
<1>6. CASE ResetMorVariables
  <2>1. CASE NvBecomes(Unlocked) /\ Announce({"NV"}, smm')
    <3>1. smm' = [smm EXCEPT !["NV"] = Unlocked] /\ Collected(Unlocked, Unlocked)
      BY <2>1 DEF NvBecomes, Collected
    <3>2. QED
      BY <1>2, <1>4, <2>1, <3>1
  <2>2. CASE NvBecomes(Requested(Unlocked)) /\ Announce({"NV"}, smm')
    <3> DEFINE new == Requested(Unlocked)
    <3>1. smm' = [smm EXCEPT !["NV"] = new] /\ Collected(new, new) /\ new \in Seq(Record)
      BY <1>2, <1>3, <2>2 DEF NvBecomes, Collected
    <3>2. ASSUME NEW k, NEW a, NEW X, Len(k) \in Nat, Keeps(k, old, a, X), Value(old, a) \in X,
                 Value(new, a) \in X
          PROVE  Keeps(k, new, a, X)
      <4>1. Value(Unlocked, a) \in X
        BY <1>1, <1>2, <1>3, <3>2
      <4>2. Keeps(k, Unlocked, a, X)
        BY <1>4, <3>2, <4>1
      <4>3. QED
        BY <1>2, <1>5, <3>2, <4>2
    <3>3. QED
      BY <2>2, <3>1, <3>2
  <2>3. QED
    BY <1>6, <2>1, <2>2 DEF ResetMorVariables
<1>7. CASE ResetMorVariablesFails
  <2>1. ASSUME NEW r \in Refused(old, MorLock, 0)
        PROVE  Collected(r, old) /\ Fits(r, "NV") /\ r \in Seq(Record)
    BY <1>1, RefusedCollected, RefusedStore DEF Fits
  <2>2. ASSUME NEW r \in Refused(old, MorLock, 0), NvBecomes(r), Unannounced
        PROVE  smm' = [smm EXCEPT !["NV"] = r] /\ Collected(r, old)
    BY <2>1, <2>2 DEF NvBecomes
  <2>3. ASSUME NEW r \in Refused(old, MorLock, 0), NEW l \in Refused(r, Mor, 0), NvBecomes(l),
               Unannounced
        PROVE  smm' = [smm EXCEPT !["NV"] = l] /\ Collected(l, old)
    <3>1. Collected(l, r)
      BY <2>1, RefusedCollected
    <3>2. QED
      BY <2>1, <2>3, <3>1 DEF NvBecomes, Collected
  <2>4. ASSUME NEW r \in Refused(old, MorLock, 0), NvBecomes(Requested(r)), Announce({"NV"}, smm')
        PROVE  /\ smm' = [smm EXCEPT !["NV"] = Requested(r)] /\ Requested(r) \in Seq(Record)
               /\ Announce({"NV"}, [smm EXCEPT !["NV"] = Requested(r)])
               /\ Collected(Requested(r), Requested(r))
               /\ \A k, a, X : Len(k) \in Nat /\ Keeps(k, old, a, X) /\ Value(old, a) \in X
                              /\ Value(Requested(r), a) \in X => Keeps(k, Requested(r), a, X)
    <3>1. smm' = [smm EXCEPT !["NV"] = Requested(r)]
      BY <2>4 DEF NvBecomes
    <3>2. ASSUME NEW k, NEW a, NEW X, Len(k) \in Nat, Keeps(k, old, a, X), Value(old, a) \in X,
                 Value(Requested(r), a) \in X
          PROVE  Keeps(k, Requested(r), a, X)
      BY <1>5, <2>1, <3>2, CollectedKeeps
    <3>3. QED
      BY <1>3, <2>1, <2>4, <3>1, <3>2 DEF Collected
  <2>5. ASSUME NEW l \in Refused(Unlocked, Mor, 0), NvBecomes(l),
               Announce({"NV"}, [smm EXCEPT !["NV"] = Unlocked])
        PROVE  /\ smm' = [smm EXCEPT !["NV"] = l] /\ Collected(l, Unlocked)
               /\ \A k, a, X : Len(k) \in Nat /\ Keeps(k, old, a, X) /\ Value(old, a) \in X
                              /\ Value(l, a) \in X => Keeps(k, Unlocked, a, X)
    <3>1. smm' = [smm EXCEPT !["NV"] = l] /\ Collected(l, Unlocked)
      BY <1>2, <2>5, RefusedCollected DEF NvBecomes
    <3>2. \A a : Value(l, a) = Value(Unlocked, a)
      BY <3>1 DEF Collected
    <3>3. QED
      BY <1>4, <3>1, <3>2
  <2>6. CASE \/ \E r \in Refused(old, MorLock, 0) : NvBecomes(r) /\ Unannounced
             \/ \E r \in Refused(old, MorLock, 0) :
                    Unannounced /\ \E l \in Refused(r, Mor, 0) : NvBecomes(l)
    BY <1>1, <2>2, <2>3, <2>6
  <2>7. CASE \E r \in Refused(old, MorLock, 0) : NvBecomes(Requested(r)) /\ Announce({"NV"}, smm')
    BY <2>4, <2>7
  <2>8. CASE \E l \in Refused(Unlocked, Mor, 0) :
               NvBecomes(l) /\ Announce({"NV"}, [smm EXCEPT !["NV"] = Unlocked])
    BY <1>2, <2>5, <2>8
  <2>9. QED
    BY <1>7, <2>6, <2>7, <2>8 DEF ResetMorVariablesFails
<1>8. QED
  BY <1>6, <1>7

LEMMA SmmReadyToLockCopies ==
  ASSUME ~SilentFaults, IInv, CopyInv, SmmReadyToLock
  PROVE  CopyInv'
<1>1. /\ smm \in [Store -> Seq(Record)] /\ "NV" \in Store /\ up /\ UNCHANGED kept /\ Witness
      /\ {"NV"} \in SUBSET Store
  BY DEF SmmReadyToLock, IInv, TypeOK, Store
<1>2. PICK l, m :
        /\ smm' = [smm EXCEPT !["NV"] = l] /\ m \in Seq(Record)
        /\ \/ Unannounced /\ Collected(l, smm["NV"])
           \/ /\ Announce({"NV"}, [smm EXCEPT !["NV"] = m]) /\ Collected(l, m)
              /\ \A k, a, X : Len(k) \in Nat /\ Keeps(k, smm["NV"], a, X)
                             /\ Value(smm["NV"], a) \in X /\ Value(l, a) \in X
                               => Keeps(k, m, a, X)
  BY ResetKeeps DEF SmmReadyToLock, IInv
<1>3. CASE Unannounced /\ Collected(l, smm["NV"])
  BY <1>1, <1>2, <1>3, UnannouncedCopies
<1>4. CASE /\ Announce({"NV"}, [smm EXCEPT !["NV"] = m]) /\ Collected(l, m)
           /\ \A k, a, X : Len(k) \in Nat /\ Keeps(k, smm["NV"], a, X)
                          /\ Value(smm["NV"], a) \in X /\ Value(l, a) \in X
                            => Keeps(k, m, a, X)
  <2> DEFINE stores == [smm EXCEPT !["NV"] = m]
  <2>1. /\ stores \in [Store -> Seq(Record)] /\ stores["NV"] = m /\ smm'["NV"] = l
        /\ \A s \in Store : s # "NV" => smm'[s] = smm[s] /\ stores[s] = smm[s]
    BY <1>1, <1>2
  <2> HIDE DEF stores
  <2>2. \A s \in Store : IF s \in {"NV"} THEN Collected(smm'[s], stores[s])
                         ELSE smm'[s] = smm[s] /\ stores[s] = smm[s]
    BY <1>4, <2>1
  <2>3. ASSUME ~stopped, pc["get"] # "idle"
        PROVE  Keeps(dxe[StoreOf(arg)], stores[StoreOf(arg)], arg, seen')
    <3>1. /\ seen \subseteq seen' /\ ValueIn(smm', arg) \in seen' /\ StoreOf(arg) \in Store
      BY <1>1, <2>3, Constants DEF Witness, IInv, Modes
    <3>2. Keeps(dxe[StoreOf(arg)], smm[StoreOf(arg)], arg, seen')
      BY <1>1, <2>3, <3>1, BuffersAlike
    <3>3. CASE StoreOf(arg) = "NV"
      <4>1. Len(dxe["NV"]) \in Nat
        BY <1>1, LenProperties DEF IInv, TypeOK
      <4>2. Value(l, arg) \in seen' /\ Value(smm["NV"], arg) \in seen'
        BY <1>1, <2>1, <2>3, <3>1, <3>3, ValuesIn DEF CopyInv, Seen
      <4>3. QED
        BY <1>4, <2>1, <3>2, <3>3, <4>1, <4>2
    <3>4. CASE StoreOf(arg) # "NV"
      BY <2>1, <3>1, <3>2, <3>4
    <3>5. QED
      BY <3>3, <3>4
  <2>4. Announce({"NV"}, stores)
    BY <1>4 DEF stores
  <2>5. QED
    BY <1>1, <2>1, <2>2, <2>3, <2>4, AnnouncedCopies
<1>5. QED
  BY <1>2, <1>3, <1>4

LEMMA MorLockKeyCopies ==
  ASSUME ~SilentFaults, IInv, CopyInv, NEW k \in Keys, MorLockKey(k)
  PROVE  CopyInv'
<1>1. up /\ sets < MaxSets /\ UNCHANGED kept /\ Witness
  BY DEF MorLockKey
<1>2. ASSUME NEW d \in {0, 2}, SmmSetVariableInt(MorLock, d)
      PROVE  CopyInv'
  BY <1>1, <1>2, StoredCopies, Constants
<1>3. CASE UNCHANGED <<smm, dxe, mask, shutDown, stopped, missed, moved, morLock, counts>>
  <2>1. /\ "NV" \in Store /\ smm' = [smm EXCEPT !["NV"] = smm["NV"]]
        /\ Collected(smm["NV"], smm["NV"]) /\ Unannounced
    BY <1>3 DEF Store, IInv, TypeOK, Collected, Unannounced
  <2>2. QED
    BY <1>1, <1>3, <2>1, UnannouncedCopies
<1>4. QED
  BY <1>2, <1>3 DEF MorLockKey

\* Before the stores change hands no call of DXE is under way.
LEMMA TakeOverCopies ==
  ASSUME IInv, CopyInv,
         \/ NvramSmmInit \/ DxeReadyToLock \/ MigrateNvram
         \/ \E v \in Var : \E d \in Values(v) \cup {Absent} : DxeSetVariable(v, d)
  PROVE  CopyInv'
<1>1. CASE NvramSmmInit
  <2>1. /\ smm' = dxe /\ \A c \in Callers : pc[c] = "idle"
        /\ UNCHANGED <<dxe, end, index, mask, shutDown, stopped, migrated, viaSmm, pc, arg, pos,
                       seen, missed, moved>>
    BY <1>1 DEF NvramSmmInit, call, ghosts
  <2>2. Copied'
    BY <2>1 DEF Copied
  <2>3. Seen' /\ Reading'
    BY <2>1 DEF Seen, Reading, Callers
  <2>4. Marks'
    BY <2>1 DEF CopyInv, Marks, Enumerated, Indexed
  <2>5. QED
    BY <2>2, <2>3, <2>4 DEF CopyInv
<1>2. CASE DxeReadyToLock \/ MigrateNvram
  <2>1. UNCHANGED <<smm, dxe, end, index, up, mask, stopped, viaSmm, pc, arg, pos,
                    seen, missed, moved>>
    BY <1>2 DEF DxeReadyToLock, MigrateNvram, copies, call, ghosts
  <2>2. Copied' /\ Seen'
    BY <2>1 DEF CopyInv, Copied, Seen, ValueIn
  <2>3. Marks'
    BY <2>1 DEF CopyInv, Marks, Enumerated, Indexed
  <2>4. Reading'
    BY <2>1 DEF CopyInv, Reading, WillFind, WillUseIndex, HasFound
  <2>5. QED
    BY <2>2, <2>3, <2>4 DEF CopyInv
<1>3. ASSUME NEW v \in Var, NEW d \in Values(v) \cup {Absent}, DxeSetVariable(v, d)
      PROVE  CopyInv'
  <2>1. /\ ~active /\ end' = [s \in Store |-> Len(dxe'[s])] /\ index' = IndexOf(dxe', end')
        /\ UNCHANGED <<up, pc, stopped>>
    BY <1>3 DEF DxeSetVariable, mailbox, call
  <2>2. ~up /\ pc["get"] = "idle" /\ pc["query"] = "idle"
    BY <2>1 DEF IInv, Modes, Callers
  <2>3. Copied' /\ Seen' /\ Reading'
    BY <2>1, <2>2 DEF Copied, Seen, Reading
  <2>4. IInv'
    BY <1>3, DxeSetVariableStep
  <2>5. ASSUME NEW v2 \in Var
        PROVE  Indexed(v2)'
    <3>1. /\ dxe' \in [Store -> Seq(Record)] /\ end' \in [Store -> Nat] /\ StoreOf(v2) \in Store
          /\ \A s \in Store : Len(dxe'[s]) <= Cap(s) /\ Len(dxe'[s]) \in Nat
      BY <2>4, Constants, LenProperties DEF IInv, TypeOK
    <3> DEFINE l == dxe'[StoreOf(v2)]
               found == RecordsOf(l, Len(l), v2)
    <3>2. /\ found = {} => index'[v2] = 0
          /\ found # {} => index'[v2] \in found
      BY <2>1, <3>1, IndexTyped
    <3>3. found \subseteq 1 .. Len(l) /\ \A i \in found : l[i].var = v2
      BY <3>1 DEF RecordsOf
    <3>4. QED
      BY <3>1, <3>2, <3>3 DEF Indexed
  <2>6. Marks'
    BY <2>1, <2>5 DEF Marks
  <2>7. QED
    BY <2>3, <2>6 DEF CopyInv
<1>4. QED
  BY <1>1, <1>2, <1>3

\* Nothing in CopyInv but what is left to prove of it changes in a step of a call.
LEMMA CallerCopies ==
  ASSUME CopyInv, UNCHANGED <<smm, dxe, up, stopped>>
  PROVE  Copied'
  BY DEF CopyInv, Copied

LEMMA CheckMarks ==
  ASSUME IInv, CopyInv, NEW c \in Callers, Check(c), UNCHANGED <<dxe, end, index, mask, missed>>
  PROVE  Marks'
<1>1. /\ pc'[c] \in {"nv", "read", "idle"} /\ pc[c] = "idle"
      /\ \A b \in Callers \ {c} : pc'[b] = pc[b]
  BY CheckStep DEF Done
<1>2. \A b \in Callers : \A step \in {"mem", "clear", "index"} : pc'[b] = step <=> pc[b] = step
  BY <1>1
<1>3. QED
  BY <1>2 DEF CopyInv, Marks, Enumerated, Indexed

LEMMA GetVariableCopies ==
  ASSUME IInv, CopyInv, NEW v \in Asked, GetVariable(v)
  PROVE  CopyInv'
<1>1. /\ Check("get") /\ arg' = v /\ seen' = {ValueIn(IF up THEN smm ELSE dxe, v)} /\ v \in Var
      /\ UNCHANGED <<smm, dxe, end, index, mask, shutDown, up, stopped, missed>> /\ "get" \in Callers
  BY SyncAssumption DEF GetVariable, copies, Callers
<1>2. /\ pc'["get"] = IF ~viaSmm' THEN "nv" ELSE "read"
      /\ viaSmm' = (viaSmm \/ shutDown)
  BY <1>1, CheckStep DEF Done
<1>3. Copied'
  BY <1>1, CallerCopies
<1>4. Marks'
  BY <1>1, CheckMarks
<1>5. Seen'
  <2>1. up => ValueIn(smm', v) \in seen'
    BY <1>1
  <2>2. ASSUME ~viaSmm', up PROVE ValueIn(dxe', v) \in seen'
    <3>1. ~stopped
      BY <1>2, <2>2 DEF IInv, Modes
    <3>2. StoreOf(v) \in Store
      BY <1>1, Constants
    <3>3. Value(dxe[StoreOf(v)], v) = Value(smm[StoreOf(v)], v)
      BY <2>2, <3>1, <3>2 DEF CopyInv, Copied
    <3>4. QED
      BY <1>1, <2>2, <3>3, ValuesIn
  <2>3. QED
    BY <1>1, <2>1, <2>2 DEF Seen
<1>6. Reading'
  BY <1>2 DEF Reading
<1>7. QED
  BY <1>3, <1>4, <1>5, <1>6 DEF CopyInv

LEMMA QueryVariableInfoCopies ==
  ASSUME IInv, CopyInv, QueryVariableInfo
  PROVE  CopyInv'
<1>1. /\ Check("query") /\ "query" \in Callers
      /\ UNCHANGED <<smm, dxe, end, index, mask, up, stopped, missed>>
  BY DEF QueryVariableInfo, copies, Callers, ghosts
<1>2. pc'["get"] = pc["get"] /\ pc["get"] = "idle"
  BY <1>1, CheckStep DEF Callers
<1>3. QED
  BY <1>1, <1>2, CallerCopies, CheckMarks DEF CopyInv, Seen, Reading

\* A step of a call after its check: Seen holds on, and while QueryVariableInfo
\* goes on there is no GetVariable.
LEMMA GoneOnCopies ==
  ASSUME IInv, CopyInv, NEW c \in Callers, NEW step \in {"nv", "mem", "clear", "index"}, At(c, step),
         NEW next \in {"mem", "clear", "index", Done(c)}, Goto(c, next),
         UNCHANGED <<smm, dxe, up, stopped, viaSmm, arg, seen>>
  PROVE  /\ Copied' /\ Seen'
         /\ pc'[c] = next /\ \A b \in Callers \ {c} : pc'[b] = pc[b]
         /\ c = "query" => pc["get"] = "idle" /\ pc'["get"] = "idle"
         /\ c = "get" => pc'["query"] = pc["query"] /\ pc["get"] = step
<1>1. pc'[c] = next /\ \A b \in Callers \ {c} : pc'[b] = pc[b]
  BY CallTypes DEF Goto, IInv, TypeOK
<1>2. Copied'
  BY CallerCopies
<1>3. pc'["get"] # "idle" => pc["get"] # "idle"
  BY <1>1 DEF At, Callers
<1>4. Seen'
  BY <1>3 DEF CopyInv, Seen, ValueIn
<1>5. QED
  BY <1>1, <1>2, <1>4 DEF At, May, Callers

LEMMA EnumerateNvCopies ==
  ASSUME IInv, CopyInv, NEW c \in Callers, EnumerateNv(c)
  PROVE  CopyInv'
<1>1. /\ At(c, "nv") /\ Goto(c, "mem") /\ "NV" \in Store
      /\ UNCHANGED <<smm, dxe, index, mask, up, stopped, viaSmm, arg, pos, seen, moved>>
      /\ IF "NV" \in mask THEN end' = [end EXCEPT !["NV"] = Len(dxe["NV"])] /\ missed' = missed \ {"NV"}
         ELSE UNCHANGED <<end, missed>>
  BY DEF EnumerateNv, Enumerate, Store, mailbox
<1>2. /\ Copied' /\ Seen' /\ pc'[c] = "mem" /\ \A b \in Callers \ {c} : pc'[b] = pc[b]
      /\ c = "query" => pc'["get"] = "idle"
  BY <1>1, GoneOnCopies
<1>3. Reading'
  BY <1>2 DEF Reading, Callers
<1>4. ASSUME NEW s \in Store \ missed'
      PROVE  /\ s \notin mask' \/ Enumerated(s)' => end'[s] = Len(dxe'[s])
             /\ s \notin mask' /\ (\A b \in Callers : pc'[b] # "index") =>
                  \A v \in Var : StoreOf(v) = s => Indexed(v)'
  <2>1. pc[c] = "nv" /\ \A b \in Callers : pc'[b] = "clear" <=> pc[b] = "clear"
    BY <1>1, <1>2 DEF At
  <2>2. \A b \in Callers : pc'[b] = "index" <=> pc[b] = "index"
    BY <1>2, <2>1
  <2>3. \A v \in Var : Indexed(v)' <=> Indexed(v)
    BY <1>1 DEF Indexed
  <2>4. CASE s = "NV" /\ "NV" \in mask
    BY <1>1, <2>4, CallTypes
  <2>5. CASE s = "NV" /\ "NV" \notin mask
    BY <1>1, <1>4, <2>2, <2>3, <2>5 DEF CopyInv, Marks
  <2>6. CASE s # "NV"
    <3>1. s \notin missed /\ end'[s] = end[s]
      BY <1>1, <1>4, <2>6, CallTypes
    <3>2. Enumerated(s)' <=> Enumerated(s)
      BY <2>1, <2>6 DEF Enumerated
    <3>3. QED
      BY <1>1, <1>4, <2>2, <2>3, <3>1, <3>2 DEF CopyInv, Marks
  <2>7. QED
    BY <2>4, <2>5, <2>6
<1>5. Marks'
  BY <1>4 DEF Marks
<1>6. QED
  BY <1>2, <1>3, <1>5 DEF CopyInv

LEMMA EnumerateMemCopies ==
  ASSUME IInv, CopyInv, NEW c \in Callers, EnumerateMem(c)
  PROVE  CopyInv'
<1>1. /\ At(c, "mem") /\ Goto(c, "clear") /\ "MEM" \in Store
      /\ UNCHANGED <<smm, dxe, index, mask, up, stopped, viaSmm, arg, pos, seen, moved>>
      /\ IF "MEM" \in mask THEN end' = [end EXCEPT !["MEM"] = Len(dxe["MEM"])] /\ missed' = missed \ {"MEM"}
         ELSE UNCHANGED <<end, missed>>
  BY DEF EnumerateMem, Enumerate, Store, mailbox
<1>2. /\ Copied' /\ Seen' /\ pc'[c] = "clear" /\ \A b \in Callers \ {c} : pc'[b] = pc[b]
      /\ c = "query" => pc'["get"] = "idle"
  BY <1>1, GoneOnCopies
<1>3. Reading'
  BY <1>2 DEF Reading, Callers
<1>4. ASSUME NEW s \in Store \ missed'
      PROVE  /\ s \notin mask' \/ Enumerated(s)' => end'[s] = Len(dxe'[s])
             /\ s \notin mask' /\ (\A b \in Callers : pc'[b] # "index") =>
                  \A v \in Var : StoreOf(v) = s => Indexed(v)'
  <2>1. pc[c] = "mem" /\ \A b \in Callers : pc'[b] = "index" <=> pc[b] = "index"
    BY <1>1, <1>2 DEF At
  <2>2. \A v \in Var : Indexed(v)' <=> Indexed(v)
    BY <1>1 DEF Indexed
  <2>3. CASE s = "MEM" /\ "MEM" \in mask
    BY <1>1, <2>3, CallTypes
  <2>4. CASE s = "MEM" /\ "MEM" \notin mask
    BY <1>1, <1>4, <2>1, <2>2, <2>4 DEF CopyInv, Marks
  <2>5. CASE s = "NV"
    <3>1. s \notin missed /\ end'[s] = end[s]
      BY <1>1, <1>4, <2>5, CallTypes
    <3>2. Enumerated(s)
      BY <2>1, <2>5 DEF Enumerated
    <3>3. QED
      BY <1>1, <1>4, <2>1, <2>2, <3>1, <3>2 DEF CopyInv, Marks
  <2>6. QED
    BY <2>3, <2>4, <2>5 DEF Store
<1>5. Marks'
  BY <1>4 DEF Marks
<1>6. QED
  BY <1>2, <1>3, <1>5 DEF CopyInv

LEMMA ClearMaskCopies ==
  ASSUME IInv, CopyInv, NEW c \in Callers, ClearMask(c)
  PROVE  CopyInv'
<1> DEFINE s == StoreOf(arg)
           l == dxe[s]
<1>1. /\ At(c, "clear") /\ Goto(c, IF mask = {} THEN Done(c) ELSE "index") /\ mask' = {}
      /\ UNCHANGED <<smm, dxe, end, index, up, stopped, viaSmm, arg, pos, seen, missed, moved>>
  BY DEF ClearMask, copies, ghosts
<1>2. /\ Copied' /\ Seen' /\ \A b \in Callers \ {c} : pc'[b] = pc[b]
      /\ pc'[c] = IF mask = {} THEN Done(c) ELSE "index"
      /\ c = "query" => pc'["get"] = "idle"
      /\ c = "get" => pc'["query"] = pc["query"] /\ pc["get"] = "clear"
  BY <1>1, GoneOnCopies
<1>3. \A t \in Store \ missed : end[t] = Len(dxe[t])
  BY <1>1 DEF CopyInv, Marks, Enumerated, At
<1>4. ASSUME NEW t \in Store \ missed, \A b \in Callers : pc'[b] # "index"
      PROVE  \A v \in Var : StoreOf(v) = t => Indexed(v)
  <2>1. mask = {} /\ \A b \in Callers : pc[b] # "index"
    BY <1>1, <1>2, <1>4 DEF At
  <2>2. QED
    BY <1>4, <2>1 DEF CopyInv, Marks
<1>5. Marks'
  <2>1. \A v \in Var : Indexed(v)' <=> Indexed(v)
    BY <1>1 DEF Indexed
  <2>2. QED
    BY <1>1, <1>3, <1>4, <2>1 DEF Marks
<1>6. Reading'
  <2>1. SUFFICES ASSUME ~viaSmm, s \notin missed, ~moved, pc'["query"] # "index",
                        pc'["get"] \in {"index", "read", "copy"}
                 PROVE  /\ pc'["get"] \in {"index", "read"} => WillFind
                        /\ pc'["get"] = "read" => WillUseIndex
                        /\ pc'["get"] # "copy"
    BY <1>1 DEF Reading, WillFind, WillUseIndex, HasFound
  <2>2. c = "get" /\ pc["get"] = "clear" /\ pc'["get"] # "copy"
    BY <1>2, <2>1 DEF Callers, Done
  <2>3. /\ arg \in Var /\ s \in Store /\ Len(l) \in Nat /\ ValueIn(dxe, arg) \in seen
        /\ index[arg] \in Nat
    BY <2>1, <2>2, Constants, CallTypes DEF IInv, Modes, CopyInv, Seen
  <2>4. end[s] = Len(l)
    BY <1>3, <2>1, <2>3
  <2>5. WillFind
    BY <2>3, <2>4 DEF WillFind, ValueIn
  <2>6. ASSUME pc'["get"] = "read" PROVE WillUseIndex
    <3>1. \A b \in Callers : pc'[b] # "index"
      BY <2>1, <2>6 DEF Callers
    <3>2. Indexed(arg)
      BY <1>4, <2>1, <2>3, <3>1
    <3>3. CASE index[arg] = 0
      <4>1. Value(l, arg) = Absent
        BY <3>2, <3>3, ValueOfNone DEF Indexed
      <4>2. QED
        BY <2>3, <3>3, <4>1, ValuesIn DEF WillUseIndex
    <3>4. CASE index[arg] # 0
      BY <2>4, <3>2, <3>4 DEF Indexed, WillUseIndex
    <3>5. QED
      BY <3>3, <3>4
  <2>7. QED
    BY <2>2, <2>5, <2>6
<1>7. QED
  BY <1>2, <1>5, <1>6 DEF CopyInv

LEMMA IndexResetCopies ==
  ASSUME IInv, CopyInv, NEW c \in Callers, IndexReset(c)
  PROVE  CopyInv'
<1> DEFINE s == StoreOf(arg)
<1>1. /\ At(c, "index") /\ Goto(c, Done(c)) /\ index' = IndexOf(dxe, end)
      /\ UNCHANGED <<smm, dxe, end, mask, up, stopped, viaSmm, arg, pos, seen, missed, moved>>
  BY DEF IndexReset, mailbox, ghosts
<1>2. /\ Copied' /\ Seen' /\ pc'[c] = Done(c) /\ \A b \in Callers \ {c} : pc'[b] = pc[b]
      /\ c = "query" => pc'["get"] = "idle"
      /\ c = "get" => pc'["query"] = pc["query"] /\ pc["get"] = "index"
  BY <1>1, GoneOnCopies
<1>3. \A v \in Var :
        LET found == RecordsOf(dxe[StoreOf(v)], end[StoreOf(v)], v) IN
        /\ found = {} => index'[v] = 0
        /\ found # {} => index'[v] \in found
  <2>1. dxe \in [Store -> Seq(Record)] /\ end \in [Store -> Nat]
        /\ \A t \in Store : Len(dxe[t]) <= Cap(t)
    BY CallTypes DEF IInv, TypeOK
  <2>2. QED
    BY <1>1, <2>1, IndexTyped
<1>4. Marks'
  <2>1. SUFFICES ASSUME NEW t \in Store \ missed
                 PROVE  /\ t \notin mask \/ Enumerated(t)' => end[t] = Len(dxe[t])
                        /\ t \notin mask => \A v \in Var : StoreOf(v) = t => Indexed(v)'
    BY <1>1 DEF Marks
  <2>2. Enumerated(t)' => Enumerated(t)
    BY <1>2 DEF Enumerated, Done
  <2>3. t \notin mask \/ Enumerated(t)' => end[t] = Len(dxe[t])
    BY <2>1, <2>2 DEF CopyInv, Marks
  <2>4. ASSUME t \notin mask, NEW v \in Var, StoreOf(v) = t
        PROVE  Indexed(v)'
    <3>1. end[t] = Len(dxe[t]) /\ Len(dxe[t]) \in Nat
      BY <2>3, <2>4, CallTypes
    <3> DEFINE found == RecordsOf(dxe[t], Len(dxe[t]), v)
    <3>2. found \subseteq 1 .. Len(dxe[t]) /\ \A i \in found : dxe[t][i].var = v
      BY DEF RecordsOf
    <3>3. (found = {} => index'[v] = 0) /\ (found # {} => index'[v] \in found)
      BY <1>3, <2>4, <3>1
    <3>4. QED
      BY <1>1, <2>4, <3>1, <3>2, <3>3 DEF Indexed
  <2>5. QED
    BY <2>3, <2>4
<1>5. Reading'
  <2>1. SUFFICES ASSUME ~viaSmm, s \notin missed, ~moved, pc'["query"] # "index",
                        pc'["get"] \in {"index", "read", "copy"}
                 PROVE  WillFind /\ WillUseIndex' /\ pc'["get"] = "read"
    BY <1>1 DEF Reading, WillFind
  <2>2. c = "get" /\ pc["get"] = "index" /\ pc'["get"] = "read" /\ pc["query"] # "index"
    BY <1>2, <2>1 DEF Callers, Done
  <2>3. WillFind
    BY <2>1, <2>2 DEF CopyInv, Reading
  <2>4. arg \in Var /\ s \in Store /\ Len(dxe[s]) \in Nat /\ end[s] \in Nat
    BY <2>2, Constants, CallTypes DEF IInv, Modes
  <2> DEFINE found == RecordsOf(dxe[s], end[s], arg)
  <2>5. CASE found = {}
    <3>1. index'[arg] = 0 /\ Find(dxe[s], end[s], arg) = 0
      BY <1>3, <2>4, <2>5 DEF Find
    <3>2. Absent \in seen
      BY <2>3, <3>1 DEF WillFind, ValueAt
    <3>3. QED
      BY <1>1, <2>2, <2>3, <3>1, <3>2 DEF WillUseIndex
  <2>6. CASE found # {}
    <3>1. index'[arg] \in found
      BY <1>3, <2>4, <2>6
    <3>2. index'[arg] \in 1 .. end[s] /\ dxe[s][index'[arg]].var = arg
      BY <3>1 DEF RecordsOf
    <3>3. QED
      BY <1>1, <2>2, <2>3, <2>4, <3>2 DEF WillUseIndex
  <2>7. QED
    BY <2>5, <2>6
<1>6. QED
  BY <1>2, <1>4, <1>5 DEF CopyInv

\* A step of GetVariable after ReenumerateVarStore.
LEMMA ReadMarks ==
  ASSUME IInv, CopyInv, pc["get"] \in {"read", "copy"}, NEW next \in {"copy", "idle"},
         Goto("get", next), UNCHANGED <<dxe, end, index, mask, missed>>
  PROVE  Marks' /\ pc'["get"] = next /\ pc'["query"] = pc["query"]
<1>1. pc'["get"] = next /\ pc'["query"] = pc["query"]
  BY CallTypes DEF Goto, Callers
<1>2. \A b \in Callers : \A step \in {"mem", "clear", "index"} : pc'[b] = step <=> pc[b] = step
  BY <1>1 DEF Callers
<1>3. QED
  BY <1>1, <1>2 DEF CopyInv, Marks, Enumerated, Indexed

LEMMA SearchCopies ==
  ASSUME IInv, CopyInv, Search
  PROVE  CopyInv'
<1> DEFINE s == StoreOf(arg)
           l == dxe[s]
           e == end[s]
<1>1. /\ pc["get"] = "read" /\ ~viaSmm /\ pos' = FindRecord(arg) /\ Goto("get", "copy")
      /\ UNCHANGED <<smm, dxe, end, index, mask, up, stopped, viaSmm, arg, seen, missed, moved>>
  BY DEF Search, At, copies, mailbox, ghosts
<1>2. Marks' /\ pc'["get"] = "copy" /\ pc'["query"] = pc["query"]
  BY <1>1, ReadMarks
<1>3. Copied' /\ Seen'
  BY <1>1, CallerCopies DEF CopyInv, Seen, ValueIn
<1>4. Reading'
  <2>1. SUFFICES ASSUME s \notin missed, ~moved, pc["query"] # "index"
                 PROVE  HasFound'
    BY <1>1, <1>2 DEF Reading
  <2>2. /\ e <= Len(l) /\ ValueAt(l, Find(l, e, arg)) \in seen
        /\ IF index[arg] = 0 THEN Absent \in seen ELSE index[arg] <= e /\ l[index[arg]].var = arg
    BY <1>1, <2>1 DEF CopyInv, Reading, WillFind, WillUseIndex
  <2>3. s \in Store /\ arg \in Var /\ Len(l) \in Nat /\ e \in Nat /\ index[arg] \in Nat
    BY <1>1, Constants, CallTypes DEF IInv, Modes
  <2>4. pos' = Find(l, e, arg) \/ (pos' = 0 /\ Absent \in seen)
    <3>1. CASE index[arg] = 0
      BY <1>1, <2>2, <3>1 DEF FindRecord
    <3>2. CASE index[arg] # 0
      <4>1. Min({e, Len(l)}) \in {e, Len(l)}
        <5>1. {e, Len(l)} \in SUBSET Nat /\ {e, Len(l)} # {}
          BY <2>3
        <5>2. QED
          BY <5>1, MinIsLeast
      <4>2. index[arg] <= Min({e, Len(l)}) /\ l[index[arg]].var = arg
        BY <2>2, <2>3, <3>2, <4>1
      <4>3. QED
        BY <1>1, <3>2, <4>2 DEF FindRecord
    <3>3. QED
      BY <3>1, <3>2
  <2>5. CASE pos' = 0
    <3>1. Absent \in seen
      BY <2>2, <2>4, <2>5 DEF ValueAt
    <3>2. QED
      BY <1>1, <2>5, <3>1 DEF HasFound
  <2>6. CASE pos' # 0
    <3>1. pos' = Find(l, e, arg) /\ Find(l, e, arg) \in RecordsOf(l, e, arg)
      BY <2>3, <2>4, <2>6, FindIsLast
    <3>2. pos' <= Len(l) /\ l[pos'].var = arg
      BY <3>1 DEF RecordsOf
    <3>3. l[pos'].val \in seen
      BY <2>2, <2>6, <3>1 DEF ValueAt
    <3>4. QED
      BY <1>1, <2>6, <3>2, <3>3 DEF HasFound
  <2>7. QED
    BY <2>5, <2>6
<1>5. QED
  BY <1>2, <1>3, <1>4 DEF CopyInv

LEMMA ReturnCopies ==
  ASSUME IInv, CopyInv, ReadInSmm \/ CopyData
  PROVE  CopyInv'
<1>1. /\ pc["get"] \in {"read", "copy"} /\ Goto("get", "idle")
      /\ UNCHANGED <<smm, dxe, end, index, mask, up, stopped, missed>>
  BY DEF ReadInSmm, CopyData, At, Return, copies, mailbox
<1>2. Marks' /\ pc'["get"] = "idle"
  BY <1>1, ReadMarks
<1>3. Copied' /\ Seen' /\ Reading'
  BY <1>1, <1>2, CallerCopies DEF Seen, Reading
<1>4. QED
  BY <1>2, <1>3 DEF CopyInv

\* What a step may make GetVariable return.
ReadStep ==
    (pc["get"] \in {"read", "copy"} /\ pc'["get"] = "idle")
       => got' \in seen \/ StoreOf(arg) \in missed \/ moved \/ pc["query"] = "index"

LEMMA ReturnedWasSeen ==
  ASSUME IInv, CopyInv, ReadInSmm \/ CopyData
  PROVE  ReadStep
<1>1. CASE ReadInSmm
  <2>1. pc["get"] = "read" /\ viaSmm /\ got' = ValueIn(smm, arg)
    BY <1>1 DEF ReadInSmm, At, Return
  <2>2. up
    BY <2>1 DEF IInv, Modes
  <2>3. QED
    BY <2>1, <2>2 DEF CopyInv, Seen, ReadStep
<1>2. CASE CopyData
  <2> DEFINE l == dxe[StoreOf(arg)]
  <2>1. pc["get"] = "copy" /\ got' = IF pos > Len(l) THEN Absent ELSE ValueAt(l, pos)
    BY <1>2 DEF CopyData, At, Return
  <2>2. SUFFICES ASSUME StoreOf(arg) \notin missed, ~moved, pc["query"] # "index"
                 PROVE  got' \in seen
    BY DEF ReadStep
  <2>3. ~viaSmm /\ StoreOf(arg) \in Store /\ Len(l) \in Nat /\ pos \in Nat
    BY <2>1, Constants, CallTypes DEF IInv, Modes
  <2>4. IF pos = 0 THEN Absent \in seen ELSE pos <= Len(l) /\ l[pos].val \in seen
    BY <2>1, <2>2, <2>3 DEF CopyInv, Reading, HasFound
  <2>5. QED
    BY <2>1, <2>3, <2>4 DEF ValueAt
<1>3. QED
  BY <1>1, <1>2

\* Every other step leaves GetVariable where it is, or moves it on, but not to its end.
LEMMA NoReturn ==
  ASSUME IInv, \/ UNCHANGED pc \/ \E c \in Callers : Check(c)
               \/ \E c \in Callers, step \in {"nv", "mem", "clear", "index"},
                     next \in {"mem", "clear", "index", "read", "idle"} :
                    At(c, step) /\ Goto(c, next)
               \/ Goto("get", "copy")
  PROVE  ReadStep
<1>1. CASE UNCHANGED pc
  BY <1>1 DEF ReadStep
<1>2. ASSUME NEW c \in Callers, Check(c)
      PROVE  ReadStep
  BY <1>2, CheckStep DEF ReadStep, Callers
<1>3. ASSUME NEW c \in Callers, NEW step \in {"nv", "mem", "clear", "index"},
             NEW next \in {"mem", "clear", "index", "read", "idle"}, At(c, step), Goto(c, next)
      PROVE  ReadStep
  BY <1>3, CallTypes DEF ReadStep, At, Goto, Callers
<1>4. CASE Goto("get", "copy")
  BY <1>4, CallTypes DEF ReadStep, Goto, Callers
<1>5. QED
  BY <1>1, <1>2, <1>3, <1>4

LEMMA CallerStepCopies ==
  ASSUME IInv, CopyInv, CallerStep
  PROVE  CopyInv' /\ ReadStep
<1>1. ASSUME NEW v \in Asked, GetVariable(v)
      PROVE  CopyInv' /\ ReadStep
  <2>1. \E c \in Callers : Check(c)
    BY <1>1 DEF GetVariable, Callers
  <2>2. QED
    BY <1>1, <2>1, GetVariableCopies, NoReturn
<1>2. CASE QueryVariableInfo
  <2>1. \E c \in Callers : Check(c)
    BY <1>2 DEF QueryVariableInfo, Callers
  <2>2. QED
    BY <1>2, <2>1, QueryVariableInfoCopies, NoReturn
<1>3. ASSUME NEW c \in Callers, EnumerateNv(c) \/ EnumerateMem(c) \/ ClearMask(c) \/ IndexReset(c)
      PROVE  CopyInv' /\ ReadStep
  <2>1. \E step \in {"nv", "mem", "clear", "index"},
           next \in {"mem", "clear", "index", "read", "idle"} : At(c, step) /\ Goto(c, next)
    BY <1>3 DEF EnumerateNv, EnumerateMem, Enumerate, ClearMask, IndexReset, Done
  <2>2. ReadStep
    BY <2>1, NoReturn
  <2>3. QED
    BY <1>3, <2>2, EnumerateNvCopies, EnumerateMemCopies, ClearMaskCopies, IndexResetCopies
<1>4. CASE Search
  <2>1. Goto("get", "copy")
    BY <1>4 DEF Search
  <2>2. QED
    BY <1>4, <2>1, SearchCopies, NoReturn
<1>5. CASE ReadInSmm \/ CopyData
  BY <1>5, ReturnCopies, ReturnedWasSeen
<1>6. QED
  BY <1>1, <1>2, <1>3, <1>4, <1>5 DEF CallerStep

LEMMA StepCopies ==
  ASSUME ~SilentFaults
  PROVE  IInv /\ CopyInv /\ [Next]_vars => CopyInv' /\ ReadStep
<1>1. SUFFICES ASSUME IInv, CopyInv, [Next]_vars PROVE CopyInv' /\ ReadStep
  OBVIOUS
<1>2. CASE \/ NvramSmmInit \/ DxeReadyToLock \/ MigrateNvram
           \/ \E v \in Var : \E d \in Values(v) \cup {Absent} : DxeSetVariable(v, d)
  <2>1. UNCHANGED pc
    BY <1>2 DEF NvramSmmInit, DxeReadyToLock, MigrateNvram, DxeSetVariable, call
  <2>2. QED
    BY <1>1, <1>2, <2>1, TakeOverCopies, NoReturn
<1>3. ASSUME NEW v \in Var, NEW d \in Values(v) \cup {Absent}, SmmSetVariable(v, d)
      PROVE  CopyInv' /\ ReadStep
  <2>1. /\ up /\ sets < MaxSets /\ UNCHANGED kept /\ Witness /\ SmmSetVariableInt(v, d)
        /\ d \in Recorded
    BY <1>3, Constants DEF SmmSetVariable
  <2>2. UNCHANGED pc
    BY <2>1 DEF kept, call
  <2>3. QED
    BY <1>1, <2>1, <2>2, StoredCopies, NoReturn
<1>4. ASSUME NEW k \in Keys, MorLockKey(k)
      PROVE  CopyInv' /\ ReadStep
  <2>1. UNCHANGED pc
    BY <1>4 DEF MorLockKey, kept, call
  <2>2. QED
    BY <1>1, <1>4, <2>1, MorLockKeyCopies, NoReturn
<1>5. CASE SmmReadyToLock
  <2>1. UNCHANGED pc
    BY <1>5 DEF SmmReadyToLock, kept, call
  <2>2. QED
    BY <1>1, <1>5, <2>1, SmmReadyToLockCopies, NoReturn
<1>6. CASE CallerStep
  BY <1>1, <1>6, CallerStepCopies
<1>7. CASE UNCHANGED vars
  <2>1. UNCHANGED <<smm, dxe, end, index, mask, up, stopped, viaSmm, pc, arg, pos, seen, missed, moved>>
    BY <1>7 DEF vars, copies, mailbox, call, ghosts
  <2>2. Copied' /\ Seen'
    BY <1>1, <2>1 DEF CopyInv, Copied, Seen, ValueIn
  <2>3. Marks'
    BY <1>1, <2>1 DEF CopyInv, Marks, Enumerated, Indexed
  <2>4. Reading'
    BY <1>1, <2>1 DEF CopyInv, Reading, WillFind, WillUseIndex, HasFound
  <2>5. QED
    BY <1>1, <2>1, <2>2, <2>3, <2>4, NoReturn DEF CopyInv
<1>8. QED
  BY <1>1, <1>2, <1>3, <1>4, <1>5, <1>6, <1>7 DEF Next, CallerStep

LEMMA InitCopies ==
  Init => CopyInv
<1>1. SUFFICES ASSUME Init PROVE CopyInv
  OBVIOUS
<1>2. /\ smm = [s \in Store |-> <<>>] /\ dxe = smm /\ end = [s \in Store |-> 0]
      /\ index = [v \in Var |-> 0] /\ pc = [c \in Callers |-> "idle"]
  BY <1>1 DEF Init
<1>3. \A s \in Store : dxe[s] = smm[s] /\ dxe[s] = <<>> /\ end[s] = 0 /\ Len(dxe[s]) = 0
  BY <1>2
<1>4. Copied
  BY <1>3 DEF Copied
<1>5. Seen /\ Reading
  BY <1>2 DEF Seen, Reading, Callers
<1>6. \A v \in Var : Indexed(v)
  <2>1. \A v \in Var : index[v] = 0 /\ Len(dxe[StoreOf(v)]) = 0
    BY <1>2, <1>3, Constants
  <2>2. \A v \in Var : RecordsOf(dxe[StoreOf(v)], 0, v) = {}
    BY DEF RecordsOf
  <2>3. QED
    BY <2>1, <2>2 DEF Indexed
<1>7. Marks
  BY <1>3, <1>6 DEF Marks
<1>8. QED
  BY <1>4, <1>5, <1>7 DEF CopyInv

LEMMA InductiveCopies ==
  ASSUME ~SilentFaults
  PROVE  Spec => []CopyInv /\ [][ReadStep]_vars
<1>1. IInv /\ CopyInv /\ [Next]_vars => CopyInv' /\ [ReadStep]_vars
  BY StepCopies
<1>2. QED
  BY InitCopies, Inductive, <1>1, PTL DEF Spec

\* While the mailbox is open the buffers of DXE hold the values SMM holds, when
\* a call of SetVariable that reports an error has changed no variable
\* (UpdateInfo, NvramSmm.c).
THEOREM CopiesFollow ==
  ASSUME ~SilentFaults
  PROVE  Spec => []CopyFollows
<1>1. IInv /\ CopyInv => CopyFollows
  <2>1. SUFFICES ASSUME IInv, CopyInv, up, ~stopped, NEW v \in Var
                 PROVE  ValueIn(dxe, v) = ValueIn(smm, v)
    BY DEF CopyFollows
  <2>2. StoreOf(v) \in Store
    BY Constants
  <2>3. Value(dxe[StoreOf(v)], v) = Value(smm[StoreOf(v)], v)
    BY <2>1, <2>2 DEF CopyInv, Copied
  <2>4. QED
    BY <2>3, ValuesIn
<1>2. QED
  BY Inductive, InductiveCopies, <1>1, PTL

\* GetVariable returns a value the variable had while the call ran, whatever SMIs
\* strike between its statements, but for the three races that ReadsCurrent names
\* (ReenumerateVarStore, NvramDxe.c:180).
THEOREM ReadIsCurrent ==
  ASSUME ~SilentFaults
  PROVE  Spec => ReadsCurrent
<1>1. QED
  BY InductiveCopies, PTL DEF ReadsCurrent, ReadStep
=============================================================================
