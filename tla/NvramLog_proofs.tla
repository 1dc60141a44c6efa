--------------------------- MODULE NvramLog_proofs ---------------------------
(***************************************************************************)
(* Proofs about the log of records in one NVRAM area, for any variables,   *)
(* any size of the area and any number of failures.                        *)
(***************************************************************************)
EXTENDS NvramLog, NatOrder, SequenceTheorems, TLAPS

---------------------------------------------------------------------------
\* Chains of records.

\* The links of a log lead forward.
Forward(l) == \A i \in 1 .. Len(l) : l[i].next = 0 \/ l[i].next > i
Logs == Seq(Record)
Linked(l, k, e) == NvIsVariable(l, l[k].next, e)

LEMMA LogSites ==
  ASSUME NEW l \in Logs
  PROVE  /\ Len(l) \in Nat /\ \A i \in 1 .. Len(l) : l[i] \in Record
         /\ \A i \in 1 .. Len(l) : l[i].next \in Nat /\ l[i].guid \in Cells
                                   /\ l[i].val \in Val \cup {Absent}
         /\ DOMAIN l = 1 .. Len(l)
<1>1. Len(l) \in Nat /\ DOMAIN l = 1 .. Len(l) /\ \A i \in 1 .. Len(l) : l[i] \in Record
  BY DEF Logs
<1>2. Far \in Nat
  BY LogAssumption DEF Far
<1>3. \A r \in Record : r.next \in Nat /\ r.guid \in Cells /\ r.val \in Val \cup {Absent}
  BY <1>2 DEF Record
<1>4. QED
  BY <1>1, <1>3

\* NvGetDataNvar comes to an end: the last record of each chain is there.
LEMMA ChainsEnd ==
  ASSUME NEW l \in Logs, Forward(l), NEW e \in Nat
  PROVE  /\ ChainEnds(l, e) \in [1 .. Len(l) -> 1 .. Len(l)]
         /\ \A k \in 1 .. Len(l) :
              ChainEnds(l, e)[k] = IF Linked(l, k, e) THEN ChainEnds(l, e)[l[k].next] ELSE k
<1> DEFINE n == Len(l)
           Holds(f, m) == /\ f \in [m + 1 .. n -> 1 .. n]
                          /\ \A k \in m + 1 .. n :
                               f[k] = IF Linked(l, k, e) THEN f[l[k].next] ELSE k
           From == {m \in 0 .. n : \E f : Holds(f, m)}
<1>1. n \in Nat
  BY LogSites
<1>2. \A k \in 1 .. n : Linked(l, k, e) => l[k].next \in k + 1 .. n
  BY LogSites DEF Linked, NvIsVariable, Forward
<1>3. n \in From
  <2>1. Holds([k \in n + 1 .. n |-> k], n)
    BY <1>1
  <2>2. n \in 0 .. n
    BY <1>1
  <2> HIDE DEF Holds
  <2>3. QED
    BY <2>1, <2>2
<1>4. ASSUME NEW m \in From, m # 0
      PROVE  m - 1 \in From
  <2>1. PICK f : Holds(f, m)
    OBVIOUS
  <2>2. m \in 1 .. n /\ m - 1 \in 0 .. n
    BY <1>1, <1>4
  <2> DEFINE g == [k \in m .. n |-> IF k = m THEN (IF Linked(l, m, e) THEN f[l[m].next] ELSE m)
                                    ELSE f[k]]
  <2>3. \A k \in m .. n : k = m \/ k \in m + 1 .. n
    BY <2>2, <1>1
  <2>4. g \in [m .. n -> 1 .. n]
    BY <1>1, <1>2, <2>1, <2>2, <2>3
  <2>5. ASSUME NEW k \in m .. n
        PROVE  g[k] = IF Linked(l, k, e) THEN g[l[k].next] ELSE k
    <3>1. k \in 1 .. n
      BY <1>1, <2>2
    <3>2. Linked(l, k, e) => l[k].next \in m + 1 .. n /\ g[l[k].next] = f[l[k].next]
      BY <1>1, <1>2, <2>2, <3>1
    <3>3. CASE k = m
      BY <3>2, <3>3
    <3>4. CASE k \in m + 1 .. n
      <4>1. g[k] = f[k]
        BY <2>2, <3>4
      <4>2. QED
        BY <2>1, <3>2, <3>4, <4>1
    <3>5. QED
      BY <2>3, <3>3, <3>4
  <2>6. m - 1 + 1 = m
    BY <2>2
  <2>7. Holds(g, m - 1)
    BY <2>4, <2>5, <2>6
  <2>8. QED
    BY <2>2, <2>7
<1>5. 0 \in From
  <2>1. From \in SUBSET Nat /\ From # {}
    BY <1>1, <1>3
  <2>2. Min(From) \in From /\ \A m \in From : Min(From) <= m
    BY <2>1, MinIsLeast
  <2>3. Min(From) # 0 => Min(From) - 1 \in From
    BY <1>4, <2>2
  <2> HIDE DEF Holds
  <2>4. Min(From) \in Nat
    BY <2>1, <2>2
  <2>5. Min(From) # 0 => Min(From) <= Min(From) - 1
    BY <2>2, <2>3
  <2>6. QED
    BY <2>2, <2>4, <2>5
<1>6. PICK f : Holds(f, 0)
  BY <1>5
<1>7. f = [k \in 1 .. n |-> IF Linked(l, k, e) THEN f[l[k].next] ELSE k]
  BY <1>6
<1>8. ChainEnds(l, e) = [k \in 1 .. n |-> IF Linked(l, k, e) THEN ChainEnds(l, e)[l[k].next] ELSE k]
  BY <1>7 DEF ChainEnds, Linked
<1> DEFINE C == ChainEnds(l, e)
<1> HIDE DEF C
<1>9. C = [k \in 1 .. n |-> IF Linked(l, k, e) THEN C[l[k].next] ELSE k]
  BY <1>8 DEF C
<1>10. \A k \in 1 .. n : C[k] \in 1 .. n
  <2> DEFINE Bad == {k \in 1 .. n : C[k] \notin 1 .. n}
  <2>1. SUFFICES ASSUME Bad # {}
                 PROVE  FALSE
    OBVIOUS
  <2>2. Bad \in SUBSET Nat /\ n \in Nat /\ \A m \in Bad : m <= n
    BY <1>1
  <2>3. PICK k \in Bad : \A m \in Bad : m <= k
    BY <2>1, <2>2, MaxIsGreatest
  <2>4. Linked(l, k, e) /\ C[k] = C[l[k].next]
    BY <1>9
  <2>5. l[k].next \in k + 1 .. n
    BY <1>2, <2>4
  <2>6. l[k].next \in Bad /\ l[k].next > k
    BY <1>1, <2>2, <2>4, <2>5
  <2>7. QED
    BY <2>2, <2>3, <2>6
<1>11. C \in [1 .. n -> 1 .. n] /\ \A k \in 1 .. n : C[k] = IF Linked(l, k, e) THEN C[l[k].next] ELSE k
  BY <1>9, <1>10
<1>12. QED
  BY <1>11 DEF C

---------------------------------------------------------------------------
\* Walks and the enumeration of a log.

All(l) == Walk(l, 1, Area)
ValidOf(l) == {i \in All(l) : NvIsValid(l[i])}
FirstOf(l) == IF ValidOf(l) = {} THEN 1 ELSE Min(ValidOf(l))
Rest(l) == {i \in All(l) : i >= FirstOf(l)}
LastOf(l) == Max(Rest(l))
Filed(l) == {l[i].guid : i \in {k \in Rest(l) : ~l[k].dataOnly}}
NextGuidOf(l) == Max({0} \cup Filed(l)) + 1

LEMMA WalkSites ==
  ASSUME NEW l \in Logs, NEW f \in Nat, NEW e \in Nat
  PROVE  /\ Walk(l, f, e) \in SUBSET (1 .. Len(l))
         /\ \A i \in Walk(l, f, e) : f <= i /\ NvIsVariable(l, i, e)
         /\ Walk(l, f, e) # {} => f \in Walk(l, f, e)
<1>1. Len(l) \in Nat
  BY LogSites
<1>2. Walk(l, f, e) \in SUBSET (1 .. Len(l)) /\ \A i \in Walk(l, f, e) : f <= i /\ NvIsVariable(l, i, e)
  BY <1>1 DEF Walk, NvIsVariable
<1>3. NvIsVariable(l, f, e) => f \in Walk(l, f, e)
  BY <1>1 DEF Walk, NvIsVariable
<1>4. QED
  BY <1>2, <1>3 DEF Walk

\* Where a search ends.
Matches(l, g, walk, v) ==
    {i \in walk : NvIsValid(l[i]) /\ l[i].name = v.name /\ g[l[i].guid] = v.guid}

LEMMA FoundSite ==
  ASSUME NEW l \in Logs, NEW g, NEW walk \in SUBSET (1 .. Len(l)), NEW v
  PROVE  /\ NvFindVariable(l, g, walk, v) \in 0 .. Len(l)
         /\ NvFindVariable(l, g, walk, v) = 0 <=> Matches(l, g, walk, v) = {}
         /\ NvFindVariable(l, g, walk, v) # 0 =>
              /\ NvFindVariable(l, g, walk, v) \in Matches(l, g, walk, v)
              /\ \A i \in Matches(l, g, walk, v) : NvFindVariable(l, g, walk, v) <= i
<1> DEFINE M == Matches(l, g, walk, v)
<1>1. Len(l) \in Nat /\ M \in SUBSET walk /\ M \in SUBSET Nat
  <2>1. Len(l) \in Nat
    BY LogSites
  <2>2. M \in SUBSET walk
    BY DEF Matches
  <2>3. walk \in SUBSET Nat
    BY <2>1
  <2>4. QED
    BY <2>1, <2>2, <2>3
<1>2. NvFindVariable(l, g, walk, v) = IF M = {} THEN 0 ELSE Min(M)
  BY DEF NvFindVariable, Matches
<1>3. M # {} => Min(M) \in M /\ \A i \in M : Min(M) <= i
  BY <1>1, MinIsLeast
<1>4. M # {} => Min(M) \in 1 .. Len(l)
  BY <1>1, <1>3
<1>5. M = Matches(l, g, walk, v)
  OBVIOUS
<1> HIDE DEF M
<1>6. QED
  BY <1>1, <1>2, <1>3, <1>4, <1>5

\* How EnumerateStore comes to what it finds, when it finds a record.
LEMMA EnumerateParts ==
  ASSUME NEW l \in Logs, Len(l) <= Area, All(l) # {}
  PROVE  /\ FirstOf(l) \in All(l) /\ \A i \in ValidOf(l) : FirstOf(l) <= i
         /\ LastOf(l) \in All(l) /\ \A i \in All(l) : i <= LastOf(l)
         /\ {0} \cup Filed(l) \in SUBSET Cells
         /\ Max({0} \cup Filed(l)) \in {0} \cup Filed(l)
         /\ \A c \in Filed(l) : c <= Max({0} \cup Filed(l))
         /\ \E s \in BOOLEAN :
              /\ s => LastOf(l) < Len(l) /\ l[LastOf(l) + 1].size = "ok"
              /\ Enumerate(l) = [first |-> FirstOf(l),
                                 end |-> IF s THEN LastOf(l) + 1 ELSE LastOf(l),
                                 nextGuid |-> NextGuidOf(l), last |-> IF s THEN 2 ELSE 1]
<1>1. Len(l) \in Nat /\ Area \in Nat /\ Area # 0
  BY LogSites, LogAssumption
<1>2. All(l) \in SUBSET (1 .. Len(l)) /\ (\A i \in All(l) : NvIsVariable(l, i, Area))
      /\ (All(l) # {} => 1 \in All(l))
  BY <1>1, WalkSites DEF All
<1>3. FirstOf(l) \in All(l) /\ \A i \in ValidOf(l) : FirstOf(l) <= i
  <2>1. ValidOf(l) \in SUBSET Nat /\ ValidOf(l) \in SUBSET All(l)
    BY <1>2 DEF ValidOf
  <2>2. ValidOf(l) # {} => Min(ValidOf(l)) \in ValidOf(l) /\ \A i \in ValidOf(l) : Min(ValidOf(l)) <= i
    BY <2>1, MinIsLeast
  <2>3. QED
    BY <1>2, <2>1, <2>2 DEF FirstOf
<1>4. Rest(l) \in SUBSET All(l) /\ Rest(l) # {} /\ Rest(l) \in SUBSET Nat
      /\ \A i \in Rest(l) : i <= Len(l)
  BY <1>2, <1>3 DEF Rest
<1>5. LastOf(l) \in Rest(l) /\ \A i \in Rest(l) : i <= LastOf(l)
  BY <1>1, <1>4, MaxIsGreatest DEF LastOf
<1>6. \A i \in All(l) : i <= LastOf(l)
  BY <1>1, <1>2, <1>3, <1>4, <1>5 DEF Rest
<1>7. {0} \cup Filed(l) \in SUBSET Cells
  BY <1>1, <1>2, <1>4, LogSites DEF Filed, Cells
<1>8. /\ Max({0} \cup Filed(l)) \in {0} \cup Filed(l)
      /\ \A c \in Filed(l) : c <= Max({0} \cup Filed(l))
  <2>1. Cells \in SUBSET Nat /\ \A c \in Cells : c <= Area
    BY <1>1 DEF Cells
  <2>2. {0} \cup Filed(l) \in SUBSET Nat /\ \A c \in {0} \cup Filed(l) : c <= Area
    BY <1>7, <2>1
  <2>3. QED
    BY <1>1, <2>2, MaxIsGreatest
<1>9. PICK s \in BOOLEAN :
        /\ s => LastOf(l) < Len(l) /\ l[LastOf(l) + 1].size = "ok"
        /\ Enumerate(l) = [first |-> FirstOf(l), end |-> IF s THEN LastOf(l) + 1 ELSE LastOf(l),
                           nextGuid |-> NextGuidOf(l), last |-> IF s THEN 2 ELSE 1]
  <2> DEFINE skip == /\ LastOf(l) < Len(l) /\ l[LastOf(l) + 1].size = "ok"
                     /\ LastOf(l) + 1 <= Area - (NextGuidOf(l) + 1)
  <2>1. Enumerate(l) = [first |-> FirstOf(l),
                        end |-> IF skip THEN LastOf(l) + 1 ELSE LastOf(l),
                        nextGuid |-> NextGuidOf(l), last |-> IF skip THEN 2 ELSE 1]
    BY DEF Enumerate, All, ValidOf, FirstOf, Rest, LastOf, Filed, NextGuidOf
  <2>2. skip => LastOf(l) < Len(l) /\ l[LastOf(l) + 1].size = "ok"
    OBVIOUS
  <2>3. skip \in BOOLEAN
    OBVIOUS
  <2> HIDE DEF skip
  <2>4. QED
    BY <2>1, <2>2, <2>3
<1>10. QED
  BY <1>3, <1>4, <1>5, <1>6, <1>7, <1>8, <1>9

\* What EnumerateStore finds in a log.
LEMMA EnumerateSites ==
  ASSUME NEW l \in Logs, Len(l) <= Area
  PROVE  /\ Enumerate(l).first \in 1 .. Area /\ Enumerate(l).end \in 0 .. Len(l)
         /\ Enumerate(l).nextGuid \in 0 .. Area /\ Enumerate(l).last \in 0 .. 2
         /\ Enumerate(l).nextGuid > 1 =>
              \E i \in 1 .. Len(l) : /\ Enumerate(l).nextGuid = l[i].guid + 1
                                     /\ l[i].signed /\ ~l[i].dataOnly
         /\ Enumerate(l).nextGuid = 1 => l # <<>> /\ l[1].signed
<1>1. Len(l) \in Nat /\ Area \in Nat /\ Area # 0
  BY LogSites, LogAssumption
<1>2. All(l) \in SUBSET (1 .. Len(l)) /\ (\A i \in All(l) : NvIsVariable(l, i, Area))
      /\ (All(l) # {} => 1 \in All(l))
  BY <1>1, WalkSites DEF All
<1>3. CASE All(l) = {}
  <2>1. Enumerate(l) = [first |-> 1, end |-> 0, nextGuid |-> 0, last |-> 0]
    BY <1>3 DEF Enumerate, All
  <2>2. QED
    BY <1>1, <2>1
<1>4. CASE All(l) # {}
  <2>1. LastOf(l) \in 1 .. Len(l) /\ FirstOf(l) \in 1 .. Len(l)
    BY <1>2, <1>4, EnumerateParts
  <2>2. NextGuidOf(l) \in 1 .. Area
        /\ (NextGuidOf(l) > 1 => \E i \in 1 .. Len(l) : NextGuidOf(l) = l[i].guid + 1
                                                       /\ l[i].signed /\ ~l[i].dataOnly)
    <3>1. PICK m \in {0} \cup Filed(l) : m = Max({0} \cup Filed(l))
      BY <1>4, EnumerateParts
    <3>2. NextGuidOf(l) = m + 1 /\ m \in 0 .. Area - 1
      BY <1>4, <3>1, EnumerateParts DEF NextGuidOf, Cells
    <3>3. m \in Filed(l) =>
             \E i \in 1 .. Len(l) : m = l[i].guid /\ l[i].signed /\ ~l[i].dataOnly
      BY <1>2 DEF Filed, Rest, NvIsVariable
    <3>4. m + 1 > 1 => m \in Filed(l)
      BY <3>1, <3>2
    <3>5. NextGuidOf(l) > 1 =>
            \E i \in 1 .. Len(l) : NextGuidOf(l) = l[i].guid + 1 /\ l[i].signed /\ ~l[i].dataOnly
      BY <3>2, <3>3, <3>4
    <3>6. NextGuidOf(l) \in 1 .. Area
      BY <1>1, <3>2
    <3>7. QED
      BY <3>5, <3>6
  <2>3. PICK s \in BOOLEAN :
          /\ s => LastOf(l) < Len(l)
          /\ Enumerate(l) = [first |-> FirstOf(l), end |-> IF s THEN LastOf(l) + 1 ELSE LastOf(l),
                             nextGuid |-> NextGuidOf(l), last |-> IF s THEN 2 ELSE 1]
    BY <1>4, EnumerateParts
  <2>4. l # <<>> /\ l[1].signed
    BY <1>1, <1>2, <1>4 DEF NvIsVariable
  <2>5. QED
    BY <1>1, <2>1, <2>2, <2>3, <2>4
<1>5. QED
  BY <1>3, <1>4

\* What reads of a log return.
LEMMA ValueType ==
  ASSUME NEW l \in Logs, Forward(l), NEW e \in Nat, NEW i \in 0 .. Len(l)
  PROVE  ValueAt(l, i, e) \in Val \cup {Absent}
<1>1. CASE i = 0
  BY <1>1 DEF ValueAt
<1>2. CASE i # 0
  <2>1. i \in 1 .. Len(l)
    BY <1>2, LogSites
  <2>2. NvGetDataNvar(l, i, e) \in 1 .. Len(l)
    BY <2>1, ChainsEnd DEF NvGetDataNvar
  <2>3. QED
    BY <1>2, <2>2, LogSites DEF ValueAt
<1>3. QED
  BY <1>1, <1>2

LEMMA IndexType ==
  ASSUME NEW l \in Logs, NEW g, NEW f \in Nat, NEW e \in Nat
  PROVE  IndexOf(l, g, f, e) \in [Var -> 0 .. Len(l)]
<1>1. \A v \in Var : NvFindVariable(l, g, Walk(l, f, e), v) \in 0 .. Len(l)
  BY WalkSites, FoundSite
<1>2. QED
  BY <1>1 DEF IndexOf

LEMMA ContentsType ==
  ASSUME NEW l \in Logs, Len(l) <= Area, Forward(l), NEW g
  PROVE  Contents(l, g) \in [Var -> Val \cup {Absent}]
<1> DEFINE b == Enumerate(l)
<1>1. b.first \in Nat /\ b.end \in Nat
  BY EnumerateSites, LogSites
<1> HIDE DEF b
<1>2. \A v \in Var : NvFindVariable(l, g, Walk(l, b.first, b.end), v) \in 0 .. Len(l)
  BY <1>1, WalkSites, FoundSite
<1>3. \A v \in Var :
        ValueAt(l, NvFindVariable(l, g, Walk(l, b.first, b.end), v), b.end) \in Val \cup {Absent}
  BY <1>1, <1>2, ValueType
<1>4. Contents(l, g) =
        [v \in Var |-> ValueAt(l, NvFindVariable(l, g, Walk(l, b.first, b.end), v), b.end)]
  BY DEF Contents, b
<1>5. QED
  BY <1>3, <1>4

\* The end of a chain is not before its beginning, nor after the end of the log.
LEMMA ChainStays ==
  ASSUME NEW l \in Logs, Forward(l), NEW e \in Nat, NEW i \in 1 .. Len(l), i <= e
  PROVE  NvGetDataNvar(l, i, e) \in 1 .. Len(l) /\ NvGetDataNvar(l, i, e) <= e
<1> DEFINE C == ChainEnds(l, e)
           Bad == {k \in 1 .. Len(l) : k <= e /\ C[k] > e}
<1>1. Len(l) \in Nat
  BY LogSites
<1>2. C \in [1 .. Len(l) -> 1 .. Len(l)]
      /\ \A k \in 1 .. Len(l) : C[k] = IF Linked(l, k, e) THEN C[l[k].next] ELSE k
  BY ChainsEnd
<1>3. \A k \in 1 .. Len(l) : Linked(l, k, e) => /\ l[k].next \in 1 .. Len(l) /\ l[k].next <= e
                                                /\ l[k].next > k
  <2>1. TAKE k \in 1 .. Len(l)
  <2>2. l[k].next = 0 \/ l[k].next > k
    BY DEF Forward
  <2>3. QED
    BY <1>1, <2>2 DEF Linked, NvIsVariable
<1> HIDE DEF C
<1>4. Bad = {}
  <2>1. SUFFICES ASSUME Bad # {}
                 PROVE  FALSE
    OBVIOUS
  <2>2. Bad \in SUBSET Nat /\ \A m \in Bad : m <= Len(l)
    BY <1>1
  <2>3. PICK k \in Bad : \A m \in Bad : m <= k
    BY <1>1, <2>1, <2>2, MaxIsGreatest
  <2>4. Linked(l, k, e) /\ C[k] = C[l[k].next]
    BY <1>1, <1>2, <2>3
  <2>5. l[k].next \in Bad /\ l[k].next > k
    BY <1>3, <2>3, <2>4
  <2>6. QED
    BY <2>2, <2>3, <2>5
<1>5. C[i] \in 1 .. Len(l) /\ ~(C[i] > e)
  BY <1>2, <1>4
<1>6. QED
  BY <1>1, <1>5 DEF NvGetDataNvar, C

---------------------------------------------------------------------------
\* The inductive invariant.

\* Every record links forward, and one that is signed has its name, or it only
\* holds data; the first one is no such record.
Good(l) ==
    /\ l \in Logs /\ Len(l) <= Area /\ Forward(l)
    /\ \A i \in 1 .. Len(l) : l[i].signed => l[i].dataOnly \/ l[i].name # Absent
    /\ Len(l) > 0 => ~l[1].dataOnly

Calls == {"header", "guid", "body", "sign", "link", "delete", "recover"}

\* How far the record being written is, and what is known of its place.
Phase ==
    /\ pc # "off" => end <= Len(log)
    /\ pc \in Calls => op.var \in Var /\ rec <= Len(log)
    /\ pc \in Calls \ {"delete"} => op.val \in Val
    /\ pc \in {"header", "guid"} => guids[nextGuid] = Blank /\ end + nextGuid + 3 <= Area
    /\ pc = "header" => Len(log) = end
    /\ pc = "guid" => rec = 0
    /\ pc \in {"guid", "body", "sign", "link"} => Len(log) = end + 1
    /\ pc \in {"header", "guid", "body", "sign", "link"} => rec <= end
    /\ pc \in {"guid", "body", "sign"} =>
         log[end + 1].dataOnly = (rec # 0) /\ ~log[end + 1].signed
    /\ pc = "body" /\ rec = 0 => GuidCell(op.var) < nextGuid /\ guids[GuidCell(op.var)] # Blank
    /\ pc = "sign" /\ rec = 0 => log[end + 1].name # Absent
    /\ pc \in {"link", "delete"} => rec # 0

IInv == TypeOK /\ Good(log) /\ Phase

---------------------------------------------------------------------------
\* What the operations do to a log.

LEMMA Appended ==
  ASSUME NEW l, Good(l), Len(l) < Area, NEW r \in Record, ~r.signed, r.next = 0,
         r.dataOnly => Len(l) > 0
  PROVE  /\ Good(Append(l, r)) /\ Len(Append(l, r)) = Len(l) + 1
         /\ Append(l, r)[Len(l) + 1] = r /\ \A i \in 1 .. Len(l) : Append(l, r)[i] = l[i]
<1> DEFINE a == Append(l, r)
<1>1. l \in Seq(Record) /\ Len(l) \in Nat
  BY LogSites DEF Good, Logs
<1>2. a \in Seq(Record) /\ Len(a) = Len(l) + 1 /\ a[Len(l) + 1] = r
      /\ \A i \in 1 .. Len(l) : a[i] = l[i]
  BY <1>1
<1> HIDE DEF a
<1>3. \A i \in 1 .. Len(a) : i \in 1 .. Len(l) \/ i = Len(l) + 1
  BY <1>1, <1>2
<1>4. Forward(a)
  BY <1>2, <1>3 DEF Good, Forward
<1>5. \A i \in 1 .. Len(a) : a[i].signed => a[i].dataOnly \/ a[i].name # Absent
  BY <1>2, <1>3 DEF Good
<1>6. ~a[1].dataOnly
  <2>1. CASE Len(l) > 0
    BY <1>1, <1>2, <2>1 DEF Good
  <2>2. CASE Len(l) = 0
    BY <1>2, <2>2
  <2>3. QED
    BY <1>1, <2>1, <2>2
<1>7. Len(a) <= Area
  BY <1>1, <1>2, LogAssumption
<1>8. Good(a)
  BY <1>2, <1>4, <1>5, <1>6, <1>7 DEF Good, Logs
<1>9. QED
  BY <1>2, <1>8 DEF a

\* Programming fields of the record i.
Programmed(l, m, i) ==
    /\ m \in Logs /\ Len(m) = Len(l)
    /\ \A k \in 1 .. Len(l) : k # i => m[k] = l[k]

LEMMA FieldsProgrammed ==
  ASSUME NEW l, Good(l), NEW m, NEW i \in 1 .. Len(l), Programmed(l, m, i),
         m[i].next = 0 \/ m[i].next > i, m[i].signed => m[i].dataOnly \/ m[i].name # Absent,
         m[i].dataOnly = l[i].dataOnly
  PROVE  Good(m)
<1>1. Len(l) \in Nat /\ Len(m) = Len(l) /\ \A k \in 1 .. Len(l) : k = i \/ m[k] = l[k]
  BY LogSites DEF Good, Programmed
<1>2. Forward(m)
  BY <1>1 DEF Good, Forward
<1>3. \A k \in 1 .. Len(m) : m[k].signed => m[k].dataOnly \/ m[k].name # Absent
  BY <1>1 DEF Good
<1>4. Len(m) > 0 => ~m[1].dataOnly
  <2>1. Len(m) > 0 => 1 \in 1 .. Len(l) /\ ~l[1].dataOnly
    BY <1>1 DEF Good
  <2>2. QED
    BY <1>1, <2>1
<1>5. QED
  BY <1>1, <1>2, <1>3, <1>4 DEF Good, Programmed

Entered(l, m, i, r) == m = [l EXCEPT ![i] = r]

LEMMA EntryProgrammed ==
  ASSUME NEW l, Good(l), NEW i \in 1 .. Len(l), NEW r \in Record, NEW m, Entered(l, m, i, r),
         r.next = 0 \/ r.next > i, r.signed => r.dataOnly \/ r.name # Absent,
         r.dataOnly = l[i].dataOnly
  PROVE  Good(m) /\ Programmed(l, m, i) /\ m[i] = r
<1>1. l \in Seq(Record)
  BY DEF Good, Logs
<1>2. Programmed(l, m, i) /\ m[i] = r
  BY <1>1 DEF Programmed, Logs, Entered
<1>3. QED
  BY <1>2, FieldsProgrammed

---------------------------------------------------------------------------
\* Each operation keeps the log in order, completed or not.

LEMMA TorsoFields ==
  ASSUME NEW d \in BOOLEAN
  PROVE  \E t \in Record : /\ t = Torso(d) /\ t.size = "ok" /\ ~t.signed /\ t.valid
                           /\ t.dataOnly = d /\ t.next = 0
<1> DEFINE r == [size |-> "ok", signed |-> FALSE, valid |-> TRUE, dataOnly |-> d,
                 name |-> Absent, guid |-> 0, val |-> Absent, next |-> 0]
<1>1. 0 \in Cells /\ 0 \in 0 .. Far
  BY LogAssumption DEF Cells, Far
<1>2. r \in Record
  BY <1>1 DEF Record
<1>3. Torso(d) = r
  BY DEF Torso
<1>4. r.size = "ok" /\ ~r.signed /\ r.valid /\ r.dataOnly = d /\ r.next = 0
  OBVIOUS
<1> HIDE DEF r
<1>5. QED
  BY <1>2, <1>3, <1>4

LEMMA TorsoType ==
  ASSUME NEW d \in BOOLEAN, NEW z \in {"ok", "bad"}
  PROVE  /\ [Torso(d) EXCEPT !.size = z] \in Record
         /\ Torso(d) = [Torso(d) EXCEPT !.size = "ok"]
         /\ [Torso(d) EXCEPT !.size = z].dataOnly = d
         /\ [Torso(d) EXCEPT !.size = z].next = 0 /\ ~[Torso(d) EXCEPT !.size = z].signed
<1>1. PICK t \in Record : t = Torso(d) /\ t.size = "ok" /\ ~t.signed /\ t.dataOnly = d /\ t.next = 0
  BY TorsoFields
<1>2. [t EXCEPT !.size = "ok"] = t
  BY <1>1 DEF Record
<1>3. [t EXCEPT !.size = z] \in Record
  BY DEF Record
<1>4. [t EXCEPT !.size = z].dataOnly = t.dataOnly /\ [t EXCEPT !.size = z].next = t.next
      /\ [t EXCEPT !.size = z].signed = t.signed
  BY DEF Record
<1>5. QED
  BY <1>1, <1>2, <1>3, <1>4

LEMMA HeaderOutcome ==
  ASSUME IInv, pc = "header", NEW z \in {"ok", "bad"},
         NEW a, a = Append(log, [Torso(rec # 0) EXCEPT !.size = z])
  PROVE  /\ Good(a) /\ Len(a) = Len(log) + 1 /\ a[Len(log) + 1] = [Torso(rec # 0) EXCEPT !.size = z]
         /\ \A i \in 1 .. Len(log) : a[i] = log[i]
<1>1. /\ Good(log) /\ Len(log) \in Nat /\ end \in Nat /\ nextGuid \in Nat /\ Area \in Nat
      /\ Len(log) = end /\ end + nextGuid + 3 <= Area /\ rec <= end /\ rec \in Nat
  BY LogSites, LogAssumption DEF IInv, TypeOK, Phase, Good, Logs
<1>2. Len(log) < Area /\ (rec # 0 => Len(log) > 0) /\ (rec # 0) \in BOOLEAN
  BY <1>1
<1>3. QED
  <2>1. PICK r \in Record : /\ r = [Torso(rec # 0) EXCEPT !.size = z]
                            /\ r.dataOnly = (rec # 0) /\ r.next = 0 /\ ~r.signed
    BY <1>2, TorsoType
  <2>2. a = Append(log, r)
    BY <2>1
  <2>3. /\ Good(Append(log, r)) /\ Len(Append(log, r)) = Len(log) + 1
        /\ Append(log, r)[Len(log) + 1] = r /\ \A i \in 1 .. Len(log) : Append(log, r)[i] = log[i]
    <3>1. r.dataOnly => Len(log) > 0
      BY <1>2, <2>1
    <3>2. Good(log) /\ Len(log) < Area /\ r.next = 0 /\ ~r.signed
      BY <1>1, <1>2, <2>1
    <3>3. QED
      BY <3>1, <3>2, Appended
  <2> HIDE DEF Good
  <2>4. QED
    BY <2>1, <2>2, <2>3

LEMMA NewSite ==
  ASSUME IInv, pc \in {"guid", "body", "sign", "link"}
  PROVE  /\ end + 1 \in 1 .. Len(log) /\ log \in Seq(Record) /\ Len(log) = end + 1
         /\ end \in Nat /\ Len(log) \in Nat /\ log[end + 1] \in Record
         /\ log[end + 1].next = 0 \/ log[end + 1].next > end + 1
<1>1. Good(log) /\ end \in Nat /\ Len(log) = end + 1
  BY DEF IInv, TypeOK, Phase
<1>2. QED
  BY <1>1, LogSites DEF Good, Forward, Logs

LEMMA CellFound ==
  ASSUME NEW v
  PROVE  \/ GuidCell(v) = nextGuid
         \/ nextGuid \in Nat => GuidCell(v) < nextGuid /\ GuidCell(v) \in Nat
                                /\ guids[GuidCell(v)] = v.guid
<1> DEFINE known == {c \in 0 .. nextGuid - 1 : guids[c] = v.guid}
<1>1. CASE known = {}
  BY <1>1 DEF GuidCell
<1>2. CASE known # {}
  <2>1. SUFFICES ASSUME nextGuid \in Nat
                 PROVE  Min(known) \in known
    BY <1>2 DEF GuidCell
  <2>2. known \in SUBSET Nat
    BY <2>1
  <2>3. QED
    BY <1>2, <2>2, MinIsLeast
<1>3. QED
  BY <1>1, <1>2

LEMMA BodyOutcome ==
  ASSUME IInv, pc = "body"
  PROVE  /\ Good(Body(log)) /\ Programmed(log, Body(log), end + 1)
         /\ Body(log)[end + 1].size = log[end + 1].size /\ Body(log)[end + 1].valid = log[end + 1].valid
         /\ Body(log)[end + 1].next = log[end + 1].next /\ Body(log)[end + 1].val = op.val
         /\ Body(log)[end + 1].dataOnly = (rec # 0) /\ ~Body(log)[end + 1].signed
         /\ rec = 0 => Body(log)[end + 1].name # Absent
         /\ rec = 0 => Body(log)[end + 1].guid = GuidCell(op.var) /\ Body(log)[end + 1].name = op.var.name
<1>1. /\ end + 1 \in 1 .. Len(log) /\ log \in Seq(Record) /\ log[end + 1] \in Record
      /\ log[end + 1].next = 0 \/ log[end + 1].next > end + 1
  BY NewSite
<1>2. /\ op.var \in Var /\ op.val \in Val /\ Good(log) /\ nextGuid \in 0 .. Area
      /\ rec = 0 => GuidCell(op.var) < nextGuid
      /\ log[end + 1].dataOnly = (rec # 0) /\ ~log[end + 1].signed
  BY DEF IInv, TypeOK, Phase, Calls
<1>3. op.var.name \in Names /\ op.var.name # Absent
  BY <1>2, LogAssumption DEF Names
<1>4. rec = 0 => GuidCell(op.var) \in Cells
  BY <1>2, CellFound, LogAssumption DEF Cells
<1>5. CASE rec = 0
  <2> DEFINE r == [log[end + 1] EXCEPT !.name = op.var.name, !.guid = GuidCell(op.var), !.val = op.val]
  <2>1. r \in Record
    BY <1>1, <1>2, <1>3, <1>4, <1>5 DEF Record
  <2>2. /\ r.next = log[end + 1].next /\ r.signed = log[end + 1].signed
        /\ r.dataOnly = log[end + 1].dataOnly /\ r.size = log[end + 1].size
        /\ r.valid = log[end + 1].valid /\ r.val = op.val /\ r.name = op.var.name
        /\ r.guid = GuidCell(op.var)
    BY <1>1 DEF Record
  <2>3. Entered(log, Body(log), end + 1, r)
    BY <1>1, <1>5 DEF Body, new, Record, Entered
  <2> HIDE DEF r
  <2>4. QED
    BY <1>1, <1>2, <1>3, <1>5, <2>1, <2>2, <2>3, EntryProgrammed
<1>6. CASE rec # 0
  <2> DEFINE r == [log[end + 1] EXCEPT !.val = op.val]
  <2>1. r \in Record
    BY <1>1, <1>2 DEF Record
  <2>2. /\ r.next = log[end + 1].next /\ r.signed = log[end + 1].signed
        /\ r.dataOnly = log[end + 1].dataOnly /\ r.size = log[end + 1].size
        /\ r.valid = log[end + 1].valid /\ r.val = op.val
    BY <1>1 DEF Record
  <2>3. Entered(log, Body(log), end + 1, r)
    BY <1>1, <1>6 DEF Body, new, Record, Entered
  <2> HIDE DEF r
  <2>4. QED
    BY <1>1, <1>2, <1>6, <2>1, <2>2, <2>3, EntryProgrammed
<1>7. QED
  BY <1>5, <1>6

LEMMA SignatureOutcome ==
  ASSUME IInv, pc = "sign"
  PROVE  /\ Good(Signature(log)) /\ Programmed(log, Signature(log), end + 1)
         /\ \E r \in Record :
              /\ Signature(log)[end + 1] = r /\ r.signed /\ r.size = log[end + 1].size
              /\ r.valid = log[end + 1].valid /\ r.dataOnly = log[end + 1].dataOnly
              /\ r.name = log[end + 1].name /\ r.guid = log[end + 1].guid
              /\ r.val = log[end + 1].val /\ r.next = log[end + 1].next
<1>1. /\ end + 1 \in 1 .. Len(log) /\ log \in Seq(Record) /\ log[end + 1] \in Record
      /\ log[end + 1].next = 0 \/ log[end + 1].next > end + 1
  BY NewSite
<1>2. /\ Good(log) /\ log[end + 1].dataOnly = (rec # 0)
      /\ rec = 0 => log[end + 1].name # Absent
  BY DEF IInv, Phase
<1> DEFINE r == [log[end + 1] EXCEPT !.signed = TRUE]
<1>3. /\ r \in Record /\ r.next = log[end + 1].next /\ r.dataOnly = log[end + 1].dataOnly
      /\ r.name = log[end + 1].name /\ r.size = log[end + 1].size /\ r.valid = log[end + 1].valid
      /\ r.guid = log[end + 1].guid /\ r.val = log[end + 1].val /\ r.signed
  BY <1>1 DEF Record
<1>4. Entered(log, Signature(log), end + 1, r)
  BY <1>1 DEF Signature, new, Entered
<1> HIDE DEF r
<1>5. PICK m : m = Signature(log)
  OBVIOUS
<1>6. Good(m) /\ Programmed(log, m, end + 1) /\ m[end + 1] = r
  <2>1. Entered(log, m, end + 1, r)
    BY <1>4, <1>5
  <2>2. r.next = 0 \/ r.next > end + 1
    BY <1>1, <1>3
  <2>3. r.signed => r.dataOnly \/ r.name # Absent
    BY <1>2, <1>3
  <2>4. r \in Record /\ r.dataOnly = log[end + 1].dataOnly
    BY <1>3
  <2>5. QED
    BY <1>1, <1>2, <2>1, <2>2, <2>3, <2>4, EntryProgrammed
<1>7. QED
  BY <1>3, <1>5, <1>6

LEMMA LinkOutcome ==
  ASSUME IInv, pc = "link", NEW n \in {end + 1, Far}
  PROVE  /\ lastRec \in 1 .. end /\ Good([log EXCEPT ![lastRec].next = n])
         /\ Programmed(log, [log EXCEPT ![lastRec].next = n], lastRec)
         /\ \E r \in Record :
              /\ [log EXCEPT ![lastRec].next = n][lastRec] = r /\ r.next = n
              /\ r.size = log[lastRec].size /\ r.signed = log[lastRec].signed
              /\ r.valid = log[lastRec].valid /\ r.dataOnly = log[lastRec].dataOnly
              /\ r.name = log[lastRec].name /\ r.guid = log[lastRec].guid
              /\ r.val = log[lastRec].val
<1>1. /\ Good(log) /\ log \in Logs /\ Forward(log) /\ Len(log) = end + 1 /\ end \in Nat
      /\ rec \in 1 .. Len(log) /\ rec <= end /\ Len(log) <= Area
  BY LogSites DEF IInv, TypeOK, Phase, Good
<1>2. lastRec \in 1 .. Len(log) /\ lastRec <= end
  BY <1>1, ChainStays DEF lastRec
<1>3. n \in 0 .. Far /\ n > end
  BY <1>1, LogAssumption DEF Far
<1>4. log[lastRec] \in Record /\ log \in Seq(Record)
  BY <1>1, <1>2, LogSites DEF Logs
<1> DEFINE r == [log[lastRec] EXCEPT !.next = n]
<1>5. /\ r \in Record /\ r.next = n /\ r.dataOnly = log[lastRec].dataOnly
      /\ r.name = log[lastRec].name /\ r.signed = log[lastRec].signed
      /\ r.size = log[lastRec].size /\ r.valid = log[lastRec].valid
      /\ r.guid = log[lastRec].guid /\ r.val = log[lastRec].val
  BY <1>3, <1>4 DEF Record
<1>6. Entered(log, [log EXCEPT ![lastRec].next = n], lastRec, r)
  BY <1>2, <1>4 DEF Entered
<1>7. log[lastRec].signed => log[lastRec].dataOnly \/ log[lastRec].name # Absent
  BY <1>1, <1>2 DEF Good
<1>8. r.next > lastRec /\ lastRec \in 1 .. end
  BY <1>1, <1>2, <1>3, <1>5
<1> HIDE DEF r
<1>9. PICK m : m = [log EXCEPT ![lastRec].next = n]
  OBVIOUS
<1>10. Good(m) /\ Programmed(log, m, lastRec) /\ m[lastRec] = r
  <2>1. Entered(log, m, lastRec, r)
    BY <1>6, <1>9
  <2>2. r.signed => r.dataOnly \/ r.name # Absent
    BY <1>5, <1>7
  <2>3. r \in Record /\ r.dataOnly = log[lastRec].dataOnly
    BY <1>5
  <2>4. QED
    BY <1>1, <1>2, <1>8, <2>1, <2>2, <2>3, EntryProgrammed
<1>11. QED
  BY <1>5, <1>8, <1>9, <1>10

LEMMA InvalidOutcome ==
  ASSUME IInv, pc = "delete"
  PROVE  /\ rec \in 1 .. Len(log) /\ Good(Invalid(log)) /\ Programmed(log, Invalid(log), rec)
         /\ \E r \in Record :
              /\ Invalid(log)[rec] = r /\ ~r.valid /\ r.size = log[rec].size
              /\ r.signed = log[rec].signed /\ r.dataOnly = log[rec].dataOnly
              /\ r.val = log[rec].val /\ r.next = log[rec].next
<1>1. /\ Good(log) /\ log \in Seq(Record) /\ rec \in 1 .. Len(log) /\ log[rec] \in Record
      /\ log[rec].next = 0 \/ log[rec].next > rec
      /\ log[rec].signed => log[rec].dataOnly \/ log[rec].name # Absent
  BY LogSites DEF IInv, TypeOK, Phase, Good, Logs, Forward, Calls
<1> DEFINE r == [log[rec] EXCEPT !.valid = FALSE]
<1>2. /\ r \in Record /\ r.next = log[rec].next /\ r.dataOnly = log[rec].dataOnly
      /\ r.name = log[rec].name /\ r.signed = log[rec].signed /\ ~r.valid
      /\ r.size = log[rec].size /\ r.val = log[rec].val
  BY <1>1 DEF Record
<1>3. Entered(log, Invalid(log), rec, r)
  BY <1>1 DEF Invalid, Entered
<1> HIDE DEF r
<1>4. QED
  BY <1>1, <1>2, <1>3, EntryProgrammed

Tables == [Cells -> Guids \cup {Blank, Torn}]

LEMMA TableOutcome ==
  ASSUME IInv, pc = "guid"
  PROVE  /\ nextGuid \in Cells /\ GuidEntry(guids) \in Tables
         /\ [guids EXCEPT ![nextGuid] = Torn] \in Tables
<1>1. /\ op.var \in Var /\ guids \in Tables /\ nextGuid \in Nat /\ end \in Nat
      /\ end + nextGuid + 3 <= Area
  BY DEF IInv, TypeOK, Phase, Calls, Tables
<1>2. op.var.guid \in Guids /\ nextGuid \in Cells
  BY <1>1, LogAssumption DEF Guids, Cells
<1>3. QED
  BY <1>1, <1>2 DEF GuidEntry, Tables

LEMMA Outcomes ==
  ASSUME IInv, pc \notin {"off", "recover"}, NEW p \in Partial
  PROVE  /\ Good(p[1]) /\ p[2] \in Tables
         /\ Len(p[1]) = Len(log) \/ (pc = "header" /\ Len(p[1]) = Len(log) + 1)
<1>1. /\ Good(log) /\ guids \in Tables
      /\ pc \in {"idle", "header", "guid", "body", "sign", "link", "delete"}
  BY DEF IInv, TypeOK, Tables
<1>2. CASE pc = "header"
  <2>1. p \in {<<log, guids>>, <<Header(log), guids>>,
               <<Append(log, [Torso(rec # 0) EXCEPT !.size = "bad"]), guids>>}
    BY <1>2 DEF Partial
  <2>2. Good(Header(log)) /\ Len(Header(log)) = Len(log) + 1
    <3>1. Header(log) = Append(log, [Torso(rec # 0) EXCEPT !.size = "ok"])
      BY TorsoType DEF Header
    <3>2. QED
      BY <1>2, <3>1, HeaderOutcome
  <2>3. PICK b : b = Append(log, [Torso(rec # 0) EXCEPT !.size = "bad"])
                 /\ Good(b) /\ Len(b) = Len(log) + 1
    BY <1>2, HeaderOutcome
  <2>4. p \in {<<log, guids>>, <<Header(log), guids>>, <<b, guids>>}
    BY <2>1, <2>3
  <2>5. p[2] = guids /\ p[1] \in {log, Header(log), b}
    BY <2>4
  <2>6. QED
    BY <1>1, <1>2, <2>2, <2>3, <2>5
<1>3. CASE pc = "guid"
  <2>1. p \in {<<log, guids>>, <<log, [guids EXCEPT ![nextGuid] = Torn]>>, <<log, GuidEntry(guids)>>}
    BY <1>3 DEF Partial
  <2>2. PICK t \in Tables : t = [guids EXCEPT ![nextGuid] = Torn]
    BY <1>3, TableOutcome
  <2>3. p \in {<<log, guids>>, <<log, t>>, <<log, GuidEntry(guids)>>}
    BY <2>1, <2>2
  <2>4. QED
    BY <1>1, <1>3, <2>3, TableOutcome
<1>4. CASE pc = "body"
  <2>1. p \in {<<log, guids>>, <<Body(log), guids>>}
    BY <1>4 DEF Partial
  <2>2. QED
    BY <1>1, <1>4, <2>1, BodyOutcome DEF Programmed
<1>5. CASE pc = "sign"
  <2>1. p \in {<<log, guids>>, <<Signature(log), guids>>}
    BY <1>5 DEF Partial
  <2>2. QED
    BY <1>1, <1>5, <2>1, SignatureOutcome DEF Programmed
<1>6. CASE pc = "link"
  <2>1. PICK n \in {end + 1, Far} :
          p \in {<<log, guids>>, <<[log EXCEPT ![lastRec].next = n], guids>>}
    BY <1>6 DEF Partial, Link, new
  <2>2. PICK m : m = [log EXCEPT ![lastRec].next = n] /\ Good(m) /\ Programmed(log, m, lastRec)
    BY <1>6, LinkOutcome
  <2>3. p \in {<<log, guids>>, <<m, guids>>}
    BY <2>1, <2>2
  <2>4. p[2] = guids /\ p[1] \in {log, m} /\ Len(m) = Len(log)
    BY <2>2, <2>3 DEF Programmed
  <2>5. QED
    BY <1>1, <1>6, <2>2, <2>4
<1>7. CASE pc = "delete"
  <2>1. p \in {<<log, guids>>, <<Invalid(log), guids>>}
    BY <1>7 DEF Partial
  <2>2. QED
    BY <1>1, <1>7, <2>1, InvalidOutcome DEF Programmed
<1>8. CASE pc = "idle"
  <2>1. p \in {<<log, guids>>}
    BY <1>8 DEF Partial
  <2>2. QED
    BY <1>1, <1>8, <2>1
<1>9. QED
  BY <1>1, <1>2, <1>3, <1>4, <1>5, <1>6, <1>7, <1>8

LEMMA Observed ==
  ASSUME Good(log'), Observe
  PROVE  store' \in [Var -> Val \cup {Absent}]
<1>1. PICK l, g : l = log' /\ g = guids' /\ store' = Contents(l, g)
  BY DEF Observe
<1>2. Good(l)
  BY <1>1
<1>3. QED
  BY <1>1, <1>2, ContentsType DEF Good

---------------------------------------------------------------------------
\* Each action keeps the invariant.

LEMMA BootInv ==
  ASSUME IInv, Boot
  PROVE  IInv'
<1>1. Good(log) /\ log' = log /\ guids' = guids /\ rec' = rec /\ op' = op /\ pc' = "idle"
  BY DEF IInv, Boot
<1>2. /\ first' = Enumerate(log).first /\ end' = Enumerate(log).end
      /\ nextGuid' = Enumerate(log).nextGuid /\ last' = Enumerate(log).last
      /\ index' = IndexOf(log, guids, Enumerate(log).first, Enumerate(log).end)
  BY DEF Boot
<1>3. /\ Enumerate(log).first \in 1 .. Area /\ Enumerate(log).end \in 0 .. Len(log)
      /\ Enumerate(log).nextGuid \in 0 .. Area /\ Enumerate(log).last \in 0 .. 2
  BY <1>1, EnumerateSites DEF Good
<1>4. Len(log) \in Nat /\ Area \in Nat /\ Len(log) <= Area
  BY <1>1, LogSites, LogAssumption DEF Good
<1>5. Enumerate(log).first \in Nat /\ Enumerate(log).end \in Nat
  BY <1>3, <1>4
<1>6. index' \in [Var -> 0 .. Len(log)]
  BY <1>1, <1>2, <1>5, IndexType DEF Good
<1>7. index' \in [Var -> 0 .. Area]
  <2>1. 0 .. Len(log) \in SUBSET (0 .. Area)
    BY <1>4
  <2>2. QED
    BY <1>6, <2>1
<1>8. Good(log)'
  BY <1>1
<1>9. TypeOK'
  <2>1. end' \in 0 .. Area
    BY <1>2, <1>3, <1>4
  <2>2. first' \in 1 .. Area /\ nextGuid' \in 0 .. Area /\ last' \in 0 .. 2
    BY <1>2, <1>3
  <2>3. UNCHANGED <<log, guids, op, rec, result, faults, store>> /\ indexOn' = TRUE
    BY DEF Boot
  <2>4. TypeOK
    BY DEF IInv
  <2>5. QED
    BY <1>1, <1>7, <2>1, <2>2, <2>3, <2>4 DEF TypeOK
<1>10. Phase'
  BY <1>1, <1>2, <1>3, <1>4 DEF Phase, Calls
<1>11. QED
  BY <1>8, <1>9, <1>10 DEF IInv

LEMMA ExitInv ==
  ASSUME IInv, ExitBootServices
  PROVE  IInv'
<1>1. TypeOK'
  <2>1. UNCHANGED <<log, guids, first, end, nextGuid, last, pc, op, rec, result, faults, store>>
        /\ indexOn' = FALSE /\ index' = [v \in Var |-> 0]
    BY DEF ExitBootServices, info
  <2>2. index' \in [Var -> 0 .. Area]
    BY <2>1, LogAssumption
  <2>3. TypeOK
    BY DEF IInv
  <2>4. QED
    BY <2>1, <2>2, <2>3 DEF TypeOK
<1>2. Phase'
  <2>1. UNCHANGED <<log, guids, end, nextGuid, pc, op, rec>> /\ pc = "idle"
    BY DEF ExitBootServices, info
  <2>2. end <= Len(log)
    BY <2>1 DEF IInv, Phase
  <2>3. QED
    BY <2>1, <2>2 DEF Phase, Calls
<1>3. Good(log)'
  BY DEF IInv, ExitBootServices
<1>4. QED
  BY <1>1, <1>2, <1>3 DEF IInv

LEMMA RecordFound ==
  ASSUME IInv, NEW v \in Var
  PROVE  FindRecord(v) \in 0 .. Len(log)
<1>1. log \in Logs /\ first \in Nat /\ end \in Nat /\ Len(log) \in Nat
  BY LogSites DEF IInv, TypeOK, Logs
<1>2. NvFindVariable(log, guids, Walk(log, first, end), v) \in 0 .. Len(log)
  BY <1>1, WalkSites, FoundSite
<1>3. NvIsVariable(log, index[v], end) => index[v] \in 0 .. Len(log)
  BY <1>1 DEF NvIsVariable
<1>4. QED
  BY <1>1, <1>2, <1>3 DEF FindRecord

LEMMA OpType ==
  ASSUME NEW v \in Var, NEW d \in Val \cup {Absent}
  PROVE  /\ [var |-> v, val |-> d] \in [var : Var \cup {Absent}, val : Val \cup {Absent}]
         /\ [var |-> v, val |-> d].var = v /\ [var |-> v, val |-> d].val = d
         /\ NoOp \in [var : Var \cup {Absent}, val : Val \cup {Absent}]
         /\ [var |-> v, val |-> d] # NoOp
<1>1. v # Absent
  BY LogAssumption
<1>2. [var |-> v, val |-> d].var = v /\ NoOp.var = Absent
  BY DEF NoOp
<1>3. QED
  BY <1>1, <1>2 DEF NoOp

LEMMA SetVariableInv ==
  ASSUME IInv, NEW v \in Var, NEW d \in Val \cup {Absent}, SetVariable(v, d)
  PROVE  IInv'
<1> DEFINE r == FindRecord(v)
           request == [var |-> v, val |-> d]
<1>1. UNCHANGED <<log, guids, first, end, nextGuid, last, index, indexOn, faults, store>> /\ pc = "idle"
  BY DEF SetVariable, info
<1>2. r \in 0 .. Len(log) /\ end \in Nat /\ Len(log) \in Nat /\ nextGuid \in Nat /\ Area \in Nat
      /\ end <= Len(log) /\ Len(log) <= Area
  BY <1>1, RecordFound, LogSites, LogAssumption DEF IInv, TypeOK, Phase, Good, Logs
<1>3. \/ \E q \in {"error", "success"} : Finish(q)
      \/ /\ op' = request /\ rec' = r /\ result' = "none"
         /\ \/ pc' = "delete" /\ r # 0
            \/ pc' = "recover" /\ d # Absent
            \/ pc' = "header" /\ d # Absent /\ IsStoreOk /\ \E size \in {1, 2} : IsEnoughSpace(size)
  BY DEF SetVariable
<1> HIDE DEF r
<1>4. /\ request \in [var : Var \cup {Absent}, val : Val \cup {Absent}] /\ request.var = v /\ request.val = d
      /\ NoOp \in [var : Var \cup {Absent}, val : Val \cup {Absent}]
  BY OpType
<1> HIDE DEF request
<1>5. /\ op' \in [var : Var \cup {Absent}, val : Val \cup {Absent}]
      /\ rec' \in 0 .. Area /\ result' \in {"none", "success", "error"}
      /\ pc' \in {"idle", "delete", "recover", "header"}
  BY <1>2, <1>3, <1>4 DEF Finish
<1>6. TypeOK'
  BY <1>1, <1>5 DEF IInv, TypeOK
<1>7. Phase'
  <2>1. CASE \E q \in {"error", "success"} : Finish(q)
    BY <1>1, <1>2, <2>1 DEF Finish, Phase, Calls
  <2>2. CASE op' = request /\ rec' = r /\ pc' = "delete" /\ r # 0
    BY <1>1, <1>2, <1>4, <2>2 DEF Phase, Calls
  <2>3. CASE op' = request /\ rec' = r /\ pc' = "recover" /\ d # Absent
    BY <1>1, <1>2, <1>4, <2>3 DEF Phase, Calls
  <2>4. CASE op' = request /\ rec' = r /\ pc' = "header" /\ d # Absent
             /\ IsStoreOk /\ \E size \in {1, 2} : IsEnoughSpace(size)
    <3>1. Len(log) <= end /\ guids[nextGuid] = Blank
      BY <2>4 DEF IsStoreOk
    <3>2. end + nextGuid + 3 <= Area
      BY <1>2, <2>4 DEF IsEnoughSpace
    <3>3. d \in Val
      BY <2>4
    <3>4. Len(log) = end /\ r <= end
      BY <1>2, <3>1
    <3>5. QED
      BY <1>1, <1>2, <1>4, <2>4, <3>1, <3>2, <3>3, <3>4 DEF Phase, Calls
  <2>5. QED
    BY <1>3, <2>1, <2>2, <2>3, <2>4
<1>8. Good(log)'
  BY <1>1 DEF IInv
<1>9. QED
  BY <1>6, <1>7, <1>8 DEF IInv

LEMMA ProgramHeaderInv ==
  ASSUME IInv, ProgramHeader
  PROVE  IInv'
<1>1. /\ pc = "header" /\ log' = Header(log) /\ Observe
      /\ UNCHANGED <<guids, first, end, nextGuid, last, index, indexOn, op, rec, result, faults>>
      /\ pc' = IF rec = 0 /\ GuidCell(op.var) = nextGuid THEN "guid" ELSE "body"
  BY DEF ProgramHeader, info
<1>2. PICK h : /\ h = Header(log) /\ Good(h) /\ Len(h) = Len(log) + 1
               /\ h[Len(log) + 1].dataOnly = (rec # 0) /\ ~h[Len(log) + 1].signed
  <2>1. Header(log) = Append(log, [Torso(rec # 0) EXCEPT !.size = "ok"])
    BY TorsoType DEF Header
  <2>2. Good(Header(log)) /\ Len(Header(log)) = Len(log) + 1
        /\ Header(log)[Len(log) + 1] = [Torso(rec # 0) EXCEPT !.size = "ok"]
    BY <1>1, <2>1, HeaderOutcome
  <2>3. (rec # 0) \in BOOLEAN
    OBVIOUS
  <2>4. [Torso(rec # 0) EXCEPT !.size = "ok"].dataOnly = (rec # 0)
        /\ ~[Torso(rec # 0) EXCEPT !.size = "ok"].signed
    BY <2>3, TorsoType
  <2>5. Header(log)[Len(log) + 1].dataOnly = (rec # 0) /\ ~Header(log)[Len(log) + 1].signed
    BY <2>2, <2>4
  <2> HIDE DEF Good
  <2>6. QED
    BY <2>2, <2>5
<1>3. Good(log') /\ log' \in Seq(Record) /\ Len(log') <= Area
  BY <1>1, <1>2 DEF Good, Logs
<1>4. store' \in [Var -> Val \cup {Absent}]
  BY <1>1, <1>3, Observed
<1>5. TypeOK'
  BY <1>1, <1>3, <1>4 DEF IInv, TypeOK
<1>6. Phase'
  <2>1. /\ Len(log) = end /\ end \in Nat /\ nextGuid \in Nat /\ rec \in Nat /\ rec <= Len(log)
        /\ op.var \in Var /\ op.val \in Val
        /\ guids[nextGuid] = Blank /\ end + nextGuid + 3 <= Area /\ rec <= end
    BY <1>1 DEF IInv, TypeOK, Phase, Calls
  <2>2. Len(log') = end + 1 /\ log'[end + 1].dataOnly = (rec # 0) /\ ~log'[end + 1].signed
    BY <1>1, <1>2, <2>1
  <2>3. GuidCell(op.var) = nextGuid \/ (GuidCell(op.var) < nextGuid
                                        /\ guids[GuidCell(op.var)] = op.var.guid)
    BY <2>1, CellFound
  <2>4. op.var.guid # Blank
    BY <2>1, LogAssumption
  <2>5. GuidCell(op.var)' = GuidCell(op.var)
    BY <1>1 DEF GuidCell
  <2>6. pc' = "body" /\ rec = 0 => GuidCell(op.var) < nextGuid /\ guids[GuidCell(op.var)] # Blank
    BY <1>1, <2>3, <2>4
  <2>7. pc' = "guid" => rec = 0
    BY <1>1
  <2>8. pc' \in {"guid", "body"}
    BY <1>1
  <2>9. QED
    BY <1>1, <2>1, <2>2, <2>5, <2>6, <2>7, <2>8 DEF Phase, Calls
<1>7. QED
  BY <1>1, <1>2, <1>5, <1>6 DEF IInv

LEMMA ProgramGuidInv ==
  ASSUME IInv, ProgramGuid
  PROVE  IInv'
<1>1. /\ pc = "guid" /\ guids' = GuidEntry(guids) /\ nextGuid' = nextGuid + 1 /\ pc' = "body" /\ Observe
      /\ UNCHANGED <<log, first, end, last, index, indexOn, op, rec, result, faults>>
  BY DEF ProgramGuid
<1>2. /\ nextGuid \in Cells /\ nextGuid \in Nat /\ GuidEntry(guids) \in Tables /\ guids \in Tables
      /\ end \in Nat /\ nextGuid + 1 <= Area /\ op.var \in Var /\ op.var.guid \in Guids
  <2>1. nextGuid \in Cells /\ GuidEntry(guids) \in Tables
    BY <1>1, TableOutcome
  <2>2. /\ nextGuid \in Nat /\ guids \in Tables /\ end \in Nat /\ op.var \in Var
        /\ end + nextGuid + 3 <= Area
    BY <1>1 DEF IInv, TypeOK, Phase, Calls, Tables
  <2>3. QED
    BY <2>1, <2>2, LogAssumption DEF Guids
<1>3. Good(log')
  BY <1>1 DEF IInv
<1>4. store' \in [Var -> Val \cup {Absent}]
  BY <1>1, <1>3, Observed
<1>5. TypeOK'
  <2>1. nextGuid' \in 0 .. Area /\ guids' \in [Cells -> Guids \cup {Blank, Torn}]
    BY <1>1, <1>2, LogAssumption DEF Tables
  <2>2. TypeOK
    BY DEF IInv
  <2>3. QED
    BY <1>1, <1>4, <2>1, <2>2 DEF TypeOK
<1>6. GuidCell(op.var)' < nextGuid' /\ guids'[GuidCell(op.var)'] # Blank
  <2> DEFINE known == {c \in 0 .. nextGuid' - 1 : guids'[c] = op'.var.guid}
  <2>1. guids'[nextGuid] = op.var.guid /\ op.var.guid # Blank
    BY <1>1, <1>2, LogAssumption DEF GuidEntry, Tables
  <2>2. nextGuid \in known
    BY <1>1, <1>2, <2>1
  <2>3. known \in SUBSET Nat
    BY <1>1, <1>2
  <2>4. Min(known) \in known
    BY <2>2, <2>3, MinIsLeast
  <2>5. GuidCell(op.var)' = Min(known)
    BY <2>2 DEF GuidCell
  <2>6. QED
    BY <1>1, <1>2, <2>1, <2>4, <2>5
<1>7. Phase'
  <2>1. /\ rec = 0 /\ Len(log) = end + 1 /\ op.val \in Val /\ rec <= Len(log) /\ rec <= end
        /\ log[end + 1].dataOnly = (rec # 0) /\ ~log[end + 1].signed /\ end <= Len(log)
    BY <1>1 DEF IInv, Phase, Calls
  <2>2. QED
    BY <1>1, <1>2, <1>6, <2>1 DEF Phase, Calls
<1>8. QED
  BY <1>3, <1>5, <1>7 DEF IInv

LEMMA ProgramBodyInv ==
  ASSUME IInv, ProgramBody
  PROVE  IInv'
<1>1. /\ pc = "body" /\ log' = Body(log) /\ pc' = "sign" /\ Observe
      /\ UNCHANGED <<guids, first, end, nextGuid, last, index, indexOn, op, rec, result, faults>>
  BY DEF ProgramBody, info
<1>2. /\ Good(log') /\ log' \in Logs /\ Len(log') = Len(log)
      /\ log'[end + 1].dataOnly = (rec # 0) /\ ~log'[end + 1].signed
      /\ rec = 0 => log'[end + 1].name # Absent
  BY <1>1, BodyOutcome DEF Programmed
<1>3. store' \in [Var -> Val \cup {Absent}]
  BY <1>1, <1>2, Observed
<1>4. TypeOK'
  BY <1>1, <1>2, <1>3 DEF IInv, TypeOK, Logs
<1>5. Phase'
  BY <1>1, <1>2 DEF IInv, Phase, Calls
<1>6. QED
  BY <1>2, <1>4, <1>5 DEF IInv

\* A record is complete.
LEMMA CompleteType ==
  ASSUME IInv, Complete, pc \in {"sign", "link"}
  PROVE  /\ end' = end + 1 /\ end' \in 0 .. Area /\ last' = 1 /\ index' \in [Var -> 0 .. Area]
         /\ pc' = "idle" /\ op' = NoOp /\ rec' = 0 /\ result' = "success"
<1>1. Len(log) = end + 1 /\ Len(log) <= Area /\ end \in Nat /\ Area \in Nat
  BY LogAssumption DEF IInv, TypeOK, Phase
<1>2. end + 1 \in 0 .. Area /\ index \in [Var -> 0 .. Area]
  BY <1>1 DEF IInv, TypeOK
<1>3. QED
  BY <1>1, <1>2 DEF Complete, Finish, new

LEMMA ProgramSignatureInv ==
  ASSUME IInv, ProgramSignature
  PROVE  IInv'
<1>1. /\ pc = "sign" /\ log' = Signature(log) /\ Observe
      /\ UNCHANGED <<guids, first, nextGuid, indexOn, faults>>
      /\ \/ rec = 0 /\ Complete
         \/ rec # 0 /\ pc' = "link" /\ UNCHANGED <<end, last, index, op, rec, result>>
  BY DEF ProgramSignature
<1>2. /\ Good(log') /\ log' \in Seq(Record) /\ Len(log') = Len(log)
      /\ Len(log) = end + 1 /\ end \in Nat /\ Len(log) \in Nat
  BY <1>1, SignatureOutcome, NewSite DEF Programmed, Logs
<1>3. store' \in [Var -> Val \cup {Absent}]
  BY <1>1, <1>2, Observed
<1>4. Len(log') <= Area
  BY <1>2 DEF Good
<1>5. CASE rec = 0 /\ Complete
  <2>1. /\ end' = end + 1 /\ end' \in 0 .. Area /\ last' = 1 /\ index' \in [Var -> 0 .. Area]
        /\ pc' = "idle" /\ op' = NoOp /\ rec' = 0 /\ result' = "success"
    BY <1>1, <1>5, CompleteType
  <2>2. TypeOK'
    BY <1>1, <1>2, <1>3, <1>4, <2>1, LogAssumption DEF IInv, TypeOK, NoOp
  <2>3. Phase'
    BY <1>1, <1>2, <2>1 DEF Phase, Calls
  <2>4. QED
    BY <1>2, <2>2, <2>3 DEF IInv
<1>6. CASE rec # 0 /\ pc' = "link" /\ UNCHANGED <<end, last, index, op, rec, result>>
  <2>1. TypeOK'
    BY <1>1, <1>2, <1>3, <1>4, <1>6 DEF IInv, TypeOK
  <2>2. Phase'
    BY <1>1, <1>2, <1>6 DEF IInv, Phase, Calls
  <2>3. QED
    BY <1>2, <2>1, <2>2 DEF IInv
<1>7. QED
  BY <1>1, <1>5, <1>6

LEMMA ProgramLinkInv ==
  ASSUME IInv, ProgramLink
  PROVE  IInv'
<1>1. /\ pc = "link" /\ log' = [log EXCEPT ![lastRec].next = end + 1] /\ Observe /\ Complete
      /\ UNCHANGED <<guids, first, nextGuid, indexOn, faults>>
  BY DEF ProgramLink, Link, new
<1>2. /\ Good(log') /\ log' \in Seq(Record) /\ Len(log') = Len(log)
      /\ Len(log) = end + 1 /\ end \in Nat /\ Len(log) \in Nat
  BY <1>1, LinkOutcome, NewSite DEF Programmed, Logs
<1>3. store' \in [Var -> Val \cup {Absent}]
  BY <1>1, <1>2, Observed
<1>4. /\ end' = end + 1 /\ end' \in 0 .. Area /\ last' = 1 /\ index' \in [Var -> 0 .. Area]
      /\ pc' = "idle" /\ op' = NoOp /\ rec' = 0 /\ result' = "success"
  BY <1>1, CompleteType
<1>5. Len(log') <= Area
  BY <1>2 DEF Good
<1>6. TypeOK'
  BY <1>1, <1>2, <1>3, <1>4, <1>5, LogAssumption DEF IInv, TypeOK, NoOp
<1>7. Phase'
  BY <1>1, <1>2, <1>4 DEF Phase, Calls
<1>8. QED
  BY <1>2, <1>6, <1>7 DEF IInv

LEMMA DeleteInv ==
  ASSUME IInv, Delete
  PROVE  IInv'
<1>1. /\ pc = "delete" /\ log' = Invalid(log) /\ Observe
      /\ pc' = "idle" /\ op' = NoOp /\ rec' = 0 /\ result' = "success"
      /\ index' = [index EXCEPT ![op.var] = 0]
      /\ UNCHANGED <<guids, first, end, nextGuid, last, indexOn, faults>>
  BY DEF Delete, Finish, info
<1>2. Good(log') /\ log' \in Seq(Record) /\ Len(log') = Len(log)
  BY <1>1, InvalidOutcome DEF Programmed, Logs
<1>3. store' \in [Var -> Val \cup {Absent}]
  BY <1>1, <1>2, Observed
<1>4. index' \in [Var -> 0 .. Area]
  <2>1. index \in [Var -> 0 .. Area] /\ 0 \in 0 .. Area
    BY LogAssumption DEF IInv, TypeOK
  <2>2. QED
    BY <1>1, <2>1
<1>5. Len(log') <= Area
  BY <1>2 DEF Good
<1>6. TypeOK'
  BY <1>1, <1>2, <1>3, <1>4, <1>5, LogAssumption DEF IInv, TypeOK, NoOp
<1>7. Phase'
  BY <1>1, <1>2 DEF IInv, Phase, Calls
<1>8. QED
  BY <1>2, <1>6, <1>7 DEF IInv

LEMMA WriteFailsInv ==
  ASSUME IInv, WriteFails
  PROVE  IInv'
<1>1. /\ pc \in {"header", "guid", "body", "sign", "link", "delete"} /\ Observe
      /\ faults < MaxFaults /\ faults' = faults + 1
      /\ nextGuid' = IF pc = "guid" THEN nextGuid + 1 ELSE nextGuid
      /\ IF pc = "delete" THEN UNCHANGED <<end, last>> ELSE RecoverFromFlashUpdateFailure(log')
      /\ \/ pc' = "idle" /\ op' = NoOp /\ rec' = 0 /\ result' = "error"
         \/ pc # "delete" /\ pc' = "recover" /\ UNCHANGED <<op, rec, result>>
      /\ UNCHANGED <<first, index, indexOn>>
  BY DEF WriteFails, Finish
<1>2. PICK p \in Partial : log' = p[1] /\ guids' = p[2]
  BY DEF WriteFails
<1>3. /\ Good(log') /\ guids' \in Tables
      /\ Len(log') = Len(log) \/ (pc = "header" /\ Len(log') = Len(log) + 1)
  BY <1>1, <1>2, Outcomes
<1>4. /\ log' \in Seq(Record) /\ Len(log') \in Nat /\ Len(log') <= Area /\ Area \in Nat
      /\ Len(log) \in Nat /\ end \in Nat /\ nextGuid \in 0 .. Area /\ rec \in Nat
  BY <1>3, LogSites, LogAssumption DEF IInv, TypeOK, Good, Logs
<1>5. store' \in [Var -> Val \cup {Absent}]
  BY <1>1, <1>3, Observed
<1>6. /\ end <= Len(log) /\ op.var \in Var /\ rec <= Len(log) /\ (pc # "delete" => op.val \in Val)
      /\ pc = "guid" => nextGuid + 1 <= Area
  BY <1>1, <1>4 DEF IInv, Phase, Calls
<1>7. end' \in 0 .. Area /\ end' <= Len(log') /\ last' \in 0 .. 2
  <2>1. CASE pc = "delete"
    BY <1>1, <1>3, <1>4, <1>6, <2>1 DEF IInv, TypeOK
  <2>2. CASE pc # "delete"
    <3>1. \/ UNCHANGED <<end, last>>
          \/ Len(log') > end /\ end' = end + 1 /\ last' = 0
          \/ UNCHANGED end /\ last' = 1
      BY <1>1, <2>2 DEF RecoverFromFlashUpdateFailure
    <3>2. QED
      BY <1>3, <1>4, <1>6, <3>1 DEF IInv, TypeOK
  <2>3. QED
    BY <2>1, <2>2
<1>8. nextGuid' \in 0 .. Area
  BY <1>1, <1>4, <1>6
<1>9. TypeOK'
  <2>1. op' \in [var : Var \cup {Absent}, val : Val \cup {Absent}] /\ rec' \in 0 .. Area
        /\ result' \in {"none", "success", "error"} /\ faults' \in 0 .. MaxFaults
    BY <1>1, LogAssumption DEF IInv, TypeOK, NoOp
  <2>2. first' \in 1 .. Area /\ index' \in [Var -> 0 .. Area] /\ indexOn' \in BOOLEAN
    BY <1>1 DEF IInv, TypeOK
  <2>3. pc' \in {"idle", "recover"} /\ guids' \in [Cells -> Guids \cup {Blank, Torn}]
    BY <1>1, <1>3 DEF Tables
  <2>4. QED
    <3>1. log' \in Seq(Record) /\ Len(log') <= Area
      BY <1>4
    <3>2. end' \in 0 .. Area /\ last' \in 0 .. 2
      BY <1>7
    <3>3. pc' \in {"off", "idle", "header", "guid", "body", "sign", "link", "delete", "recover"}
      BY <2>3
    <3>4. QED
      BY <1>5, <1>8, <2>1, <2>2, <2>3, <3>1, <3>2, <3>3 DEF TypeOK
<1>10. Phase'
  <2>1. CASE pc' = "idle"
    BY <1>7, <2>1 DEF Phase, Calls
  <2>2. CASE pc' = "recover"
    <3>1. op' = op /\ rec' = rec /\ op.val \in Val
      BY <1>1, <1>6, <2>2
    <3>2. rec <= Len(log')
      BY <1>3, <1>4, <1>6
    <3>3. QED
      BY <1>6, <1>7, <2>2, <3>1, <3>2 DEF Phase, Calls
  <2>3. QED
    BY <1>1, <2>1, <2>2
<1>11. QED
  BY <1>3, <1>9, <1>10 DEF IInv

LEMMA CrashInv ==
  ASSUME IInv, Crash
  PROVE  IInv'
<1>1. /\ pc \notin {"off", "recover"} /\ pc' = "off" /\ Observe
      /\ first' = 1 /\ end' = 0 /\ nextGuid' = 0 /\ last' = 0
      /\ index' = [v \in Var |-> 0] /\ indexOn' = FALSE
      /\ op' = NoOp /\ rec' = 0 /\ result' = "none" /\ UNCHANGED faults
  BY DEF Crash
<1>2. PICK p \in Partial : log' = p[1] /\ guids' = p[2]
  BY DEF Crash
<1>3. Good(log') /\ guids' \in Tables
  BY <1>1, <1>2, Outcomes
<1>4. store' \in [Var -> Val \cup {Absent}]
  BY <1>1, <1>3, Observed
<1>5. TypeOK'
  <2>1. /\ Area \in Nat /\ Area # 0 /\ index' \in [Var -> 0 .. Area]
    BY <1>1, LogAssumption
  <2>2. faults \in 0 .. MaxFaults
    BY DEF IInv, TypeOK
  <2>3. log' \in Seq(Record) /\ Len(log') <= Area /\ guids' \in [Cells -> Guids \cup {Blank, Torn}]
    BY <1>3 DEF Good, Logs, Tables
  <2>4. op' \in [var : Var \cup {Absent}, val : Val \cup {Absent}]
    BY <1>1 DEF NoOp
  <2>5. first' \in 1 .. Area /\ end' \in 0 .. Area /\ nextGuid' \in 0 .. Area /\ last' \in 0 .. 2
        /\ rec' \in 0 .. Area
    BY <1>1, <2>1
  <2>6. QED
    BY <1>1, <1>4, <2>1, <2>2, <2>3, <2>4, <2>5 DEF TypeOK
<1>6. Phase'
  BY <1>1 DEF Phase, Calls
<1>7. QED
  BY <1>3, <1>5, <1>6 DEF IInv

---------------------------------------------------------------------------
\* Error recovery writes an area anew.

\* Everything that is true of a listing of records, for proofs about a list.
LEMMA Listing ==
  ASSUME NEW n \in Nat, NEW S \in SUBSET (1 .. n)
  PROVE  /\ IsFiniteSet(S) /\ Cardinality(S) \in Nat /\ Len(InOrder(S)) = Cardinality(S)
         /\ \A k \in 1 .. Cardinality(S) : InOrder(S)[k] \in S
         /\ \A i \in S : \E k \in 1 .. Cardinality(S) : InOrder(S)[k] = i
         /\ \A k, l \in 1 .. Cardinality(S) : k < l => InOrder(S)[k] < InOrder(S)[l]
<1>1. IsFiniteSet(S) /\ S \in SUBSET Nat
  <2>1. IsFiniteSet(1 .. n)
    BY FS_Interval
  <2>2. IsFiniteSet(S)
    BY <2>1, FS_Subset
  <2>3. 1 .. n \in SUBSET Nat
    OBVIOUS
  <2>4. QED
    BY <2>2, <2>3
<1>2. /\ Cardinality(S) \in Nat /\ InOrder(S) \in [1 .. Cardinality(S) -> S]
      /\ \A i \in S : \E k \in 1 .. Cardinality(S) : InOrder(S)[k] = i
      /\ \A k, l \in 1 .. Cardinality(S) : k < l => InOrder(S)[k] < InOrder(S)[l]
  BY <1>1, InOrderIsEnumeration
<1>3. Len(InOrder(S)) = Cardinality(S)
  BY <1>2
<1>4. QED
  BY <1>1, <1>2, <1>3

LEMMA SurvivorsType ==
  ASSUME NEW kept \in SUBSET Var, IInv
  PROVE  Survivors(kept) \in Seq(Var)
<1> DEFINE found == IndexOf(log, guids, first, end)
           left == kept \ {op.var}
           S == {found[v] : v \in left} \ {0}
           copied == InOrder(S)
<1>1. log \in Logs /\ Len(log) \in Nat /\ first \in Nat /\ end \in Nat
  BY LogSites DEF IInv, TypeOK, Logs
<1>2. found \in [Var -> 0 .. Len(log)]
  BY <1>1, IndexType
<1> HIDE DEF found
<1>3. S \in SUBSET (1 .. Len(log))
  BY <1>1, <1>2
<1>4. Len(copied) \in Nat /\ \A k \in 1 .. Len(copied) : copied[k] \in S
  BY <1>1, <1>3, Listing
<1>5. Survivors(kept) = [k \in 1 .. Len(copied) |-> CHOOSE v \in left : found[v] = copied[k]]
  BY DEF Survivors, found
<1> HIDE DEF copied
<1>6. \A k \in 1 .. Len(copied) : (CHOOSE v \in left : found[v] = copied[k]) \in Var
  <2>1. TAKE k \in 1 .. Len(copied)
  <2>2. PICK v \in left : found[v] = copied[k]
    BY <1>4
  <2>3. (CHOOSE u \in left : found[u] = copied[k]) \in left
    BY <2>2
  <2>4. QED
    BY <2>3
<1>7. QED
  BY <1>4, <1>5, <1>6

\* The new table has each GUID of the variables once.
LEMMA GuidsListed ==
  ASSUME NEW seq \in Seq(Var)
  PROVE  /\ GuidsOf(seq) \in Seq(Guids)
         /\ Cardinality({seq[k].guid : k \in 1 .. Len(seq)}) \in Nat
         /\ Len(GuidsOf(seq)) <= Cardinality({seq[k].guid : k \in 1 .. Len(seq)})
         /\ \A k \in 1 .. Len(seq) : \E c \in 1 .. Len(GuidsOf(seq)) : GuidsOf(seq)[c] = seq[k].guid
<1> DEFINE n == Len(seq)
           S == {i \in 1 .. n : \A k \in 1 .. i - 1 : seq[k].guid # seq[i].guid}
           firsts == InOrder(S)
           t == GuidsOf(seq)
           T == {seq[k].guid : k \in 1 .. n}
<1>1. n \in Nat /\ \A k \in 1 .. n : seq[k].guid \in Guids
  BY DEF Guids
<1>2. /\ Len(firsts) = Cardinality(S) /\ Cardinality(S) \in Nat
      /\ \A k \in 1 .. Cardinality(S) : firsts[k] \in S
      /\ \A i \in S : \E k \in 1 .. Cardinality(S) : firsts[k] = i
      /\ \A k, l \in 1 .. Cardinality(S) : k < l => firsts[k] < firsts[l]
  <2>1. S \in SUBSET (1 .. n)
    OBVIOUS
  <2>2. QED
    BY <1>1, <2>1, Listing
<1>3. t = [c \in 1 .. Len(firsts) |-> seq[firsts[c]].guid]
  BY DEF GuidsOf
<1> HIDE DEF firsts, t
<1>4. t \in Seq(Guids) /\ Len(t) = Cardinality(S) /\ \A c \in 1 .. Len(t) : t[c] \in T
  <2>1. \A c \in 1 .. Len(firsts) : firsts[c] \in 1 .. n
    BY <1>2
  <2>2. \A c \in 1 .. Len(firsts) : seq[firsts[c]].guid \in Guids /\ seq[firsts[c]].guid \in T
    BY <1>1, <2>1
  <2> HIDE DEF S
  <2>3. Len(firsts) \in Nat
    BY <1>2
  <2>4. t \in Seq(Guids) /\ Len(t) = Len(firsts)
    BY <1>3, <2>2, <2>3
  <2>5. QED
    BY <1>2, <1>3, <2>2, <2>4
<1>5. ASSUME NEW k \in 1 .. n
      PROVE  \E c \in 1 .. Len(t) : t[c] = seq[k].guid
  <2> DEFINE Same == {i \in 1 .. n : seq[i].guid = seq[k].guid}
  <2>1. Same \in SUBSET Nat /\ k \in Same
    BY <1>1
  <2>2. Min(Same) \in Same /\ \A i \in Same : Min(Same) <= i
    BY <2>1, MinIsLeast
  <2>3. PICK i \in Same : \A j \in Same : i <= j
    BY <2>2
  <2>4. i \in S
    <3>1. \A j \in 1 .. i - 1 : j \in 1 .. n /\ ~(i <= j)
      BY <1>1, <2>3
    <3>2. QED
      BY <2>3, <3>1
  <2>5. PICK c \in 1 .. Cardinality(S) : firsts[c] = i
    BY <1>2, <2>4
  <2>6. QED
    BY <1>2, <1>3, <1>4, <2>3, <2>5
<1>6. IsFiniteSet(T) /\ Cardinality(T) \in Nat
  <2> DEFINE g == [k \in 1 .. n |-> seq[k].guid]
  <2>1. IsFiniteSet(1 .. n)
    BY <1>1, FS_Interval
  <2>2. g \in Surjection(1 .. n, T)
    BY DEF Surjection
  <2>3. IsFiniteSet(T)
    BY <2>1, <2>2, FS_Surjection
  <2>4. QED
    BY <2>3, FS_CardinalityType
<1>7. Len(t) <= Cardinality(T)
  <2>1. t \in [1 .. Len(t) -> T]
    BY <1>4
  <2>2. \A c, d \in 1 .. Len(t) : c < d => t[c] # t[d]
    <3>1. TAKE c, d \in 1 .. Len(t)
    <3>2. HAVE c < d
    <3>3. firsts[c] \in S /\ firsts[d] \in S /\ firsts[c] < firsts[d]
      BY <1>2, <1>4, <3>2
    <3>4. firsts[c] \in 1 .. firsts[d] - 1
      BY <1>1, <3>3
    <3>5. QED
      BY <1>2, <1>3, <1>4, <3>3, <3>4
  <2>3. \A c, d \in 1 .. Len(t) : t[c] = t[d] => c = d
    <3>1. Len(t) \in Nat
      BY <1>2, <1>4
    <3>2. TAKE c, d \in 1 .. Len(t)
    <3>3. c < d \/ d < c \/ c = d
      BY <3>1
    <3>4. QED
      BY <2>2, <3>3
  <2>4. t \in Injection(1 .. Len(t), T)
    BY <2>1, <2>3 DEF Injection, IsInjective
  <2>5. Cardinality(1 .. Len(t)) = Len(t)
    BY <1>2, <1>4, FS_Interval
  <2>6. QED
    BY <1>6, <2>4, <2>5, FS_Injection
<1>8. QED
  BY <1>4, <1>5, <1>6, <1>7 DEF t

\* What an area that has been written anew looks like.
Fresh(l, g, seq, t) ==
    /\ l \in Seq(Record) /\ Len(l) = Len(seq)
    /\ g = [c \in Cells |-> IF c < Len(t) THEN t[c + 1] ELSE Blank]
    /\ \A i \in 1 .. Len(seq) :
         /\ l[i].size = "ok" /\ l[i].signed /\ l[i].valid /\ ~l[i].dataOnly /\ l[i].next = 0
         /\ l[i].name = seq[i].name
         /\ l[i].guid + 1 \in 1 .. Len(t) /\ t[l[i].guid + 1] = seq[i].guid
         /\ l[i].val = IF seq[i] = op.var THEN op.val
                       ELSE Latest(IndexOf(log, guids, first, end)[seq[i]])

LEMMA FreshArea ==
  ASSUME IInv, pc = "recover", NEW seq \in Seq(Var), Fits(seq), UpdateVarstore(seq)
  PROVE  /\ Fresh(log', guids', seq, GuidsOf(seq))
         /\ Len(seq) + Len(GuidsOf(seq)) + 2 <= Area
         /\ Len(seq) \in Nat /\ Len(GuidsOf(seq)) \in Nat /\ GuidsOf(seq) \in Seq(Guids)
<1> DEFINE found == IndexOf(log, guids, first, end)
           t == GuidsOf(seq)
           Cell(v) == (CHOOSE c \in 1 .. Len(t) : t[c] = v.guid) - 1
           Value(v) == IF v = op.var THEN op.val ELSE Latest(found[v])
           Copy(v) == [Torso(FALSE) EXCEPT !.signed = TRUE, !.name = v.name, !.guid = Cell(v),
                                           !.val = Value(v)]
<1>1. /\ log \in Logs /\ Forward(log) /\ first \in Nat /\ end \in Nat /\ op.val \in Val
  BY DEF IInv, TypeOK, Good, Phase, Calls
<1>2. found \in [Var -> 0 .. Len(log)]
  BY <1>1, IndexType
<1> HIDE DEF found
<1>3. /\ t \in Seq(Guids) /\ Len(t) \in Nat /\ Len(seq) \in Nat
      /\ Len(seq) + Len(t) + 2 <= Area
      /\ \A k \in 1 .. Len(seq) : \E c \in 1 .. Len(t) : t[c] = seq[k].guid
  BY GuidsListed, LogAssumption DEF Fits
<1> HIDE DEF t
<1>4. \A k \in 1 .. Len(seq) : /\ Cell(seq[k]) \in Cells /\ Cell(seq[k]) + 1 \in 1 .. Len(t)
                               /\ t[Cell(seq[k]) + 1] = seq[k].guid
  <2>1. TAKE k \in 1 .. Len(seq)
  <2>2. PICK c \in 1 .. Len(t) : c = (CHOOSE d \in 1 .. Len(t) : t[d] = seq[k].guid) /\ t[c] = seq[k].guid
    BY <1>3
  <2>3. Cell(seq[k]) = c - 1 /\ c - 1 \in Cells
    BY <1>3, <2>2, LogAssumption DEF Cells
  <2>4. QED
    BY <1>3, <2>2, <2>3
<1>5. \A v \in Var : Value(v) \in Val \cup {Absent}
  BY <1>1, <1>2, ValueType DEF Latest
<1> HIDE DEF Cell, Value
<1>6. \A k \in 1 .. Len(seq) :
        /\ Copy(seq[k]) \in Record /\ Copy(seq[k]).size = "ok" /\ Copy(seq[k]).signed
        /\ Copy(seq[k]).valid /\ ~Copy(seq[k]).dataOnly /\ Copy(seq[k]).next = 0
        /\ Copy(seq[k]).name = seq[k].name /\ Copy(seq[k]).guid = Cell(seq[k])
        /\ Copy(seq[k]).val = Value(seq[k])
  <2>1. TAKE k \in 1 .. Len(seq)
  <2>2. PICK n \in Names, c \in Cells, w \in Val \cup {Absent} :
          n = seq[k].name /\ c = Cell(seq[k]) /\ w = Value(seq[k])
    BY <1>4, <1>5 DEF Names
  <2>3. PICK r \in Record : /\ r = Torso(FALSE) /\ r.size = "ok" /\ r.valid /\ ~r.dataOnly
                            /\ r.next = 0
    BY TorsoFields
  <2>4. PICK x : x = [r EXCEPT !.signed = TRUE, !.name = n, !.guid = c, !.val = w]
    OBVIOUS
  <2>5. /\ x \in Record /\ x.size = r.size /\ x.valid = r.valid /\ x.dataOnly = r.dataOnly
        /\ x.next = r.next /\ x.signed /\ x.name = n /\ x.guid = c /\ x.val = w
    BY <2>4 DEF Record
  <2>6. Copy(seq[k]) = x
    BY <2>2, <2>3, <2>4
  <2> HIDE DEF Copy
  <2>7. QED
    BY <2>2, <2>3, <2>5, <2>6
<1>7. log' = [i \in 1 .. Len(seq) |-> Copy(seq[i])]
      /\ guids' = [c \in Cells |-> IF c < Len(t) THEN t[c + 1] ELSE Blank]
  BY DEF UpdateVarstore, t, Cell, Value, found
<1> HIDE DEF Copy
<1>8. log' \in Seq(Record) /\ Len(log') = Len(seq) /\ \A i \in 1 .. Len(seq) : log'[i] = Copy(seq[i])
  BY <1>3, <1>6, <1>7
<1>9. Fresh(log', guids', seq, t)
  BY <1>4, <1>6, <1>7, <1>8 DEF Fresh, Value, found
<1>10. QED
  BY <1>3, <1>9 DEF t

LEMMA FreshGood ==
  ASSUME NEW seq \in Seq(Var), NEW t \in Seq(Guids), NEW l, NEW g, Fresh(l, g, seq, t),
         Len(seq) + Len(t) + 2 <= Area
  PROVE  /\ Good(l) /\ g \in Tables /\ Len(l) = Len(seq)
         /\ Len(seq) \in 0 .. Area /\ Len(t) \in 0 .. Area
<1>1. Len(seq) \in Nat /\ Len(t) \in Nat /\ Area \in Nat /\ \A c \in 1 .. Len(t) : t[c] \in Guids
  BY LogAssumption
<1>2. \A i \in 1 .. Len(seq) : seq[i].name # Absent
  BY LogAssumption
<1>3. Good(l)
  <2>1. l \in Logs /\ Len(l) <= Area /\ Forward(l)
    BY <1>1 DEF Fresh, Forward, Logs
  <2>2. \A i \in 1 .. Len(l) : l[i].name # Absent /\ ~l[i].dataOnly
    BY <1>2 DEF Fresh
  <2>3. Len(l) > 0 => 1 \in 1 .. Len(l)
    BY <1>1 DEF Fresh
  <2>4. QED
    BY <2>1, <2>2, <2>3 DEF Good
<1>4. g \in Tables
  BY <1>1 DEF Fresh, Tables, Cells
<1>5. QED
  BY <1>1, <1>3, <1>4 DEF Fresh

\* The two ways error recovery may end.
LEMMA Recovered ==
  ASSUME IInv, Recover
  PROVE  /\ pc = "recover" /\ Observe /\ UNCHANGED <<indexOn, faults>>
         /\ \/ Finish("error") /\ UNCHANGED <<log, guids, first, end, nextGuid, last, index>>
            \/ \E kept \in SUBSET Var :
                 /\ Append(Survivors(kept), op.var) \in Seq(Var)
                 /\ Fits(Append(Survivors(kept), op.var))
                 /\ UpdateVarstore(Append(Survivors(kept), op.var))
<1>1. pc = "recover" /\ Observe /\ UNCHANGED <<indexOn, faults>>
  BY DEF Recover
<1>2. op.var \in Var
  BY <1>1 DEF IInv, Phase, Calls
<1>3. \A kept \in SUBSET Var : Append(Survivors(kept), op.var) \in Seq(Var)
  BY <1>2, SurvivorsType
<1>4. Var \in SUBSET Var /\ Persistent \in SUBSET Var
  BY LogAssumption
<1>5. \/ Finish("error") /\ UNCHANGED <<log, guids, first, end, nextGuid, last, index>>
      \/ Fits(Append(Survivors(Var), op.var)) /\ UpdateVarstore(Append(Survivors(Var), op.var))
      \/ /\ Fits(Append(Survivors(Persistent), op.var))
         /\ UpdateVarstore(Append(Survivors(Persistent), op.var))
  BY DEF Recover, info
<1>6. QED
  BY <1>1, <1>3, <1>4, <1>5

LEMMA RecoverInv ==
  ASSUME IInv, Recover
  PROVE  IInv'
<1>1. /\ pc = "recover" /\ Observe /\ UNCHANGED <<indexOn, faults>>
  BY Recovered
<1>2. CASE Finish("error") /\ UNCHANGED <<log, guids, first, end, nextGuid, last, index>>
  <2>1. Good(log')
    BY <1>2 DEF IInv
  <2>2. store' \in [Var -> Val \cup {Absent}]
    BY <1>1, <2>1, Observed
  <2>3. rec' \in 0 .. Area /\ op' \in [var : Var \cup {Absent}, val : Val \cup {Absent}]
        /\ result' \in {"none", "success", "error"} /\ pc' = "idle"
    BY <1>2, LogAssumption DEF Finish, NoOp
  <2>4. TypeOK'
    BY <1>1, <1>2, <2>2, <2>3 DEF IInv, TypeOK
  <2>5. Phase'
    BY <1>1, <1>2, <2>3 DEF IInv, Phase, Calls
  <2>6. QED
    BY <2>1, <2>4, <2>5 DEF IInv
<1>3. ASSUME NEW seq \in Seq(Var), Fits(seq), UpdateVarstore(seq)
      PROVE  IInv'
  <2>1. /\ Good(log') /\ guids' \in Tables /\ Len(log') = Len(seq)
        /\ Len(seq) \in 0 .. Area /\ Len(GuidsOf(seq)) \in 0 .. Area
    BY <1>1, <1>3, FreshArea, FreshGood
  <2>2. /\ first' = 1 /\ end' = Len(seq) /\ nextGuid' = Len(GuidsOf(seq)) /\ last' = 1
        /\ index' = IF indexOn THEN IndexOf(log', guids', 1, Len(seq)) ELSE index
        /\ pc' = "idle" /\ op' = NoOp /\ rec' = 0 /\ result' = "success"
    BY <1>3 DEF UpdateVarstore, Finish
  <2>3. store' \in [Var -> Val \cup {Absent}]
    BY <1>1, <2>1, Observed
  <2>4. index' \in [Var -> 0 .. Area]
    <3>1. log' \in Logs /\ Len(log') \in 0 .. Area /\ Len(seq) \in Nat
      BY <2>1 DEF Good
    <3>2. IndexOf(log', guids', 1, Len(seq)) \in [Var -> 0 .. Len(log')]
      BY <3>1, IndexType
    <3>3. 0 .. Len(log') \in SUBSET (0 .. Area)
      BY <3>1, LogAssumption
    <3>4. index \in [Var -> 0 .. Area]
      BY DEF IInv, TypeOK
    <3>5. QED
      BY <2>2, <3>2, <3>3, <3>4
  <2>5. TypeOK'
    <3>1. log' \in Seq(Record) /\ Len(log') <= Area /\ guids' \in [Cells -> Guids \cup {Blank, Torn}]
      BY <2>1 DEF Good, Logs, Tables
    <3>2. first' \in 1 .. Area /\ rec' \in 0 .. Area /\ last' \in 0 .. 2
          /\ op' \in [var : Var \cup {Absent}, val : Val \cup {Absent}]
      BY <2>2, LogAssumption DEF NoOp
    <3>3. indexOn' \in BOOLEAN /\ faults' \in 0 .. MaxFaults
      BY <1>1 DEF IInv, TypeOK
    <3>4. QED
      BY <2>1, <2>2, <2>3, <2>4, <3>1, <3>2, <3>3 DEF TypeOK
  <2>6. Phase'
    BY <2>1, <2>2 DEF Phase, Calls
  <2>7. QED
    BY <2>1, <2>5, <2>6 DEF IInv
<1>4. QED
  BY <1>2, <1>3, Recovered

LEMMA InvInit == Init => IInv
<1>1. SUFFICES ASSUME Init
               PROVE  IInv
  OBVIOUS
<1>2. log = <<>> /\ pc = "off"
  BY <1>1 DEF Init
<1>3. Good(log) /\ log \in Seq(Record) /\ Len(log) = 0
  BY <1>2, LogAssumption DEF Good, Logs, Forward
<1>4. TypeOK
  <2>1. Area \in Nat /\ Area > 0 /\ MaxFaults \in Nat
    BY LogAssumption
  <2>2. /\ Len(log) <= Area /\ first \in 1 .. Area /\ end \in 0 .. Area /\ nextGuid \in 0 .. Area
        /\ last \in 0 .. 2 /\ rec \in 0 .. Area /\ faults \in 0 .. MaxFaults
    BY <1>1, <1>3, <2>1 DEF Init
  <2>3. guids \in [Cells -> Guids \cup {Blank, Torn}]
    BY <1>1 DEF Init
  <2>4. index \in [Var -> 0 .. Area]
    <3>1. 0 \in 0 .. Area
      BY <2>1
    <3>2. QED
      BY <1>1, <3>1 DEF Init
  <2>5. store \in [Var -> Val \cup {Absent}]
    BY <1>1 DEF Init
  <2>6. op \in [var : Var \cup {Absent}, val : Val \cup {Absent}]
    BY <1>1 DEF Init, NoOp
  <2>7. /\ indexOn \in BOOLEAN /\ result \in {"none", "success", "error"}
        /\ pc \in {"off", "idle", "header", "guid", "body", "sign", "link", "delete", "recover"}
    BY <1>1 DEF Init
  <2>8. QED
    BY <1>3, <2>2, <2>3, <2>4, <2>5, <2>6, <2>7 DEF TypeOK
<1>5. Phase
  BY <1>2 DEF Phase, Calls
<1>6. QED
  BY <1>3, <1>4, <1>5 DEF IInv

LEMMA InvStutters ==
  ASSUME IInv, UNCHANGED vars
  PROVE  IInv'
<1>1. UNCHANGED <<log, guids, first, end, nextGuid, last, index, indexOn, pc, op, rec, result,
                  faults, store>>
  BY DEF vars, info
<1>2. TypeOK'
  BY <1>1 DEF IInv, TypeOK
<1>3. Good(log')
  BY <1>1 DEF IInv
<1>4. GuidCell(op.var)' = GuidCell(op.var)
  BY <1>1 DEF GuidCell
<1>5. Phase'
  BY <1>1, <1>4 DEF IInv, Phase, Calls
<1>6. QED
  BY <1>2, <1>3, <1>5 DEF IInv

LEMMA InvStep ==
  ASSUME IInv, [Next]_vars
  PROVE  IInv'
<1>1. CASE Next
  BY <1>1, BootInv, ExitInv, SetVariableInv, ProgramHeaderInv, ProgramGuidInv,
     ProgramBodyInv, ProgramSignatureInv, ProgramLinkInv, DeleteInv, WriteFailsInv, RecoverInv,
     CrashInv DEF Next
<1>2. CASE UNCHANGED vars
  BY <1>2, InvStutters
<1>3. QED
  BY <1>1, <1>2

LEMMA InvCorrect == Spec => []IInv
BY InvInit, InvStep, PTL DEF Spec

\* Every variable keeps its type: every link, index entry and search of the code
\* stays inside the log, whatever an interrupted or failed operation left there.
THEOREM TypeCorrect == Spec => []TypeOK
<1>1. IInv => TypeOK
  BY DEF IInv
<1>2. QED
  BY <1>1, InvCorrect, PTL

\* A record or a GUID is programmed into erased cells only: CreateVariableEx
\* starts only when IsStoreOk has looked at them.
THEOREM BlankFlashProgrammed == Spec => []ProgramsBlankFlash
<1>1. IInv => ProgramsBlankFlash
  BY DEF IInv, TypeOK, Phase, ProgramsBlankFlash
<1>2. QED
  BY <1>1, InvCorrect, PTL

---------------------------------------------------------------------------
\* The records and the table of GUIDs keep apart.

\* The table has no gap, it ends above the records, and each name in a record
\* comes with a GUID that is in the table.
Table(l, g) ==
    /\ \A c, d \in Cells : c < d /\ g[d] # Blank => g[c] # Blank
    /\ \A c \in Cells : g[c] # Blank => Len(l) + c < Area
    /\ \A i \in 1 .. Len(l) : l[i].name # Absent => g[l[i].guid] # Blank

\* NextGuid is not beyond the first erased cell of the table.
NextCell == nextGuid > 0 => guids[nextGuid - 1] # Blank

TInv == IInv /\ Table(log, guids) /\ NextCell

\* The name of a record comes from the log, or is written once its GUID is there.
NameKept(r, s) == r.name # Absent => s.name # Absent /\ r.guid = s.guid
NamesKept(l, m) == \A i \in 1 .. Len(m) : m[i].name # Absent =>
                      i \in 1 .. Len(l) /\ NameKept(m[i], l[i])

LEMMA EntryNames ==
  ASSUME NEW l, Good(l), NEW i \in 1 .. Len(l), NEW r, NEW m, Entered(l, m, i, r),
         NameKept(r, l[i])
  PROVE  NamesKept(l, m)
<1>1. l \in Seq(Record) /\ Len(m) = Len(l) /\ \A k \in 1 .. Len(l) : m[k] = IF k = i THEN r ELSE l[k]
  BY DEF Good, Logs, Entered
<1>2. QED
  BY <1>1 DEF NamesKept, NameKept

LEMMA HeaderNames ==
  ASSUME IInv, pc = "header", NEW z \in {"ok", "bad"},
         NEW a, a = Append(log, [Torso(rec # 0) EXCEPT !.size = z])
  PROVE  NamesKept(log, a)
<1>1. PICK t \in Record : t = Torso(rec # 0) /\ t.name = Absent
  <2>1. PICK t \in Record : t = Torso(rec # 0)
    BY TorsoFields
  <2>2. t.name = Absent
    BY <2>1 DEF Torso
  <2>3. QED
    BY <2>1, <2>2
<1>2. [t EXCEPT !.size = z].name = Absent
  BY <1>1 DEF Record
<1>3. PICK b : b = [t EXCEPT !.size = z]
  OBVIOUS
<1>4. a = Append(log, b) /\ b.name = Absent
  BY <1>1, <1>2, <1>3
<1>5. log \in Seq(Record) /\ Len(log) \in Nat
  BY LogSites DEF IInv, Good, Logs
<1>6. /\ Len(a) = Len(log) + 1 /\ a[Len(log) + 1] = b
      /\ \A i \in 1 .. Len(log) : a[i] = log[i]
  BY <1>4, <1>5
<1>7. \A i \in 1 .. Len(a) : i \in 1 .. Len(log) \/ i = Len(log) + 1
  BY <1>5, <1>6
<1>8. QED
  BY <1>4, <1>6, <1>7 DEF NamesKept, NameKept

\* What a step may leave in flash names only records whose GUID is in the table.
Named(l, g) == \A i \in 1 .. Len(l) : l[i].name # Absent => g[l[i].guid] # Blank

LEMMA NamesStay ==
  ASSUME NEW l, NEW m, NEW g, NamesKept(l, m), Named(l, g)
  PROVE  Named(m, g)
BY DEF NamesKept, NameKept, Named

LEMMA BodyNamed ==
  ASSUME IInv, pc = "body", Named(log, guids)
  PROVE  Named(Body(log), guids)
<1>1. /\ end + 1 \in 1 .. Len(log) /\ log \in Seq(Record) /\ log[end + 1] \in Record
  BY NewSite
<1>2. Good(log)
  BY DEF IInv
<1>3. CASE rec = 0
  <2>1. Body(log)[end + 1].guid = GuidCell(op.var) /\ guids[GuidCell(op.var)] # Blank
    BY <1>3, BodyOutcome DEF IInv, Phase
  <2>2. Programmed(log, Body(log), end + 1)
    BY BodyOutcome
  <2>3. QED
    BY <2>1, <2>2 DEF Named, Programmed
<1>4. CASE rec # 0
  <2> DEFINE r == [log[end + 1] EXCEPT !.val = op.val]
  <2>1. NameKept(r, log[end + 1])
    BY <1>1 DEF Record, NameKept
  <2>2. Entered(log, Body(log), end + 1, r)
    BY <1>1, <1>4 DEF Body, new, Record, Entered
  <2> HIDE DEF r
  <2>3. NamesKept(log, Body(log))
    BY <1>1, <1>2, <2>1, <2>2, EntryNames
  <2>4. QED
    BY <2>3, NamesStay
<1>5. QED
  BY <1>3, <1>4

LEMMA LinkNamed ==
  ASSUME IInv, pc = "link", NEW n, NEW m, m = [log EXCEPT ![lastRec].next = n],
         lastRec \in 1 .. Len(log)
  PROVE  NamesKept(log, m)
<1>1. log \in Seq(Record) /\ log[lastRec] \in Record /\ Good(log)
  BY LogSites DEF IInv, Good, Logs
<1> DEFINE r == [log[lastRec] EXCEPT !.next = n]
<1>2. NameKept(r, log[lastRec])
  BY <1>1 DEF Record, NameKept
<1>3. Entered(log, m, lastRec, r)
  BY <1>1 DEF Entered
<1> HIDE DEF r
<1>4. QED
  BY <1>1, <1>2, <1>3, EntryNames

LEMMA SignatureNamed ==
  ASSUME IInv, pc = "sign"
  PROVE  NamesKept(log, Signature(log))
<1>1. /\ end + 1 \in 1 .. Len(log) /\ log \in Seq(Record) /\ log[end + 1] \in Record
  BY NewSite
<1>2. Good(log)
  BY DEF IInv
<1> DEFINE r == [log[end + 1] EXCEPT !.signed = TRUE]
<1>3. NameKept(r, log[end + 1])
  BY <1>1 DEF Record, NameKept
<1>4. Entered(log, Signature(log), end + 1, r)
  BY <1>1 DEF Signature, new, Entered
<1> HIDE DEF r
<1>5. QED
  BY <1>1, <1>2, <1>3, <1>4, EntryNames

LEMMA InvalidNamed ==
  ASSUME IInv, pc = "delete"
  PROVE  NamesKept(log, Invalid(log))
<1>1. rec \in 1 .. Len(log) /\ log \in Seq(Record) /\ Good(log) /\ log[rec] \in Record
  BY InvalidOutcome DEF IInv, Good, Logs
<1> DEFINE r == [log[rec] EXCEPT !.valid = FALSE]
<1>2. NameKept(r, log[rec])
  BY <1>1 DEF Record, NameKept
<1>3. Entered(log, Invalid(log), rec, r)
  BY <1>1 DEF Invalid, Entered
<1> HIDE DEF r
<1>4. QED
  BY <1>1, <1>2, <1>3, EntryNames

\* A step programs at most one cell of the table, the next one.
GuidAdded(g) == \E x \in Guids \cup {Torn} : g = [guids EXCEPT ![nextGuid] = x]

LEMMA OutcomeNamed ==
  ASSUME IInv, Named(log, guids), pc \notin {"off", "recover"}, NEW p \in Partial
  PROVE  /\ Named(p[1], guids)
         /\ p[2] = guids \/ (pc = "guid" /\ GuidAdded(p[2]))
<1>1. pc \in {"idle", "header", "guid", "body", "sign", "link", "delete"}
  BY DEF IInv, TypeOK
<1>2. CASE pc = "header"
  <2>1. PICK b : b = Append(log, [Torso(rec # 0) EXCEPT !.size = "bad"])
    OBVIOUS
  <2>2. PICK h : h = Append(log, [Torso(rec # 0) EXCEPT !.size = "ok"])
    OBVIOUS
  <2>3. Header(log) = h
    BY <2>2, TorsoType DEF Header
  <2>4. p \in {<<log, guids>>, <<h, guids>>, <<b, guids>>}
    BY <1>2, <2>1, <2>3 DEF Partial
  <2>5. NamesKept(log, h) /\ NamesKept(log, b)
    BY <1>2, <2>1, <2>2, HeaderNames
  <2>6. Named(h, guids) /\ Named(b, guids)
    BY <2>5, NamesStay
  <2>7. QED
    BY <2>4, <2>6
<1>3. CASE pc = "guid"
  <2>1. PICK t : t = [guids EXCEPT ![nextGuid] = Torn]
    OBVIOUS
  <2>2. p \in {<<log, guids>>, <<log, t>>, <<log, GuidEntry(guids)>>}
    BY <1>3, <2>1 DEF Partial
  <2>3. op.var.guid \in Guids
    BY <1>3 DEF IInv, Phase, Calls, Guids
  <2>4. GuidAdded(t) /\ GuidAdded(GuidEntry(guids))
    BY <2>1, <2>3 DEF GuidAdded, GuidEntry
  <2>5. QED
    BY <1>3, <2>2, <2>4
<1>4. CASE pc = "body"
  <2>1. p \in {<<log, guids>>, <<Body(log), guids>>}
    BY <1>4 DEF Partial
  <2>2. QED
    BY <1>4, <2>1, BodyNamed
<1>5. CASE pc = "sign"
  <2>1. p \in {<<log, guids>>, <<Signature(log), guids>>}
    BY <1>5 DEF Partial
  <2>2. QED
    BY <1>5, <2>1, SignatureNamed, NamesStay
<1>6. CASE pc = "link"
  <2>1. PICK n \in {end + 1, Far} :
          p \in {<<log, guids>>, <<[log EXCEPT ![lastRec].next = n], guids>>}
    BY <1>6 DEF Partial, Link, new
  <2>2. PICK m : m = [log EXCEPT ![lastRec].next = n]
    OBVIOUS
  <2>3. lastRec \in 1 .. Len(log)
    BY <1>6, LinkOutcome, NewSite
  <2>4. Named(m, guids)
    <3>1. NamesKept(log, m)
      BY <1>6, <2>2, <2>3, LinkNamed
    <3>2. QED
      BY <3>1, NamesStay
  <2>5. p \in {<<log, guids>>, <<m, guids>>}
    BY <2>1, <2>2
  <2>6. QED
    BY <2>4, <2>5
<1>7. CASE pc = "delete"
  <2>1. p \in {<<log, guids>>, <<Invalid(log), guids>>}
    BY <1>7 DEF Partial
  <2>2. QED
    BY <1>7, <2>1, InvalidNamed, NamesStay
<1>8. CASE pc = "idle"
  <2>1. p \in {<<log, guids>>}
    BY <1>8 DEF Partial
  <2>2. QED
    BY <1>8, <2>1
<1>9. QED
  BY <1>1, <1>2, <1>3, <1>4, <1>5, <1>6, <1>7, <1>8

\* No cell of the table is lost, and the one a step adds is the next one.
LEMMA TableKept ==
  ASSUME TInv, pc \notin {"off", "recover"}, NEW p \in Partial
  PROVE  /\ Table(p[1], p[2])
         /\ p[2] = guids \/ (pc = "guid" /\ nextGuid \in Cells /\ p[2][nextGuid] # Blank
                             /\ \A c \in Cells : c # nextGuid => p[2][c] = guids[c])
<1>1. /\ IInv /\ Table(log, guids) /\ NextCell /\ Named(log, guids)
  BY DEF TInv, Table, Named
<1>2. /\ nextGuid \in Nat /\ end \in Nat /\ Area \in Nat /\ Len(log) \in Nat /\ guids \in Tables
      /\ Cells = 0 .. Area - 1
  BY <1>1, LogSites, LogAssumption DEF IInv, TypeOK, Tables, Cells, Good
<1>3. /\ Named(p[1], guids)
      /\ p[2] = guids \/ (pc = "guid" /\ GuidAdded(p[2]))
  BY <1>1, OutcomeNamed
<1>4. Len(p[1]) = Len(log) \/ (pc = "header" /\ Len(p[1]) = Len(log) + 1)
  BY <1>1, Outcomes
<1>5. CASE p[2] = guids
  <2>1. ASSUME NEW c \in Cells, guids[c] # Blank
        PROVE  Len(p[1]) + c < Area
    <3>1. Len(log) + c < Area
      BY <1>1, <2>1 DEF Table
    <3>2. CASE pc = "header"
      <4>1. Len(log) = end /\ end + nextGuid + 3 <= Area /\ guids[nextGuid] = Blank
        BY <1>1, <3>2 DEF IInv, Phase
      <4>2. nextGuid \in Cells
        BY <1>2, <4>1
      <4>3. ~(nextGuid < c) /\ c # nextGuid
        BY <1>1, <2>1, <4>1, <4>2 DEF Table
      <4>4. QED
        BY <1>2, <1>4, <4>1, <4>2, <4>3
    <3>3. QED
      BY <1>4, <3>1, <3>2
  <2>2. QED
    BY <1>1, <1>3, <1>5, <2>1 DEF Table, Named
<1>6. CASE pc = "guid" /\ GuidAdded(p[2])
  <2>1. PICK x \in Guids \cup {Torn} : p[2] = [guids EXCEPT ![nextGuid] = x]
    BY <1>6 DEF GuidAdded
  <2>2. x # Blank
    BY LogAssumption DEF Guids
  <2>3. /\ Len(log) = end + 1 /\ end + nextGuid + 3 <= Area /\ guids[nextGuid] = Blank
    BY <1>1, <1>6 DEF IInv, Phase
  <2>4. nextGuid \in Cells
    BY <1>2, <2>3
  <2>5. PICK g : g = p[2]
    OBVIOUS
  <2>6. g[nextGuid] # Blank /\ \A c \in Cells : c # nextGuid => g[c] = guids[c]
    BY <1>2, <2>1, <2>2, <2>4, <2>5 DEF Tables
  <2>7. \A c \in Cells : g[c] # Blank => c <= nextGuid
    BY <1>1, <1>2, <2>3, <2>4, <2>6 DEF Table
  <2>8. \A c \in Cells : c < nextGuid => guids[c] # Blank
    <3>1. TAKE c \in Cells
    <3>2. HAVE c < nextGuid
    <3>3. nextGuid - 1 \in Cells /\ guids[nextGuid - 1] # Blank
      BY <1>1, <1>2, <2>4, <3>2 DEF NextCell
    <3>4. c < nextGuid - 1 \/ c = nextGuid - 1
      BY <1>2, <3>2
    <3>5. QED
      BY <1>1, <3>3, <3>4 DEF Table
  <2>9. \A c, d \in Cells : c < d /\ g[d] # Blank => g[c] # Blank
    BY <1>2, <2>4, <2>6, <2>7, <2>8
  <2>10. \A c \in Cells : g[c] # Blank => Len(p[1]) + c < Area
    BY <1>2, <1>4, <1>6, <2>3, <2>7
  <2>11. \A i \in 1 .. Len(p[1]) : p[1][i].name # Absent => g[p[1][i].guid] # Blank
    <3>1. Good(p[1])
      BY <1>1, Outcomes
    <3>2. \A i \in 1 .. Len(p[1]) : p[1][i].guid \in Cells
      <4>1. PICK l : l = p[1]
        OBVIOUS
      <4>2. \A i \in 1 .. Len(l) : l[i] \in Record
        BY <3>1, <4>1, LogSites DEF Good, Logs
      <4>3. QED
        BY <4>1, <4>2 DEF Record
    <3>3. \A c \in Cells : guids[c] # Blank => g[c] # Blank
      BY <2>6
    <3>4. QED
      BY <1>3, <3>2, <3>3 DEF Named
  <2>12. QED
    BY <1>6, <2>4, <2>5, <2>6, <2>9, <2>10, <2>11 DEF Table
<1>7. QED
  BY <1>3, <1>5, <1>6

\* A boot finds the first erased cell in the GUIDs the records name.
LEMMA BootTable ==
  ASSUME TInv, Boot
  PROVE  Table(log', guids') /\ NextCell'
<1>1. /\ log' = log /\ guids' = guids /\ nextGuid' = Enumerate(log).nextGuid
      /\ Table(log, guids) /\ Good(log)
  BY DEF Boot, TInv, IInv
<1>2. /\ Enumerate(log).nextGuid \in 0 .. Area
      /\ Enumerate(log).nextGuid > 1 =>
           \E i \in 1 .. Len(log) : /\ Enumerate(log).nextGuid = log[i].guid + 1
                                    /\ log[i].signed /\ ~log[i].dataOnly
      /\ Enumerate(log).nextGuid = 1 => log # <<>> /\ log[1].signed
  BY <1>1, EnumerateSites DEF Good
<1>3. PICK n : n = Enumerate(log).nextGuid
  OBVIOUS
<1>4. \A i \in 1 .. Len(log) : log[i].signed /\ ~log[i].dataOnly => guids[log[i].guid] # Blank
  BY <1>1 DEF Table, Good
<1>5. \A i \in 1 .. Len(log) : log[i].guid \in Cells
  <2>1. \A i \in 1 .. Len(log) : log[i] \in Record
    BY <1>1, LogSites DEF Good, Logs
  <2>2. QED
    BY <2>1 DEF Record
<1>6. n > 0 => guids[n - 1] # Blank
  <2>1. CASE n > 1
    <3>1. PICK i \in 1 .. Len(log) : n = log[i].guid + 1 /\ log[i].signed /\ ~log[i].dataOnly
      BY <1>2, <1>3, <2>1
    <3>2. n - 1 = log[i].guid
      BY <1>5, <3>1, LogAssumption DEF Cells
    <3>3. QED
      BY <1>4, <3>1, <3>2
  <2>2. CASE n = 1
    <3>1. Len(log) \in Nat /\ log # <<>> /\ log[1].signed
      BY <1>1, <1>2, <1>3, <2>2, LogSites DEF Good
    <3>2. 1 \in 1 .. Len(log) /\ ~log[1].dataOnly
      BY <1>1, <3>1 DEF Good, Logs
    <3>3. guids[log[1].guid] # Blank /\ log[1].guid \in Cells
      BY <1>4, <1>5, <3>1, <3>2
    <3>4. log[1].guid = 0 \/ 0 < log[1].guid
      BY <3>3, LogAssumption DEF Cells
    <3>5. 0 \in Cells
      BY LogAssumption DEF Cells
    <3>6. guids[0] # Blank
      BY <1>1, <3>3, <3>4, <3>5 DEF Table
    <3>7. QED
      BY <2>2, <3>6
  <2>3. n \in Nat
    BY <1>2, <1>3, LogAssumption
  <2>4. QED
    BY <2>1, <2>2, <2>3
<1>7. NextCell'
  BY <1>1, <1>3, <1>6 DEF NextCell
<1>8. QED
  BY <1>1, <1>7

\* An operation moves on to the next cell only when the cell has been programmed.
LEMMA FlashTable ==
  ASSUME TInv, pc \notin {"off", "recover"},
         \E p \in Partial : log' = p[1] /\ guids' = p[2],
         nextGuid' = IF pc = "guid" THEN nextGuid + 1 ELSE nextGuid,
         pc = "guid" => guids' # guids
  PROVE  Table(log', guids') /\ NextCell'
<1>1. PICK p \in Partial : log' = p[1] /\ guids' = p[2]
  OBVIOUS
<1>2. /\ Table(log', guids')
      /\ guids' = guids \/ (pc = "guid" /\ nextGuid \in Cells /\ guids'[nextGuid] # Blank
                            /\ \A c \in Cells : c # nextGuid => guids'[c] = guids[c])
  BY <1>1, TableKept
<1>3. nextGuid \in Nat
  BY LogAssumption DEF TInv, IInv, TypeOK
<1>4. CASE pc = "guid"
  <2>1. nextGuid' > 0 /\ nextGuid' - 1 = nextGuid /\ guids'[nextGuid] # Blank
    BY <1>2, <1>3, <1>4
  <2>2. QED
    BY <1>2, <2>1 DEF NextCell
<1>5. CASE pc # "guid"
  <2>1. nextGuid' = nextGuid /\ guids' = guids
    BY <1>2, <1>5
  <2>2. QED
    BY <1>2, <2>1 DEF TInv, NextCell
<1>6. QED
  BY <1>4, <1>5

\* The actions that program flash do what may be left of them when they fail.
LEMMA Programs ==
  ASSUME IInv,
         ProgramHeader \/ ProgramGuid \/ ProgramBody \/ ProgramSignature \/ ProgramLink \/ Delete
  PROVE  /\ pc \notin {"off", "recover"} /\ \E p \in Partial : log' = p[1] /\ guids' = p[2]
         /\ nextGuid' = IF pc = "guid" THEN nextGuid + 1 ELSE nextGuid
         /\ pc = "guid" => guids' # guids
<1>1. ASSUME pc # "guid", <<log', guids>> \in Partial, pc \notin {"off", "recover"},
             guids' = guids, nextGuid' = nextGuid
      PROVE  /\ \E p \in Partial : log' = p[1] /\ guids' = p[2]
             /\ nextGuid' = IF pc = "guid" THEN nextGuid + 1 ELSE nextGuid
  <2>1. PICK p \in Partial : p = <<log', guids>>
    BY <1>1
  <2>2. QED
    BY <1>1, <2>1
<1>2. CASE ProgramHeader
  BY <1>1, <1>2 DEF ProgramHeader, Partial, info
<1>3. CASE ProgramGuid
  <2>1. /\ pc = "guid" /\ guids' = GuidEntry(guids) /\ nextGuid' = nextGuid + 1 /\ log' = log
    BY <1>3 DEF ProgramGuid
  <2>2. PICK p \in Partial : p = <<log, GuidEntry(guids)>>
    BY <2>1 DEF Partial
  <2>3. guids' # guids
    <3>1. op.var \in Var /\ guids[nextGuid] = Blank
      BY <2>1 DEF IInv, Phase, Calls
    <3>2. op.var.guid # Blank
      BY <3>1, LogAssumption
    <3>3. guids \in Tables /\ nextGuid \in Cells
      BY <2>1, TableOutcome DEF IInv, TypeOK, Tables
    <3>4. GuidEntry(guids)[nextGuid] = op.var.guid
      BY <3>3 DEF GuidEntry, Tables
    <3>5. QED
      BY <2>1, <3>1, <3>2, <3>4
  <2>4. QED
    BY <2>1, <2>2, <2>3
<1>4. CASE ProgramBody
  BY <1>1, <1>4 DEF ProgramBody, Partial, info
<1>5. CASE ProgramSignature
  BY <1>1, <1>5 DEF ProgramSignature, Partial
<1>6. CASE ProgramLink
  BY <1>1, <1>6 DEF ProgramLink, Partial
<1>7. CASE Delete
  BY <1>1, <1>7 DEF Delete, Partial, info
<1>8. QED
  BY <1>2, <1>3, <1>4, <1>5, <1>6, <1>7

\* An area written anew has the GUIDs of its records in the first cells.
LEMMA FreshTable ==
  ASSUME NEW seq \in Seq(Var), NEW t \in Seq(Guids), NEW l, NEW g, Fresh(l, g, seq, t),
         Len(seq) + Len(t) + 2 <= Area
  PROVE  /\ Table(l, g) /\ \A c \in Cells : c < Len(t) => g[c] # Blank
<1>1. /\ Len(seq) \in Nat /\ Len(t) \in Nat /\ Area \in Nat /\ Len(l) = Len(seq)
      /\ Cells = 0 .. Area - 1
  BY LogAssumption DEF Fresh, Cells
<1>2. \A c \in Cells : g[c] = IF c < Len(t) THEN t[c + 1] ELSE Blank
  BY DEF Fresh
<1>3. \A c \in Cells : c < Len(t) => t[c + 1] \in Guids
  BY <1>1
<1>4. Blank \notin Guids
  BY LogAssumption DEF Guids
<1>5. \A c \in Cells : g[c] # Blank <=> c < Len(t)
  BY <1>2, <1>3, <1>4
<1>6. \A i \in 1 .. Len(l) : l[i].guid \in Cells /\ l[i].guid < Len(t)
  <2>1. \A i \in 1 .. Len(l) : l[i] \in Record
    BY <1>1 DEF Fresh
  <2>2. \A i \in 1 .. Len(l) : l[i].guid \in Cells /\ l[i].guid + 1 \in 1 .. Len(t)
    BY <1>1, <2>1 DEF Fresh, Record
  <2>3. QED
    BY <1>1, <2>2
<1>7. \A c \in Cells : c < Len(t) => Len(l) + c < Area
  BY <1>1
<1>8. \A c, d \in Cells : c < d /\ d < Len(t) => c < Len(t)
  BY <1>1
<1>9. QED
  BY <1>5, <1>6, <1>7, <1>8 DEF Table

LEMMA RecoverTable ==
  ASSUME TInv, Recover
  PROVE  Table(log', guids') /\ NextCell'
<1>1. IInv /\ Table(log, guids) /\ NextCell /\ pc = "recover"
  BY Recovered DEF TInv
<1>2. CASE UNCHANGED <<log, guids, nextGuid>>
  BY <1>1, <1>2 DEF NextCell
<1>3. ASSUME NEW seq \in Seq(Var), Fits(seq), UpdateVarstore(seq)
      PROVE  Table(log', guids') /\ NextCell'
  <2>1. /\ Fresh(log', guids', seq, GuidsOf(seq)) /\ GuidsOf(seq) \in Seq(Guids)
        /\ Len(seq) + Len(GuidsOf(seq)) + 2 <= Area /\ Len(GuidsOf(seq)) \in Nat
        /\ Len(seq) \in Nat
    BY <1>1, <1>3, FreshArea
  <2>2. PICK t \in Seq(Guids) : t = GuidsOf(seq)
    BY <2>1
  <2>3. Table(log', guids') /\ \A c \in Cells : c < Len(t) => guids'[c] # Blank
    BY <2>1, <2>2, FreshTable
  <2>4. nextGuid' = Len(t)
    BY <1>3, <2>2 DEF UpdateVarstore
  <2>5. Len(t) > 0 => Len(t) - 1 \in Cells /\ Len(t) - 1 < Len(t)
    BY <2>1, <2>2, LogAssumption DEF Cells
  <2>6. QED
    BY <2>3, <2>4, <2>5 DEF NextCell
<1>4. QED
  BY <1>1, <1>2, <1>3, Recovered

LEMMA TableStep ==
  ASSUME ~LostGuids, TInv, [Next]_vars
  PROVE  TInv'
<1>1. IInv' /\ IInv /\ Table(log, guids) /\ NextCell
  BY InvStep DEF TInv
<1>2. CASE UNCHANGED <<log, guids, nextGuid>>
  BY <1>1, <1>2 DEF TInv, NextCell
<1>3. CASE Boot
  BY <1>1, <1>3, BootTable DEF TInv
<1>4. CASE ProgramHeader \/ ProgramGuid \/ ProgramBody \/ ProgramSignature \/ ProgramLink \/ Delete
  <2>1. Table(log', guids') /\ NextCell'
    <3>1. IInv
      BY DEF TInv
    <3>2. QED
      BY <1>4, <3>1, Programs, FlashTable
  <2>2. QED
    BY <1>1, <2>1 DEF TInv
<1>5. CASE WriteFails
  <2>1. /\ pc \notin {"off", "recover"} /\ \E p \in Partial : log' = p[1] /\ guids' = p[2]
        /\ nextGuid' = IF pc = "guid" THEN nextGuid + 1 ELSE nextGuid
        /\ pc = "guid" => guids' # guids
    BY <1>5 DEF WriteFails
  <2>2. Table(log', guids') /\ NextCell'
    BY <2>1, FlashTable
  <2>3. QED
    BY <1>1, <2>2 DEF TInv
<1>6. CASE Recover
  BY <1>1, <1>6, RecoverTable DEF TInv
<1>7. CASE Crash
  <2>1. PICK p \in Partial : log' = p[1] /\ guids' = p[2]
    BY <1>7 DEF Crash
  <2>2. pc \notin {"off", "recover"} /\ nextGuid' = 0
    BY <1>7 DEF Crash
  <2>3. Table(log', guids')
    BY <2>1, <2>2, TableKept
  <2>4. NextCell'
    BY <2>2 DEF NextCell
  <2>5. QED
    BY <1>1, <2>3, <2>4 DEF TInv
<1>8. CASE \/ ExitBootServices \/ UNCHANGED vars
           \/ \E v \in Var, d \in Val \cup {Absent} : SetVariable(v, d)
  BY <1>2, <1>8 DEF ExitBootServices, SetVariable, vars, info
<1>9. QED
  BY <1>3, <1>4, <1>5, <1>6, <1>7, <1>8 DEF Next

\* The log and the table of GUIDs do not grow into each other, as long as no
\* failed operation leaves a gap in the table: IsEnoughSpace keeps room for
\* NextGuid cells and one more, and without a gap no GUID is above them.
THEOREM TableApart == ~LostGuids => (Spec => []NoOverlap)
<1> SUFFICES ASSUME ~LostGuids
             PROVE  Spec => []NoOverlap
  OBVIOUS
<1>1. Init => TInv
  <2>1. ASSUME Init
        PROVE  TInv
    <3>1. IInv /\ log = <<>> /\ Len(log) = 0 /\ nextGuid = 0 /\ \A c \in Cells : guids[c] = Blank
      BY <2>1, InvInit DEF Init
    <3>2. QED
      BY <3>1 DEF TInv, Table, NextCell
  <2>2. QED
    BY <2>1
<1>2. TInv /\ [Next]_vars => TInv'
  BY TableStep
<1>3. TInv => NoOverlap
  <2>1. ASSUME TInv, NEW c \in Cells, guids[c] # Blank
        PROVE  Len(log) < Area - c
    <3>1. Len(log) + c < Area /\ Len(log) \in Nat /\ c \in Nat /\ Area \in Nat
      BY <2>1, LogSites, LogAssumption DEF TInv, Table, IInv, Good, Cells
    <3>2. QED
      BY <3>1
  <2>2. QED
    BY <2>1 DEF NoOverlap
<1>4. QED
  BY <1>1, <1>2, <1>3, PTL DEF Spec

---------------------------------------------------------------------------
\* What a log means: the same for a boot, for the walk and for the index.

\* The variables among the records, those that have a name and are valid, and
\* those of one variable.
Signed(l) == {i \in 1 .. Len(l) : l[i].size = "ok" /\ l[i].signed}
Valids(l) == {i \in Signed(l) : NvIsValid(l[i])}
Of(l, g, v) == {i \in Valids(l) : l[i].name = v.name /\ g[l[i].guid] = v.guid}

HeadOf(l, g, v) == IF Of(l, g, v) = {} THEN 0 ELSE Min(Of(l, g, v))
ValueOf(l, g, v) == ValueAt(l, HeadOf(l, g, v), Len(l))

\* Every record belongs to one that has a name, or to itself; root says to which.
Owns(l, root) ==
    /\ root \in [1 .. Len(l) -> Nat]
    /\ \A i \in 1 .. Len(l) : l[i].next # 0 => root[l[i].next] = root[i]
    /\ \A i \in 1 .. Len(l) : ~l[i].dataOnly => root[i] = i

\* Only the last record may be without its size, the first one is signed once
\* there is a second one, links lead to variables, and chains do not meet.
Sane(l) ==
    /\ \A i \in 1 .. Len(l) - 1 : l[i].size = "ok"
    /\ Len(l) > 1 => 1 \in Signed(l)
    /\ \A i \in 1 .. Len(l) : l[i].next # 0 => l[i].next \in Signed(l)
    /\ \A i \in Signed(l) : l[i].val # Absent
    /\ \E root : Owns(l, root)

Unique(l, g) == \A v \in Var : \A i, j \in Of(l, g, v) : i = j

\* A walk from f to e sees every variable up to e ...
Placed(l, f, e) ==
    /\ e <= Len(l) /\ \A i \in 1 .. e : l[i].size = "ok"
    /\ e > 0 => f \in Signed(l) /\ f <= e /\ 1 \in Signed(l)
    /\ \A i \in Valids(l) : i <= e => f <= i

\* ... and nothing that matters is behind e.
Settled(l, e) ==
    /\ \A i \in Valids(l) : i <= e
    /\ \A i \in 1 .. Len(l) : l[i].next <= e

\* Chains of two logs that agree on a set of records closed under their links.
Alike(l, d, m, e, S) ==
    /\ S \in SUBSET (1 .. Len(l)) /\ S \in SUBSET (1 .. Len(m))
    /\ \A i \in S : /\ Linked(l, i, d) <=> Linked(m, i, e)
                    /\ Linked(l, i, d) => m[i].next = l[i].next /\ l[i].next \in S

LEMMA ChainsAgree ==
  ASSUME NEW l \in Logs, Forward(l), NEW m \in Logs, Forward(m), NEW d \in Nat, NEW e \in Nat,
         NEW S, Alike(l, d, m, e, S)
  PROVE  \A i \in S : NvGetDataNvar(m, i, e) = NvGetDataNvar(l, i, d) /\ NvGetDataNvar(l, i, d) \in S
<1> DEFINE C == ChainEnds(l, d)
           D == ChainEnds(m, e)
           Bad == {i \in S : ~(D[i] = C[i] /\ C[i] \in S)}
<1>1. Len(l) \in Nat /\ Len(m) \in Nat
  BY LogSites
<1>2. /\ \A k \in 1 .. Len(l) : C[k] = IF Linked(l, k, d) THEN C[l[k].next] ELSE k
      /\ \A k \in 1 .. Len(m) : D[k] = IF Linked(m, k, e) THEN D[m[k].next] ELSE k
  BY ChainsEnd
<1> HIDE DEF C, D
<1>3. \A i \in S : Linked(l, i, d) => l[i].next > i
  BY <1>1 DEF Alike, Linked, NvIsVariable, Forward
<1>4. Bad = {}
  <2>1. SUFFICES ASSUME Bad # {}
                 PROVE  FALSE
    OBVIOUS
  <2>0. \A k \in Bad : k \in 1 .. Len(l)
    BY DEF Alike
  <2>2. Bad \in SUBSET Nat /\ \A k \in Bad : k <= Len(l)
    <3> HIDE DEF Bad
    <3>1. QED
      BY <1>1, <2>0
  <2>3. PICK k \in Bad : \A j \in Bad : j <= k
    BY <1>1, <2>1, <2>2, MaxIsGreatest
  <2>4. CASE Linked(l, k, d)
    <3>0. k \in S
      BY <2>3
    <3>1. l[k].next \in S /\ l[k].next > k /\ m[k].next = l[k].next /\ Linked(m, k, e)
      BY <1>3, <3>0, <2>4 DEF Alike
    <3>2. l[k].next \notin Bad
      BY <1>1, <2>2, <2>3, <3>1
    <3>3. D[l[k].next] = C[l[k].next] /\ C[l[k].next] \in S
      BY <3>1, <3>2
    <3>4. C[k] = C[l[k].next] /\ D[k] = D[l[k].next]
      BY <1>2, <2>3, <2>4, <3>1 DEF Alike
    <3>5. QED
      BY <2>3, <3>3, <3>4
  <2>5. CASE ~Linked(l, k, d)
    <3>1. C[k] = k /\ D[k] = k
      BY <1>2, <2>3, <2>5 DEF Alike
    <3>2. QED
      BY <2>3, <3>1
  <2>6. QED
    BY <2>4, <2>5
<1>5. \A i \in S : D[i] = C[i] /\ C[i] \in S
  BY <1>4
<1>6. QED
  BY <1>5 DEF NvGetDataNvar, C, D

\* In a log in order every link is followed.
LEMMA LinksFollowed ==
  ASSUME NEW l, Good(l), Sane(l), NEW e \in Nat, \A i \in 1 .. Len(l) : l[i].next <= e
  PROVE  /\ \A i \in Signed(l) : i <= e => NvIsVariable(l, i, e)
         /\ \A i \in 1 .. Len(l) : Linked(l, i, e) <=> l[i].next # 0
         /\ \A i \in 1 .. Len(l) : l[i].next # 0 => l[i].next \in Signed(l) /\ l[i].next > i
<1>1. l \in Logs /\ Len(l) \in Nat /\ \A i \in 1 .. Len(l) : l[i].next \in Nat
  BY LogSites DEF Good
<1>2. \A i \in 1 .. Len(l) : l[i].next # 0 => l[i].next \in Signed(l) /\ l[i].next > i
  BY DEF Good, Forward, Sane
<1>3. \A i \in Signed(l) : i <= e => NvIsVariable(l, i, e)
  BY <1>1, <1>2 DEF Signed, NvIsVariable
<1>4. \A i \in 1 .. Len(l) : l[i].next # 0 => Linked(l, i, e)
  BY <1>2, <1>3 DEF Linked
<1>5. \A i \in 1 .. Len(l) : Linked(l, i, e) => l[i].next # 0
  BY DEF Linked, NvIsVariable
<1>6. QED
  BY <1>2, <1>3, <1>4, <1>5

LEMMA LinksInside ==
  ASSUME NEW l, Good(l), Sane(l)
  PROVE  /\ l \in Logs /\ Forward(l) /\ Len(l) \in Nat /\ Len(l) <= Area /\ Area \in Nat
         /\ Signed(l) \in SUBSET (1 .. Len(l)) /\ Valids(l) \in SUBSET Signed(l)
         /\ \A i \in 1 .. Len(l) : l[i].next \in 0 .. Len(l)
<1>1. l \in Logs /\ Len(l) \in Nat /\ \A i \in 1 .. Len(l) : l[i].next \in Nat
  BY LogSites DEF Good
<1>2. QED
  BY <1>1, LogAssumption DEF Good, Sane, Signed, Valids

\* The head and the value of a variable, for the walk that sees everything.
LEMMA HeadSite ==
  ASSUME NEW l, Good(l), NEW g, NEW v
  PROVE  /\ Of(l, g, v) \in SUBSET (1 .. Len(l)) /\ HeadOf(l, g, v) \in 0 .. Len(l)
         /\ HeadOf(l, g, v) = 0 <=> Of(l, g, v) = {}
         /\ HeadOf(l, g, v) # 0 => HeadOf(l, g, v) \in Of(l, g, v)
<1>1. Len(l) \in Nat
  BY LogSites DEF Good
<1>2. Of(l, g, v) \in SUBSET (1 .. Len(l))
  BY DEF Of, Valids, Signed
<1>3. Of(l, g, v) \in SUBSET Nat
  BY <1>1, <1>2
<1>4. Of(l, g, v) # {} => Min(Of(l, g, v)) \in Of(l, g, v)
  BY <1>3, MinIsLeast
<1>5. QED
  BY <1>1, <1>2, <1>4 DEF HeadOf

LEMMA WalkSees ==
  ASSUME NEW l, Good(l), Sane(l), NEW f \in Nat, NEW e \in Nat, Placed(l, f, e), Settled(l, e),
         NEW g, NEW v \in Var
  PROVE  NvFindVariable(l, g, Walk(l, f, e), v) = HeadOf(l, g, v)
<1>1. Len(l) \in Nat /\ Signed(l) \in SUBSET (1 .. Len(l))
  BY LinksInside
<1>2. Walk(l, f, e) \in SUBSET Signed(l)
  BY <1>1, LinksInside, WalkSites DEF NvIsVariable, Signed
<1>3. \A i \in Valids(l) : i \in Walk(l, f, e)
  <2>1. TAKE i \in Valids(l)
  <2>2. i \in Signed(l) /\ i <= e /\ f <= i /\ i \in 1 .. Len(l)
    BY <1>1 DEF Settled, Placed, Valids
  <2>3. f \in Signed(l) /\ f <= e /\ \A k \in 1 .. e : l[k].size = "ok"
    BY <2>2 DEF Placed
  <2>4. NvIsVariable(l, i, e) /\ NvIsVariable(l, f, e)
    BY <2>2, <2>3, LinksFollowed DEF Settled
  <2>5. f \in 1 .. Len(l)
    BY <1>1, <2>3
  <2>6. i \in f .. Len(l) /\ \A k \in f .. i : k \in 1 .. e
    BY <1>1, <2>2, <2>5
  <2>7. QED
    BY <2>3, <2>4, <2>6 DEF Walk
<1>4. Matches(l, g, Walk(l, f, e), v) = Of(l, g, v)
  BY <1>2, <1>3 DEF Matches, Of, Valids
<1>5. QED
  BY <1>4 DEF NvFindVariable, Matches, HeadOf

LEMMA TailSeen ==
  ASSUME NEW l, Good(l), Sane(l), NEW e \in Nat, e <= Len(l), Settled(l, e)
  PROVE  \A i \in 1 .. Len(l) : NvGetDataNvar(l, i, e) = NvGetDataNvar(l, i, Len(l))
<1>1. /\ Len(l) \in Nat /\ l \in Logs /\ Forward(l)
      /\ \A k \in 1 .. Len(l) : l[k].next \in 0 .. Len(l)
  BY LinksInside
<1>2. \A k \in 1 .. Len(l) : l[k].next <= Len(l) /\ l[k].next <= e
  BY <1>1 DEF Settled
<1>3. \A k \in 1 .. Len(l) : Linked(l, k, e) <=> l[k].next # 0
  BY <1>2, LinksFollowed
<1>4. \A k \in 1 .. Len(l) : Linked(l, k, Len(l)) <=> l[k].next # 0
  BY <1>1, <1>2, LinksFollowed
<1>5. \A k \in 1 .. Len(l) : l[k].next # 0 => l[k].next \in 1 .. Len(l)
  BY <1>1
<1>6. Alike(l, Len(l), l, e, 1 .. Len(l))
  BY <1>3, <1>4, <1>5 DEF Alike
<1>7. QED
  BY <1>1, <1>6, ChainsAgree

LEMMA ChainSeen ==
  ASSUME NEW l, Good(l), Sane(l), NEW e \in Nat, e <= Len(l), Settled(l, e),
         NEW i \in 0 .. Len(l)
  PROVE  ValueAt(l, i, e) = ValueAt(l, i, Len(l))
<1>1. Len(l) \in Nat
  BY LinksInside
<1>2. i = 0 \/ i \in 1 .. Len(l)
  BY <1>1
<1>3. QED
  BY <1>2, TailSeen DEF ValueAt

\* A boot sees every variable.
LEMMA BootPlaced ==
  ASSUME NEW l, Good(l), Sane(l)
  PROVE  /\ Placed(l, Enumerate(l).first, Enumerate(l).end) /\ Settled(l, Enumerate(l).end)
         /\ Enumerate(l).first \in Nat /\ Enumerate(l).end \in Nat
         /\ Enumerate(l).end = 0 => Enumerate(l).first = 1
         /\ \A i \in Valids(l) : l[i].guid < Enumerate(l).nextGuid
<1>1. /\ l \in Logs /\ Len(l) \in Nat /\ Len(l) <= Area /\ Area \in Nat
      /\ Signed(l) \in SUBSET (1 .. Len(l)) /\ Valids(l) \in SUBSET Signed(l)
      /\ \A i \in 1 .. Len(l) : l[i].next \in 0 .. Len(l)
  BY LinksInside
<1>2. Enumerate(l).first \in Nat /\ Enumerate(l).end \in Nat
  BY <1>1, EnumerateSites
<1>3. /\ All(l) \in SUBSET (1 .. Len(l)) /\ (All(l) # {} => 1 \in All(l))
      /\ \A i \in All(l) : NvIsVariable(l, i, Area)
  BY <1>1, WalkSites DEF All
<1>4. All(l) \in SUBSET Signed(l)
  BY <1>3 DEF NvIsVariable, Signed
<1>5. CASE 1 \notin Signed(l)
  <2>1. All(l) = {}
    BY <1>3, <1>4, <1>5
  <2>2. Enumerate(l) = [first |-> 1, end |-> 0, nextGuid |-> 0, last |-> 0]
    BY <2>1 DEF Enumerate, All
  <2>3. Signed(l) = {}
    BY <1>1, <1>5 DEF Sane
  <2>4. \A i \in 1 .. Len(l) : l[i].next = 0
    BY <2>3 DEF Sane
  <2>5. Enumerate(l).first = 1 /\ Enumerate(l).end = 0
    BY <2>2
  <2>6. Placed(l, 1, 0) /\ Settled(l, 0)
    BY <1>1, <2>3, <2>4 DEF Placed, Settled
  <2>7. QED
    BY <1>1, <1>2, <2>3, <2>5, <2>6
<1>6. CASE 1 \in Signed(l)
  <2>1. \A i \in Signed(l) : \A k \in 1 .. i : l[k].size = "ok"
    <3>1. TAKE i \in Signed(l)
    <3>2. TAKE k \in 1 .. i
    <3>3. i \in 1 .. Len(l) /\ l[i].size = "ok"
      BY <1>1 DEF Signed
    <3>4. k = i \/ k \in 1 .. Len(l) - 1
      BY <1>1, <3>3
    <3>5. QED
      BY <3>3, <3>4 DEF Sane
  <2>2. \A i \in 1 .. Len(l) : l[i].next <= Area
    BY <1>1
  <2>3. \A i \in Signed(l) : NvIsVariable(l, i, Area)
    BY <1>1, <2>2, LinksFollowed
  <2>4. \A i \in Signed(l) : i \in All(l)
    BY <1>1, <1>6, <2>1, <2>3 DEF All, Walk
  <2>5. All(l) = Signed(l) /\ ValidOf(l) = Valids(l)
    BY <1>4, <2>4 DEF ValidOf, Valids
  <2>6. All(l) # {}
    BY <1>6, <2>5
  <2>7. PICK s \in BOOLEAN :
          /\ s => LastOf(l) < Len(l) /\ l[LastOf(l) + 1].size = "ok"
          /\ Enumerate(l) = [first |-> FirstOf(l),
                             end |-> IF s THEN LastOf(l) + 1 ELSE LastOf(l),
                             nextGuid |-> NextGuidOf(l), last |-> IF s THEN 2 ELSE 1]
    BY <1>1, <2>6, EnumerateParts
  <2>8. PICK f, n, e, g : /\ f = FirstOf(l) /\ n = LastOf(l)
                          /\ e = (IF s THEN n + 1 ELSE n) /\ g = NextGuidOf(l)
    OBVIOUS
  <2>9. /\ s \in BOOLEAN
        /\ s => n < Len(l) /\ l[n + 1].size = "ok"
        /\ f = FirstOf(l) /\ n = LastOf(l) /\ e = (IF s THEN n + 1 ELSE n)
        /\ g = NextGuidOf(l)
        /\ Enumerate(l) = [first |-> f, end |-> e, nextGuid |-> g, last |-> IF s THEN 2 ELSE 1]
    BY <2>7, <2>8
  <2>10. /\ f \in Signed(l) /\ \A i \in Valids(l) : f <= i
        /\ n \in Signed(l) /\ \A i \in Signed(l) : i <= n
    BY <1>1, <2>5, <2>6, <2>9, EnumerateParts
  <2>11. Enumerate(l).first = f /\ Enumerate(l).end = e /\ Enumerate(l).nextGuid = g
    BY <2>9
  <2>12. n \in 1 .. Len(l) /\ f \in 1 .. Len(l) /\ f <= n /\ e \in Nat /\ n <= e /\ e <= Len(l)
    BY <1>1, <2>9, <2>10
  <2>13. \A i \in 1 .. e : l[i].size = "ok"
    <3>1. TAKE i \in 1 .. e
    <3>2. CASE i <= n
      BY <2>1, <2>10, <2>12, <3>2
    <3>3. CASE i > n
      BY <2>9, <2>12, <3>3
    <3>4. QED
      BY <2>12, <3>2, <3>3
  <2>14. Placed(l, f, e)
    BY <1>6, <2>10, <2>12, <2>13 DEF Placed
  <2>15. Settled(l, e)
    <3>1. \A i \in 1 .. Len(l) : l[i].next <= e
      <4>1. TAKE i \in 1 .. Len(l)
      <4>2. l[i].next = 0 \/ l[i].next \in Signed(l)
        BY DEF Sane
      <4>3. QED
        BY <1>1, <2>10, <2>12, <4>2
    <3>2. \A i \in Valids(l) : i <= e
      BY <1>1, <2>10, <2>12
    <3>3. QED
      BY <3>1, <3>2 DEF Settled
  <2>16. \A i \in Valids(l) : l[i].guid < g
    <3>1. TAKE i \in Valids(l)
    <3>2. i \in Rest(l) /\ ~l[i].dataOnly
      BY <1>1, <2>5, <2>9, <2>10 DEF Rest, Valids, NvIsValid
    <3>3. l[i].guid \in Filed(l)
      BY <3>2 DEF Filed
    <3>4. PICK m : m = Max({0} \cup Filed(l))
      OBVIOUS
    <3>5. l[i].guid <= m /\ m \in Cells /\ g = m + 1
      BY <1>1, <2>6, <2>9, <3>3, <3>4, EnumerateParts DEF NextGuidOf
    <3>6. i \in 1 .. Len(l)
      BY <1>1
    <3>7. l[i].guid \in Cells
      BY <1>1, <3>6, LogSites
    <3>8. QED
      BY <1>1, <3>5, <3>7 DEF Cells
  <2>17. e # 0
    BY <1>1, <2>12
  <2>18. QED
    BY <1>2, <2>11, <2>14, <2>15, <2>16, <2>17
<1>7. QED
  BY <1>5, <1>6

LEMMA ContentsAre ==
  ASSUME NEW l, Good(l), Sane(l), NEW g
  PROVE  Contents(l, g) = [v \in Var |-> ValueOf(l, g, v)]
<1>1. PICK f, e : f = Enumerate(l).first /\ e = Enumerate(l).end
  OBVIOUS
<1>2. Placed(l, f, e) /\ Settled(l, e) /\ f \in Nat /\ e \in Nat /\ e <= Len(l)
  BY <1>1, BootPlaced DEF Placed
<1>3. \A v \in Var : ValueAt(l, NvFindVariable(l, g, Walk(l, f, e), v), e) = ValueOf(l, g, v)
  <2>1. TAKE v \in Var
  <2>2. NvFindVariable(l, g, Walk(l, f, e), v) = HeadOf(l, g, v)
    BY <1>2, WalkSees
  <2>3. HeadOf(l, g, v) \in 0 .. Len(l)
    BY HeadSite
  <2>4. QED
    BY <1>2, <2>2, <2>3, ChainSeen DEF ValueOf
<1>4. Contents(l, g) = [v \in Var |-> ValueAt(l, NvFindVariable(l, g, Walk(l, f, e), v), e)]
  BY <1>1 DEF Contents
<1>5. QED
  BY <1>3, <1>4

LEMMA LinksAll ==
  ASSUME NEW l, Good(l), Sane(l)
  PROVE  /\ \A k \in 1 .. Len(l) : Linked(l, k, Len(l)) <=> l[k].next # 0
         /\ \A k \in 1 .. Len(l) : l[k].next # 0 => l[k].next \in Signed(l) /\ l[k].next > k
<1>1. Len(l) \in Nat /\ \A k \in 1 .. Len(l) : l[k].next \in 0 .. Len(l)
  BY LinksInside
<1>2. \A k \in 1 .. Len(l) : l[k].next <= Len(l)
  BY <1>1
<1>3. QED
  BY <1>1, <1>2, LinksFollowed

\* The last record of a chain has no link, and belongs where the first one does.
LEMMA Tails ==
  ASSUME NEW l, Good(l), Sane(l), NEW root, Owns(l, root), NEW i \in 1 .. Len(l)
  PROVE  /\ NvGetDataNvar(l, i, Len(l)) \in 1 .. Len(l)
         /\ l[NvGetDataNvar(l, i, Len(l))].next = 0
         /\ root[NvGetDataNvar(l, i, Len(l))] = root[i]
         /\ i \in Signed(l) => NvGetDataNvar(l, i, Len(l)) \in Signed(l)
<1> DEFINE C == ChainEnds(l, Len(l))
           Fine(k) == /\ l[C[k]].next = 0 /\ root[C[k]] = root[k]
                      /\ k \in Signed(l) => C[k] \in Signed(l)
           Bad == {k \in 1 .. Len(l) : ~Fine(k)}
<1>1. Len(l) \in Nat /\ l \in Logs /\ Forward(l) /\ \A k \in 1 .. Len(l) : l[k].next \in 0 .. Len(l)
  BY LinksInside
<1>2. /\ C \in [1 .. Len(l) -> 1 .. Len(l)]
      /\ \A k \in 1 .. Len(l) : C[k] = IF Linked(l, k, Len(l)) THEN C[l[k].next] ELSE k
  BY <1>1, ChainsEnd
<1>3. /\ \A k \in 1 .. Len(l) : Linked(l, k, Len(l)) <=> l[k].next # 0
      /\ \A k \in 1 .. Len(l) : l[k].next # 0 => l[k].next \in Signed(l) /\ l[k].next > k
  BY LinksAll
<1> HIDE DEF C
<1>4. ASSUME Bad # {}
      PROVE  FALSE
  <2>1. \A k \in Bad : k \in 1 .. Len(l)
    OBVIOUS
  <2>2. Bad \in SUBSET Nat /\ \A k \in Bad : k <= Len(l)
    <3> HIDE DEF Bad
    <3>1. QED
      BY <1>1, <2>1
  <2>3. PICK k \in Bad : \A j \in Bad : j <= k
    BY <1>1, <1>4, <2>2, MaxIsGreatest
  <2>4. k \in 1 .. Len(l) /\ ~Fine(k)
    BY <2>3
  <2>5. CASE l[k].next = 0
    BY <1>2, <1>3, <2>4, <2>5
  <2>6. CASE l[k].next # 0
    <3>1. l[k].next \in 1 .. Len(l) /\ l[k].next > k /\ l[k].next \in Signed(l)
      BY <1>1, <1>3, <2>4, <2>6
    <3>2. l[k].next \notin Bad
      BY <1>1, <2>2, <2>3, <2>4, <3>1
    <3>3. Fine(l[k].next)
      BY <3>1, <3>2
    <3>4. C[k] = C[l[k].next]
      BY <1>2, <1>3, <2>4, <2>6
    <3>5. root[l[k].next] = root[k]
      BY <2>4, <2>6 DEF Owns
    <3>6. QED
      BY <2>4, <3>1, <3>3, <3>4, <3>5
  <2>7. QED
    BY <2>5, <2>6
<1>5. Fine(i) /\ C[i] \in 1 .. Len(l)
  BY <1>2, <1>4
<1>6. QED
  BY <1>5 DEF NvGetDataNvar, C

\* A variable keeps its value as long as the records of its chain do.
Holds(l, m, S) ==
    /\ S \in SUBSET (1 .. Len(l)) /\ Len(l) <= Len(m)
    /\ \A i \in S : /\ m[i].next = l[i].next /\ m[i].val = l[i].val
                    /\ l[i].next # 0 => l[i].next \in S

LEMMA ValueKept ==
  ASSUME NEW l, Good(l), Sane(l), NEW m, Good(m), Sane(m), NEW g, NEW h, NEW v,
         NEW S, Holds(l, m, S), Of(m, h, v) = Of(l, g, v), Of(l, g, v) \in SUBSET S
  PROVE  HeadOf(m, h, v) = HeadOf(l, g, v) /\ ValueOf(m, h, v) = ValueOf(l, g, v)
<1>1. /\ Len(l) \in Nat /\ l \in Logs /\ Forward(l)
      /\ Len(m) \in Nat /\ m \in Logs /\ Forward(m)
      /\ \A k \in 1 .. Len(l) : l[k].next \in 0 .. Len(l)
      /\ \A k \in 1 .. Len(m) : m[k].next \in 0 .. Len(m)
  BY LinksInside
<1>2. \A k \in 1 .. Len(l) : Linked(l, k, Len(l)) <=> l[k].next # 0
  BY LinksAll
<1>3. \A k \in 1 .. Len(m) : Linked(m, k, Len(m)) <=> m[k].next # 0
  BY LinksAll
<1>4. S \in SUBSET (1 .. Len(m)) /\ S \in SUBSET (1 .. Len(l))
  BY <1>1 DEF Holds
<1>5. Alike(l, Len(l), m, Len(m), S)
  BY <1>2, <1>3, <1>4 DEF Alike, Holds
<1>6. \A i \in S : /\ NvGetDataNvar(m, i, Len(m)) = NvGetDataNvar(l, i, Len(l))
                   /\ NvGetDataNvar(l, i, Len(l)) \in S
  BY <1>1, <1>5, ChainsAgree
<1>7. HeadOf(m, h, v) = HeadOf(l, g, v)
  BY DEF HeadOf
<1>8. HeadOf(l, g, v) = 0 \/ HeadOf(l, g, v) \in S
  BY HeadSite
<1>9. \A i \in S : ValueAt(m, i, Len(m)) = ValueAt(l, i, Len(l))
  BY <1>6 DEF ValueAt, Holds
<1>10. ValueAt(m, 0, Len(m)) = ValueAt(l, 0, Len(l))
  BY DEF ValueAt
<1>11. QED
  BY <1>7, <1>8, <1>9, <1>10 DEF ValueOf

\* Linking a record to the end of a chain gives the chain that record's value.
LEMMA ValueLinked ==
  ASSUME NEW l, Good(l), Sane(l), NEW m, Good(m), Sane(m), NEW n \in 1 .. Len(l), NEW i \in 1 .. Len(l),
         NEW t, t = NvGetDataNvar(l, i, Len(l)), Programmed(l, m, t), m[t].next = n, l[n].next = 0,
         t # n
  PROVE  ValueAt(m, i, Len(m)) = l[n].val
<1> DEFINE C == ChainEnds(l, Len(l))
           D == ChainEnds(m, Len(m))
           Bad == {k \in 1 .. Len(l) : C[k] = t /\ D[k] # n}
<1>1. /\ Len(l) \in Nat /\ l \in Logs /\ Forward(l) /\ \A k \in 1 .. Len(l) : l[k].next \in 0 .. Len(l)
      /\ m \in Logs /\ Forward(m) /\ \A k \in 1 .. Len(m) : m[k].next \in 0 .. Len(m)
      /\ Len(m) = Len(l)
  BY LinksInside DEF Programmed
<1>2. PICK root : Owns(l, root)
  BY DEF Sane
<1>3. t \in 1 .. Len(l) /\ l[t].next = 0
  BY <1>2, Tails
<1>4. /\ C \in [1 .. Len(l) -> 1 .. Len(l)]
      /\ \A k \in 1 .. Len(l) : C[k] = IF Linked(l, k, Len(l)) THEN C[l[k].next] ELSE k
  BY <1>1, ChainsEnd
<1>5. \A k \in 1 .. Len(m) : D[k] = IF Linked(m, k, Len(m)) THEN D[m[k].next] ELSE k
  BY <1>1, ChainsEnd
<1>6. /\ \A k \in 1 .. Len(l) : Linked(l, k, Len(l)) <=> l[k].next # 0
      /\ \A k \in 1 .. Len(l) : l[k].next # 0 => l[k].next > k
  BY LinksAll
<1>7. \A k \in 1 .. Len(m) : Linked(m, k, Len(m)) <=> m[k].next # 0
  BY LinksAll
<1> HIDE DEF C, D
<1>8. /\ \A k \in 1 .. Len(l) : C[k] = IF l[k].next # 0 THEN C[l[k].next] ELSE k
      /\ \A k \in 1 .. Len(l) : D[k] = IF m[k].next # 0 THEN D[m[k].next] ELSE k
  BY <1>1, <1>4, <1>5, <1>6, <1>7
<1>9. m[n] = l[n]
  BY DEF Programmed
<1>10. D[n] = n /\ D[t] = n
  BY <1>1, <1>3, <1>8, <1>9
<1>11. ASSUME Bad # {}
       PROVE  FALSE
  <2>1. \A k \in Bad : k \in 1 .. Len(l) /\ C[k] = t /\ D[k] # n
    OBVIOUS
  <2>2. Bad \in SUBSET Nat /\ \A k \in Bad : k <= Len(l)
    <3> HIDE DEF Bad
    <3>1. QED
      BY <1>1, <2>1
  <2>3. PICK k \in Bad : \A j \in Bad : j <= k
    BY <1>1, <1>11, <2>2, MaxIsGreatest
  <2>4. k \in 1 .. Len(l) /\ C[k] = t /\ D[k] # n
    BY <2>1, <2>3
  <2>5. k # t
    BY <1>10, <2>4
  <2>6. l[k].next # 0 /\ m[k] = l[k]
    BY <1>8, <2>4, <2>5 DEF Programmed
  <2>7. l[k].next \in 1 .. Len(l) /\ l[k].next > k
    BY <1>1, <1>6, <2>4, <2>6
  <2>8. C[l[k].next] = t /\ D[l[k].next] # n
    BY <1>8, <2>4, <2>6
  <2>9. l[k].next \in Bad
    BY <2>7, <2>8
  <2>10. l[k].next <= k
    BY <2>3, <2>9
  <2>11. QED
    BY <1>1, <2>4, <2>7, <2>10
<1>12. C[i] = t
  BY DEF NvGetDataNvar, C
<1>13. D[i] = n
  BY <1>11, <1>12
<1>14. NvGetDataNvar(m, i, Len(m)) = n
  BY <1>13 DEF NvGetDataNvar, D
<1>15. i # 0
  BY <1>1
<1>16. QED
  BY <1>9, <1>14, <1>15 DEF ValueAt

---------------------------------------------------------------------------
\* What programming one field, or one more record, makes of a log.

LEMMA ProgrammedSane ==
  ASSUME NEW l, Good(l), Sane(l), NEW m, Good(m), NEW i \in 1 .. Len(l), Programmed(l, m, i),
         m[i].next = l[i].next, m[i].size = "ok", m[i].dataOnly = l[i].dataOnly,
         l[i].signed => m[i].signed, m[i].signed => m[i].val # Absent
  PROVE  Sane(m)
<1>1. Len(l) \in Nat /\ Len(m) = Len(l)
  BY LinksInside DEF Programmed
<1>2. \A k \in 1 .. Len(l) : /\ k # i => m[k] = l[k]
                             /\ m[k].next = l[k].next /\ m[k].dataOnly = l[k].dataOnly
  BY DEF Programmed
<1>3. \A k \in Signed(l) : k \in Signed(m)
  BY <1>1, <1>2 DEF Signed
<1>4. \A k \in 1 .. Len(m) - 1 : m[k].size = "ok"
  BY <1>1, <1>2 DEF Sane
<1>5. Len(m) > 1 => 1 \in Signed(m)
  BY <1>1, <1>3 DEF Sane
<1>6. \A k \in 1 .. Len(m) : m[k].next # 0 => m[k].next \in Signed(m)
  BY <1>1, <1>2, <1>3 DEF Sane
<1>7. \A k \in Signed(m) : m[k].val # Absent
  BY <1>1, <1>2 DEF Signed, Sane
<1>8. PICK root : Owns(l, root)
  BY DEF Sane
<1>9. Owns(m, root)
  BY <1>1, <1>2, <1>8 DEF Owns
<1>10. QED
  BY <1>4, <1>5, <1>6, <1>7, <1>9 DEF Sane

LEMMA AppendedSane ==
  ASSUME NEW l, Good(l), Sane(l), \A k \in 1 .. Len(l) : l[k].size = "ok",
         Len(l) > 0 => 1 \in Signed(l),
         NEW m, Good(m), Len(m) = Len(l) + 1, \A k \in 1 .. Len(l) : m[k] = l[k],
         ~m[Len(l) + 1].signed, m[Len(l) + 1].next = 0
  PROVE  Sane(m) /\ Signed(m) = Signed(l) /\ Valids(m) = Valids(l)
<1>1. Len(l) \in Nat /\ \A k \in 1 .. Len(l) : l[k].next \in 0 .. Len(l)
  BY LinksInside
<1>2. \A k \in 1 .. Len(m) : k \in 1 .. Len(l) \/ k = Len(l) + 1
  BY <1>1
<1>3. \A k \in Signed(m) : k \in 1 .. Len(l)
  BY <1>2 DEF Signed
<1>4. Signed(m) = Signed(l)
  BY <1>1, <1>3 DEF Signed
<1>5. Valids(m) = Valids(l)
  BY <1>3, <1>4 DEF Valids
<1>6. \A k \in 1 .. Len(m) - 1 : m[k].size = "ok"
  BY <1>1
<1>7. Len(m) > 1 => 1 \in Signed(m)
  BY <1>1, <1>4
<1>8. \A k \in 1 .. Len(m) : m[k].next # 0 => m[k].next \in Signed(m)
  BY <1>2, <1>4 DEF Sane
<1>9. \A k \in Signed(m) : m[k].val # Absent
  BY <1>3, <1>4 DEF Sane
<1>10. PICK root : Owns(l, root)
  BY DEF Sane
<1>11. PICK r : r = [k \in 1 .. Len(m) |-> IF k \in 1 .. Len(l) THEN root[k] ELSE k]
  OBVIOUS
<1>12. /\ r \in [1 .. Len(m) -> Nat] /\ \A k \in 1 .. Len(l) : r[k] = root[k]
       /\ r[Len(l) + 1] = Len(l) + 1
  <2>1. \A k \in 1 .. Len(l) : k \in 1 .. Len(m) /\ root[k] \in Nat
    BY <1>1, <1>10 DEF Owns
  <2>2. Len(l) + 1 \in 1 .. Len(m) /\ Len(l) + 1 \notin 1 .. Len(l)
    BY <1>1
  <2>3. \A k \in 1 .. Len(m) : k \in Nat
    BY <1>1
  <2>4. QED
    BY <1>11, <2>1, <2>2, <2>3
<1>13. \A k \in 1 .. Len(m) : m[k].next # 0 => r[m[k].next] = r[k]
  <2>1. TAKE k \in 1 .. Len(m)
  <2>2. HAVE m[k].next # 0
  <2>3. k \in 1 .. Len(l) /\ m[k] = l[k]
    BY <1>2, <2>2
  <2>4. l[k].next \in 1 .. Len(l)
    BY <1>1, <2>2, <2>3
  <2>5. root[l[k].next] = root[k]
    BY <1>10, <2>2, <2>3 DEF Owns
  <2>6. QED
    BY <1>12, <2>3, <2>4, <2>5
<1>14. \A k \in 1 .. Len(m) : ~m[k].dataOnly => r[k] = k
  BY <1>2, <1>10, <1>12 DEF Owns
<1>15. Owns(m, r)
  BY <1>12, <1>13, <1>14 DEF Owns
<1>16. QED
  BY <1>4, <1>5, <1>6, <1>7, <1>8, <1>9, <1>15 DEF Sane

\* The record n is linked to the end of the chain that starts at i.
Joined(l, m, i, n) ==
    /\ i \in 1 .. Len(l) /\ n \in Signed(l) /\ l[n].dataOnly /\ l[n].next = 0
    /\ \A k \in 1 .. Len(l) : l[k].next # n
    /\ \E t : /\ t = NvGetDataNvar(l, i, Len(l)) /\ t # n /\ Programmed(l, m, t)
              /\ m[t].next = n /\ m[t].size = l[t].size /\ m[t].signed = l[t].signed
              /\ m[t].valid = l[t].valid /\ m[t].dataOnly = l[t].dataOnly
              /\ m[t].name = l[t].name /\ m[t].guid = l[t].guid /\ m[t].val = l[t].val

LEMMA JoinedSane ==
  ASSUME NEW l, Good(l), Sane(l), NEW m, Good(m), NEW i, NEW n, Joined(l, m, i, n)
  PROVE  Sane(m) /\ Signed(m) = Signed(l) /\ Valids(m) = Valids(l)
<1>1. /\ Len(l) \in Nat /\ \A k \in 1 .. Len(l) : l[k].next \in 0 .. Len(l)
      /\ Signed(l) \in SUBSET (1 .. Len(l))
  BY LinksInside
<1>2. PICK t : /\ t = NvGetDataNvar(l, i, Len(l)) /\ t # n /\ Programmed(l, m, t)
               /\ m[t].next = n /\ m[t].size = l[t].size /\ m[t].signed = l[t].signed
               /\ m[t].valid = l[t].valid /\ m[t].dataOnly = l[t].dataOnly
               /\ m[t].val = l[t].val
  BY DEF Joined
<1>3. PICK root : Owns(l, root)
  BY DEF Sane
<1>4. t \in 1 .. Len(l) /\ root[t] = root[i] /\ i \in 1 .. Len(l) /\ n \in 1 .. Len(l)
  <2>1. i \in 1 .. Len(l)
    BY DEF Joined
  <2>2. QED
    BY <1>1, <1>2, <1>3, <2>1, Tails DEF Joined
<1>5. /\ Len(m) = Len(l) /\ \A k \in 1 .. Len(l) : k # t => m[k] = l[k]
      /\ \A k \in 1 .. Len(l) : /\ m[k].size = l[k].size /\ m[k].signed = l[k].signed
                                /\ m[k].valid = l[k].valid /\ m[k].dataOnly = l[k].dataOnly
                                /\ m[k].val = l[k].val
  BY <1>2 DEF Programmed
<1>6. Signed(m) = Signed(l) /\ Valids(m) = Valids(l)
  <2>1. Signed(m) = Signed(l)
    BY <1>5 DEF Signed
  <2>2. QED
    BY <1>1, <1>5, <2>1 DEF Valids, NvIsValid
<1>7. /\ \A k \in 1 .. Len(m) - 1 : m[k].size = "ok"
      /\ Len(m) > 1 => 1 \in Signed(m)
  BY <1>1, <1>5, <1>6 DEF Sane
<1>8. \A k \in 1 .. Len(m) : m[k].next # 0 => m[k].next \in Signed(m)
  BY <1>2, <1>5, <1>6 DEF Sane, Joined
<1>9. \A k \in Signed(m) : m[k].val # Absent
  BY <1>1, <1>5, <1>6 DEF Sane
<1>10. PICK r : r = [root EXCEPT ![n] = root[i]]
  OBVIOUS
<1>11. /\ r \in [1 .. Len(m) -> Nat] /\ r[n] = root[i]
       /\ \A k \in 1 .. Len(l) : k # n => r[k] = root[k]
  BY <1>3, <1>4, <1>5, <1>10 DEF Owns
<1>12. \A k \in 1 .. Len(m) : m[k].next # 0 => r[m[k].next] = r[k]
  <2>1. TAKE k \in 1 .. Len(m)
  <2>2. HAVE m[k].next # 0
  <2>3. CASE k = t
    BY <1>2, <1>4, <1>11, <2>3
  <2>4. CASE k # t
    <3>1. m[k] = l[k] /\ k \in 1 .. Len(l) /\ l[k].next # n /\ k # n
      BY <1>5, <2>2, <2>4 DEF Joined
    <3>2. l[k].next \in 1 .. Len(l)
      BY <1>1, <2>2, <3>1
    <3>3. root[l[k].next] = root[k]
      BY <1>3, <2>2, <3>1 DEF Owns
    <3>4. QED
      BY <1>11, <3>1, <3>2, <3>3
  <2>5. QED
    BY <2>3, <2>4
<1>13. \A k \in 1 .. Len(m) : ~m[k].dataOnly => r[k] = k
  <2>1. TAKE k \in 1 .. Len(m)
  <2>2. HAVE ~m[k].dataOnly
  <2>3. k \in 1 .. Len(l) /\ ~l[k].dataOnly
    BY <1>5, <2>2
  <2>4. k # n
    BY <2>3 DEF Joined
  <2>5. QED
    BY <1>3, <1>11, <2>3, <2>4 DEF Owns
<1>14. Owns(m, r)
  BY <1>11, <1>12, <1>13 DEF Owns
<1>15. QED
  BY <1>6, <1>7, <1>8, <1>9, <1>14 DEF Sane

\* It changes the value of the variable the chain is of, and no other value.
LEMMA JoinedValues ==
  ASSUME NEW l, Good(l), Sane(l), NEW m, Good(m), NEW i, NEW n, Joined(l, m, i, n),
         NEW g, NEW v, i \in Valids(l)
  PROVE  /\ Of(m, g, v) = Of(l, g, v)
         /\ i \notin Of(l, g, v) => ValueOf(m, g, v) = ValueOf(l, g, v)
         /\ HeadOf(l, g, v) = i => ValueOf(m, g, v) = l[n].val
<1>1. /\ Len(l) \in Nat /\ \A k \in 1 .. Len(l) : l[k].next \in 0 .. Len(l)
      /\ Signed(l) \in SUBSET (1 .. Len(l)) /\ Valids(l) \in SUBSET Signed(l)
  BY LinksInside
<1>2. Sane(m) /\ Signed(m) = Signed(l) /\ Valids(m) = Valids(l)
  BY JoinedSane
<1>3. PICK t : /\ t = NvGetDataNvar(l, i, Len(l)) /\ t # n /\ Programmed(l, m, t)
               /\ m[t].next = n
               /\ m[t].name = l[t].name /\ m[t].guid = l[t].guid /\ m[t].val = l[t].val
  BY DEF Joined
<1>4. PICK root : Owns(l, root)
  BY DEF Sane
<1>5. t \in 1 .. Len(l) /\ root[t] = root[i] /\ i \in 1 .. Len(l) /\ n \in 1 .. Len(l)
  <2>1. i \in 1 .. Len(l)
    BY DEF Joined
  <2>2. QED
    BY <1>1, <1>3, <1>4, <2>1, Tails DEF Joined
<1>6. /\ Len(m) = Len(l)
      /\ \A k \in 1 .. Len(l) : k # t => m[k] = l[k]
      /\ \A k \in 1 .. Len(l) : m[k].name = l[k].name /\ m[k].guid = l[k].guid
  BY <1>3 DEF Programmed
<1>7. Of(m, g, v) = Of(l, g, v)
  <2>1. \A k \in Valids(l) : k \in 1 .. Len(l)
    BY <1>1
  <2>2. QED
    BY <1>2, <1>6, <2>1 DEF Of
<1>8. ASSUME i \notin Of(l, g, v)
      PROVE  ValueOf(m, g, v) = ValueOf(l, g, v)
  <2>1. PICK S : S = {k \in 1 .. Len(l) : root[k] # root[i]}
    OBVIOUS
  <2>2. \A k \in S : k \in 1 .. Len(l) /\ k # t /\ m[k] = l[k]
    BY <1>5, <1>6, <2>1
  <2>3. \A k \in S : l[k].next # 0 => l[k].next \in S
    <3>1. TAKE k \in S
    <3>2. HAVE l[k].next # 0
    <3>3. root[l[k].next] = root[k] /\ root[k] # root[i]
      BY <1>4, <2>1, <3>2 DEF Owns
    <3>4. l[k].next \in 1 .. Len(l)
      BY <1>1, <2>2, <3>2
    <3>5. QED
      BY <2>1, <3>3, <3>4
  <2>4. Holds(l, m, S)
    BY <1>1, <1>6, <2>1, <2>2, <2>3 DEF Holds
  <2>5. \A k \in Valids(l) : k \in 1 .. Len(l) /\ root[k] = k
    BY <1>1, <1>4 DEF Owns, Valids, NvIsValid
  <2>6. \A k \in Of(l, g, v) : k \in Valids(l) /\ k # i
    BY <1>8 DEF Of
  <2>7. \A k \in Of(l, g, v) : k \in S
    BY <2>1, <2>5, <2>6
  <2>8. Of(l, g, v) \in SUBSET S
    BY <2>7
  <2>9. QED
    BY <1>2, <1>7, <2>4, <2>8, ValueKept
<1>9. ASSUME HeadOf(l, g, v) = i
      PROVE  ValueOf(m, g, v) = l[n].val
  <2>1. HeadOf(m, g, v) = i
    BY <1>7, <1>9 DEF HeadOf
  <2>2. l[n].next = 0
    BY DEF Joined
  <2>3. ValueAt(m, i, Len(m)) = l[n].val
    BY <1>2, <1>3, <1>5, <2>2, ValueLinked
  <2>4. QED
    BY <2>1, <2>3 DEF ValueOf
<1>10. QED
  BY <1>7, <1>8, <1>9

---------------------------------------------------------------------------
\* The variables in flash, through every operation.

LEMMA IndexSeen ==
  ASSUME NEW l, Good(l), Sane(l), NEW f \in Nat, NEW e \in Nat, Placed(l, f, e), Settled(l, e),
         NEW g
  PROVE  IndexOf(l, g, f, e) = [v \in Var |-> HeadOf(l, g, v)]
<1>1. \A v \in Var : NvFindVariable(l, g, Walk(l, f, e), v) = HeadOf(l, g, v)
  BY WalkSees
<1>2. QED
  BY <1>1 DEF IndexOf

\* A record is of one variable.
LEMMA OneOwner ==
  ASSUME NEW l, NEW g, NEW v \in Var, NEW w \in Var, NEW i, i \in Of(l, g, v), i \in Of(l, g, w)
  PROVE  v = w
<1>1. v.name = w.name /\ v.guid = w.guid
  BY DEF Of
<1>2. v = [name |-> v.name, guid |-> v.guid] /\ w = [name |-> w.name, guid |-> w.guid]
  BY LogAssumption
<1>3. QED
  BY <1>1, <1>2

\* Two logs with the same records up to e, where the second may link them to the
\* record behind e, read the same up to e.
SameUpTo(l, m, e) ==
    /\ e <= Len(l) /\ e <= Len(m)
    /\ \A k \in 1 .. e :
         /\ m[k].size = l[k].size /\ m[k].signed = l[k].signed /\ m[k].valid = l[k].valid
         /\ m[k].dataOnly = l[k].dataOnly /\ m[k].name = l[k].name /\ m[k].guid = l[k].guid
         /\ m[k].val = l[k].val
         /\ m[k].next = l[k].next \/ (l[k].next = 0 /\ m[k].next = e + 1)

LEMMA RunSame ==
  ASSUME NEW l, Good(l), NEW m, Good(m), NEW f \in 1 .. Area, NEW e \in Nat, SameUpTo(l, m, e), NEW g
  PROVE  /\ IndexOf(m, g, f, e) = IndexOf(l, g, f, e)
         /\ \A i \in 0 .. e : ValueAt(m, i, e) = ValueAt(l, i, e)
<1>1. /\ Len(l) \in Nat /\ l \in Logs /\ Forward(l) /\ e <= Len(l)
      /\ Len(m) \in Nat /\ m \in Logs /\ Forward(m) /\ e <= Len(m)
      /\ \A k \in 1 .. Len(l) : l[k].next \in Nat
  <2>1. Len(l) \in Nat /\ l \in Logs /\ Forward(l) /\ \A k \in 1 .. Len(l) : l[k].next \in Nat
    BY LogSites DEF Good
  <2>2. Len(m) \in Nat /\ m \in Logs /\ Forward(m)
    BY LogSites DEF Good
  <2>3. QED
    BY <2>1, <2>2 DEF SameUpTo
<1>2. \A i : NvIsVariable(m, i, e) <=> NvIsVariable(l, i, e)
  <2>1. TAKE i
  <2>2. CASE i \in 1 .. e
    <3>1. i \in 1 .. Len(l) /\ i \in 1 .. Len(m) /\ i <= e /\ i < e + 1
      BY <1>1, <2>2
    <3>2. /\ m[i].size = l[i].size /\ m[i].signed = l[i].signed
          /\ m[i].next = l[i].next \/ (l[i].next = 0 /\ m[i].next = e + 1)
      BY <2>2 DEF SameUpTo
    <3>3. QED
      BY <3>1, <3>2 DEF NvIsVariable
  <2>3. CASE i \notin 1 .. e
    BY <1>1, <2>3 DEF NvIsVariable
  <2>4. QED
    BY <2>2, <2>3
<1>3. Walk(m, f, e) = Walk(l, f, e) /\ \A i \in Walk(l, f, e) : i \in 1 .. e
  <2>1. f \in Nat /\ 1 <= f
    BY LogAssumption
  <2>2. \A i : NvIsVariable(l, i, e) => i \in 1 .. e
    BY <1>1 DEF NvIsVariable
  <2>3. \A i \in 1 .. e : \A k \in f .. i : m[k].size = l[k].size
    <3>1. TAKE i \in 1 .. e
    <3>2. TAKE k \in f .. i
    <3>3. k \in 1 .. e
      BY <2>1
    <3>4. QED
      BY <3>3 DEF SameUpTo
  <2>4. \A i \in 1 .. e : i \in f .. Len(l) <=> i \in f .. Len(m)
    BY <1>1, <2>1
  <2>5. \A i : i \in Walk(m, f, e) <=> i \in Walk(l, f, e)
    <3>1. TAKE i
    <3>2. CASE NvIsVariable(l, f, e) /\ NvIsVariable(l, i, e)
      <4>1. i \in 1 .. e
        BY <2>2, <3>2
      <4>2. NvIsVariable(m, f, e) /\ NvIsVariable(m, i, e)
        BY <1>2, <3>2
      <4>3. (\A k \in f .. i : m[k].size = "ok") <=> (\A k \in f .. i : l[k].size = "ok")
        BY <2>3, <4>1
      <4>4. i \in f .. Len(l) <=> i \in f .. Len(m)
        BY <2>4, <4>1
      <4>5. QED
        BY <3>2, <4>2, <4>3, <4>4 DEF Walk
    <3>3. CASE ~(NvIsVariable(l, f, e) /\ NvIsVariable(l, i, e))
      <4>1. ~(NvIsVariable(m, f, e) /\ NvIsVariable(m, i, e))
        BY <1>2, <3>3
      <4>2. QED
        BY <3>3, <4>1 DEF Walk
    <3>4. QED
      BY <3>2, <3>3
  <2>6. \A i \in Walk(l, f, e) : NvIsVariable(l, i, e)
    BY <1>1, <2>1, WalkSites
  <2>7. \A i : i \in Walk(m, f, e) => i \in Walk(l, f, e)
    BY <2>5
  <2>8. \A i : i \in Walk(l, f, e) => i \in Walk(m, f, e)
    BY <2>5
  <2>9. Walk(m, f, e) = Walk(l, f, e)
    <3>1. \A i \in Walk(m, f, e) : i \in Walk(l, f, e)
      BY <2>7
    <3>2. \A i \in Walk(l, f, e) : i \in Walk(m, f, e)
      BY <2>8
    <3>3. QED
      BY <3>1, <3>2
  <2>10. QED
    BY <2>2, <2>6, <2>9
<1>4. IndexOf(m, g, f, e) = IndexOf(l, g, f, e)
  <2>1. \A v \in Var : Matches(m, g, Walk(m, f, e), v) = Matches(l, g, Walk(l, f, e), v)
    BY <1>3 DEF Matches, SameUpTo, NvIsValid
  <2>2. \A v \in Var : NvFindVariable(m, g, Walk(m, f, e), v) = NvFindVariable(l, g, Walk(l, f, e), v)
    BY <2>1 DEF NvFindVariable, Matches
  <2>3. QED
    BY <2>2 DEF IndexOf
<1>5. Alike(l, e, m, e, 1 .. e)
  <2>1. 1 .. e \in SUBSET (1 .. Len(l)) /\ 1 .. e \in SUBSET (1 .. Len(m))
    BY <1>1
  <2>2. \A i \in 1 .. e : /\ Linked(l, i, e) <=> Linked(m, i, e)
                          /\ Linked(l, i, e) => m[i].next = l[i].next /\ l[i].next \in 1 .. e
    <3>1. TAKE i \in 1 .. e
    <3>2. m[i].next = l[i].next \/ (l[i].next = 0 /\ m[i].next = e + 1)
      BY DEF SameUpTo
    <3>3. ~NvIsVariable(m, e + 1, e) /\ ~NvIsVariable(l, 0, e)
      BY <1>1 DEF NvIsVariable
    <3>4. NvIsVariable(l, l[i].next, e) => l[i].next \in 1 .. e
      BY <1>1 DEF NvIsVariable
    <3>5. Linked(l, i, e) <=> Linked(m, i, e)
      BY <1>2, <3>2, <3>3 DEF Linked
    <3>6. QED
      BY <3>2, <3>3, <3>4, <3>5 DEF Linked
  <2>3. QED
    BY <2>1, <2>2 DEF Alike
<1>6. \A i \in 1 .. e : NvGetDataNvar(m, i, e) = NvGetDataNvar(l, i, e) /\ NvGetDataNvar(l, i, e) \in 1 .. e
  BY <1>1, <1>5, ChainsAgree
<1>7. \A i \in 1 .. e : m[i].val = l[i].val
  BY DEF SameUpTo
<1>8. \A i \in 0 .. e : i = 0 \/ i \in 1 .. e
  OBVIOUS
<1>9. \A i \in 0 .. e : ValueAt(m, i, e) = ValueAt(l, i, e)
  BY <1>6, <1>7, <1>8 DEF ValueAt
<1>10. QED
  BY <1>4, <1>9

\* The flash operations are clean: power never fails between the three bytes of a
\* link, a delete that reports an error has not taken effect, and no operation
\* reports one while the area has no record.
Orderly == ~TornLink /\ ~EmptyFaults /\ ~LateFaults

RunFound == IndexOf(log, guids, first, end)

\* A signed or linked record is behind the end: the walk still finds the old
\* values, and there is room to write them and the new one to an erased area.
Behind ==
    /\ \A v \in Var : v # op.var => ValueAt(log, RunFound[v], end) = store[v]
    /\ Fits(Append(Survivors(Var), op.var))

Running ==
    /\ Placed(log, first, end) /\ (end = 0 => first = 1)
    /\ \A i \in Valids(log) : log[i].guid < nextGuid
    /\ pc # "recover" => Settled(log, end)
    /\ indexOn => index = RunFound
    /\ ~Settled(log, end) => Behind

\* What is known of the record being written.
Progress ==
    /\ pc \in {"header", "guid", "body", "sign", "link", "delete"} =>
         rec = HeadOf(log, guids, op.var)
    /\ pc \in {"guid", "body", "sign", "link"} =>
         log[end + 1].size = "ok" /\ log[end + 1].valid /\ log[end + 1].next = 0
    /\ pc = "header" /\ rec = 0 /\ GuidCell(op.var) = nextGuid => end + nextGuid + 4 <= Area
    /\ pc = "guid" => end + nextGuid + 4 <= Area
    /\ pc \in {"body", "sign", "link"} => end + nextGuid + 3 <= Area
    /\ pc \in {"sign", "link"} => log[end + 1].val = op.val
    /\ pc = "sign" /\ rec = 0 => /\ log[end + 1].name = op.var.name
                                 /\ guids[log[end + 1].guid] = op.var.guid
                                 /\ log[end + 1].guid < nextGuid
    /\ pc = "link" => log[end + 1].signed /\ log[end + 1].dataOnly
    /\ pc = "delete" => op.val = Absent

SInv ==
    /\ IInv
    /\ store = [v \in Var |-> ValueOf(log, guids, v)]
    /\ Sane(log) /\ Unique(log, guids)
    /\ pc # "off" => Running
    /\ Progress
    /\ pc \in {"off", "idle"} => op = NoOp

\* What a step may leave in flash: nothing that matters, or the whole change.
Sound(m, h) == Good(m) /\ Sane(m) /\ Unique(m, h)
Quiet(m, h) ==
    /\ Sound(m, h) /\ Valids(m) = Valids(log)
    /\ \A i \in Valids(m) : m[i].guid = log[i].guid
    /\ \A v \in Var : HeadOf(m, h, v) = HeadOf(log, guids, v) /\ ValueOf(m, h, v) = store[v]
Changed(m, h) ==
    /\ Sound(m, h)
    /\ \A v \in Var : ValueOf(m, h, v) = IF v = op.var THEN op.val ELSE store[v]

\* Records that are not variables do not matter, nor do GUIDs no variable has.
LEMMA QuietKept ==
  ASSUME SInv, NEW m, Good(m), Sane(m), Len(log) <= Len(m), NEW h, Valids(m) = Valids(log),
         \A i \in Signed(log) : m[i].next = log[i].next /\ m[i].val = log[i].val,
         \A i \in Valids(log) : /\ m[i].name = log[i].name /\ m[i].guid = log[i].guid
                                /\ h[log[i].guid] = guids[log[i].guid]
  PROVE  Quiet(m, h)
<1>1. /\ Good(log) /\ Sane(log) /\ Unique(log, guids)
      /\ store = [v \in Var |-> ValueOf(log, guids, v)]
  BY DEF SInv, IInv
<1>2. \A v : Of(m, h, v) = Of(log, guids, v)
  BY DEF Of
<1>3. /\ Signed(log) \in SUBSET (1 .. Len(log)) /\ Valids(log) \in SUBSET Signed(log)
  BY <1>1, LinksInside
<1>4. \A i \in Signed(log) : i \in 1 .. Len(log) /\ (log[i].next # 0 => log[i].next \in Signed(log))
  BY <1>1, <1>3 DEF Sane
<1>5. Holds(log, m, Signed(log))
  BY <1>3, <1>4 DEF Holds
<1>6. \A v : Of(log, guids, v) \in SUBSET Signed(log)
  BY <1>3 DEF Of
<1>7. \A v \in Var : HeadOf(m, h, v) = HeadOf(log, guids, v)
                     /\ ValueOf(m, h, v) = ValueOf(log, guids, v)
  BY <1>1, <1>2, <1>5, <1>6, ValueKept
<1>8. Unique(m, h)
  BY <1>1, <1>2 DEF Unique
<1>9. \A v \in Var : ValueOf(m, h, v) = store[v]
  BY <1>1, <1>7
<1>10. QED
  BY <1>7, <1>8, <1>9 DEF Quiet, Sound

LEMMA NothingQuiet ==
  ASSUME SInv
  PROVE  Quiet(log, guids)
BY QuietKept DEF SInv, IInv, Good

LEMMA HeaderQuiet ==
  ASSUME SInv, pc = "header", NEW z \in {"ok", "bad"},
         NEW a, a = Append(log, [Torso(rec # 0) EXCEPT !.size = z])
  PROVE  /\ Quiet(a, guids) /\ Len(a) = end + 1 /\ \A i \in 1 .. Len(log) : a[i] = log[i]
         /\ a[end + 1].size = z /\ a[end + 1].valid /\ a[end + 1].next = 0
         /\ a[end + 1].dataOnly = (rec # 0) /\ ~a[end + 1].signed
<1>1. /\ IInv /\ Sane(log) /\ Running /\ Len(log) = end /\ Len(log) \in Nat /\ end \in Nat
      /\ Good(log)
  <2>1. IInv /\ Sane(log) /\ Running /\ Len(log) = end /\ Good(log)
    BY DEF SInv, IInv, Phase
  <2>2. Len(log) \in Nat
    BY <2>1, LinksInside
  <2>3. QED
    BY <2>1, <2>2
<1>2. PICK t \in Record : /\ t = Torso(rec # 0) /\ t.size = "ok" /\ ~t.signed /\ t.valid
                          /\ t.dataOnly = (rec # 0) /\ t.next = 0
  BY TorsoFields
<1>3. PICK r \in Record : /\ r = [t EXCEPT !.size = z] /\ r.size = z /\ r.valid /\ ~r.signed
                          /\ r.next = 0 /\ r.dataOnly = (rec # 0)
  BY <1>2 DEF Record
<1>4. /\ Good(a) /\ Len(a) = Len(log) + 1 /\ a[Len(log) + 1] = r
      /\ \A i \in 1 .. Len(log) : a[i] = log[i]
  <2>1. [Torso(rec # 0) EXCEPT !.size = z] = r
    BY <1>2, <1>3
  <2>2. a = Append(log, r)
    BY <2>1
  <2>3. Good(log) /\ log \in Logs /\ Len(log) < Area /\ (r.dataOnly => Len(log) > 0)
    <3>1. end + nextGuid + 3 <= Area /\ nextGuid \in Nat /\ rec \in Nat /\ rec <= end /\ Area \in Nat
      BY <1>1, LogAssumption DEF IInv, Phase, TypeOK
    <3>2. rec # 0 => Len(log) > 0
      BY <1>1, <3>1
    <3>3. r.dataOnly => Len(log) > 0
      BY <1>3, <3>2
    <3>4. Good(log) /\ log \in Logs
      BY <1>1 DEF Good
    <3>5. Len(log) < Area
      BY <1>1, <3>1
    <3>6. QED
      BY <3>3, <3>4, <3>5
  <2>4. QED
    <3>1. r.next = 0 /\ ~r.signed
      BY <1>3
    <3>2. QED
      BY <2>2, <2>3, <3>1, Appended
<1>5. /\ \A k \in 1 .. Len(log) : log[k].size = "ok"
      /\ Len(log) > 0 => 1 \in Signed(log)
  BY <1>1 DEF Running, Placed
<1>9. ~a[Len(log) + 1].signed /\ a[Len(log) + 1].next = 0
  BY <1>3, <1>4
<1>6. Sane(a) /\ Signed(a) = Signed(log) /\ Valids(a) = Valids(log)
  <2>1. Good(log) /\ Sane(log) /\ Good(a) /\ Len(a) = Len(log) + 1
        /\ \A k \in 1 .. Len(log) : a[k] = log[k]
    BY <1>1, <1>4
  <2>2. QED
    BY <1>5, <1>9, <2>1, AppendedSane
<1>7. Quiet(a, guids)
  <2>1. \A i \in Signed(log) : a[i] = log[i]
    BY <1>4 DEF Signed
  <2>2. \A i \in Valids(log) : a[i] = log[i]
    BY <2>1 DEF Valids
  <2>3. Len(log) <= Len(a)
    BY <1>1, <1>4
  <2>4. QED
    BY <1>4, <1>6, <2>1, <2>2, <2>3, QuietKept
<1>10. a[end + 1] = r /\ Len(a) = end + 1
  BY <1>1, <1>4
<1>8. QED
  <2>1. \A i \in 1 .. Len(log) : a[i] = log[i]
    BY <1>4
  <2>2. r.size = z /\ r.valid /\ ~r.signed /\ r.next = 0 /\ r.dataOnly = (rec # 0)
    BY <1>3, Zenon
  <2>3. a[end + 1].size = z /\ a[end + 1].next = 0
    BY <1>10, <2>2, Zenon
  <2>4. a[end + 1].valid /\ ~a[end + 1].signed
    BY <1>10, <2>2, Zenon
  <2>5. a[end + 1].dataOnly = (rec # 0)
    BY <1>10, <2>2, Zenon
  <2>6. QED
    BY <1>7, <1>10, <2>1, <2>3, <2>4, <2>5, Zenon

\* The GUID goes to a cell no variable refers to.
LEMMA GuidQuiet ==
  ASSUME SInv, pc = "guid", NEW h, GuidAdded(h) \/ h = guids
  PROVE  Quiet(log, h)
<1>1. /\ Running /\ Good(log) /\ Sane(log) /\ guids \in Tables /\ nextGuid \in Nat
  BY DEF SInv, IInv, TypeOK, Tables
<1>2. \A i \in Valids(log) : log[i].guid \in Cells /\ log[i].guid # nextGuid
  <2>1. \A i \in Valids(log) : i \in 1 .. Len(log)
    BY DEF Valids, Signed
  <2>2. \A i \in Valids(log) : log[i].guid < nextGuid
    BY <1>1 DEF Running
  <2>3. log \in Logs
    BY <1>1 DEF Good
  <2>4. \A i \in Valids(log) : log[i].guid \in Cells
    BY <2>1, <2>3, LogSites
  <2>5. QED
    BY <1>1, <2>2, <2>4, LogAssumption DEF Cells
<1>3. \A c \in Cells : c # nextGuid => h[c] = guids[c]
  BY <1>1 DEF GuidAdded, Tables
<1>4. \A i \in Valids(log) : h[log[i].guid] = guids[log[i].guid]
  BY <1>2, <1>3
<1>5. Len(log) <= Len(log)
  BY <1>1, LinksInside
<1>6. QED
  BY <1>1, <1>4, <1>5, QuietKept

\* What is known of a record that is being written.
LEMMA NewRecord ==
  ASSUME SInv, pc \in {"body", "sign", "link"}
  PROVE  /\ IInv /\ Good(log) /\ Sane(log) /\ Unique(log, guids) /\ Running /\ Settled(log, end)
         /\ Len(log) = end + 1 /\ end \in Nat /\ end + 1 \in 1 .. Len(log)
         /\ log[end + 1].size = "ok" /\ log[end + 1].valid /\ log[end + 1].next = 0
         /\ Signed(log) \in SUBSET (1 .. Len(log)) /\ Valids(log) \in SUBSET Signed(log)
         /\ op.var \in Var /\ op.val \in Val /\ op.val # Absent
         /\ store = [v \in Var |-> ValueOf(log, guids, v)] /\ rec = HeadOf(log, guids, op.var)
<1>1. /\ IInv /\ Good(log) /\ Sane(log) /\ Unique(log, guids) /\ Running
      /\ store = [v \in Var |-> ValueOf(log, guids, v)] /\ rec = HeadOf(log, guids, op.var)
      /\ log[end + 1].size = "ok" /\ log[end + 1].valid /\ log[end + 1].next = 0
  BY DEF SInv, IInv, Progress
<1>2. Settled(log, end)
  BY <1>1 DEF Running
<1>3. Len(log) = end + 1 /\ op.var \in Var /\ op.val \in Val
  BY <1>1 DEF IInv, Phase, Calls
<1>4. end \in Nat
  BY <1>1 DEF IInv, TypeOK
<1>5. op.val # Absent
  BY <1>3, LogAssumption
<1>6. Signed(log) \in SUBSET (1 .. Len(log)) /\ Valids(log) \in SUBSET Signed(log)
  BY <1>1, LinksInside
<1>7. end + 1 \in 1 .. Len(log)
  BY <1>3, <1>4
<1>8. QED
  BY <1>1, <1>2, <1>3, <1>4, <1>5, <1>6, <1>7

LEMMA BodyQuiet ==
  ASSUME SInv, pc = "body"
  PROVE  Quiet(Body(log), guids)
<1>1. PICK m : m = Body(log)
  OBVIOUS
<1>2. /\ Good(m) /\ Programmed(log, m, end + 1) /\ ~m[end + 1].signed
      /\ m[end + 1].size = log[end + 1].size /\ m[end + 1].next = log[end + 1].next
      /\ m[end + 1].dataOnly = (rec # 0)
  BY <1>1, NewRecord, BodyOutcome
<1>3. /\ Good(log) /\ Sane(log) /\ Len(log) = end + 1 /\ end \in Nat /\ end + 1 \in 1 .. Len(log)
      /\ log[end + 1].size = "ok" /\ Signed(log) \in SUBSET (1 .. Len(log))
      /\ Valids(log) \in SUBSET Signed(log)
  BY NewRecord
<1>4. ~log[end + 1].signed /\ log[end + 1].dataOnly = (rec # 0)
  BY DEF SInv, IInv, Phase
<1>5. Sane(m)
  <2>1. m[end + 1].dataOnly = log[end + 1].dataOnly
    BY <1>2, <1>4
  <2>2. QED
    BY <1>2, <1>3, <1>4, <2>1, ProgrammedSane
<1>6. Len(m) = Len(log) /\ \A k \in 1 .. Len(log) : k # end + 1 => m[k] = log[k]
  BY <1>2 DEF Programmed
<1>7. \A k \in Signed(log) : k # end + 1 /\ m[k] = log[k]
  BY <1>3, <1>4, <1>6 DEF Signed
<1>8. Signed(m) = Signed(log)
  BY <1>2, <1>4, <1>6 DEF Signed
<1>9. Valids(m) = Valids(log)
  BY <1>7, <1>8 DEF Valids
<1>10. \A k \in Valids(log) : m[k] = log[k]
  BY <1>3, <1>7
<1>11. Len(log) <= Len(m)
  BY <1>3, <1>6
<1>12. Quiet(m, guids)
  BY <1>2, <1>5, <1>7, <1>9, <1>10, <1>11, QuietKept
<1>13. QED
  BY <1>1, <1>12

LEMMA Signs ==
  ASSUME SInv, pc = "sign", NEW m, m = Signature(log)
  PROVE  /\ Good(m) /\ Sane(m) /\ Len(m) = end + 1 /\ end + 1 \in Signed(m)
         /\ Signed(m) = Signed(log) \cup {end + 1} /\ end + 1 \notin Signed(log)
         /\ \A k \in 1 .. end : m[k] = log[k]
         /\ m[end + 1].valid /\ m[end + 1].dataOnly = (rec # 0) /\ m[end + 1].next = 0
         /\ m[end + 1].val = op.val /\ m[end + 1].name = log[end + 1].name
         /\ m[end + 1].guid = log[end + 1].guid
<1>1. /\ IInv /\ Good(log) /\ Sane(log) /\ Len(log) = end + 1 /\ end \in Nat
      /\ end + 1 \in 1 .. Len(log) /\ log[end + 1].size = "ok" /\ log[end + 1].valid
      /\ log[end + 1].next = 0 /\ op.val # Absent
  BY NewRecord
<1>2. /\ ~log[end + 1].signed /\ log[end + 1].dataOnly = (rec # 0) /\ log[end + 1].val = op.val
  BY DEF SInv, IInv, Phase, Progress
<1>3. /\ Good(m) /\ Programmed(log, m, end + 1)
      /\ \E r \in Record :
           /\ m[end + 1] = r /\ r.signed /\ r.size = log[end + 1].size
           /\ r.valid = log[end + 1].valid /\ r.dataOnly = log[end + 1].dataOnly
           /\ r.name = log[end + 1].name /\ r.guid = log[end + 1].guid
           /\ r.val = log[end + 1].val /\ r.next = log[end + 1].next
  BY <1>1, SignatureOutcome
<1>4. PICK r \in Record :
           /\ m[end + 1] = r /\ r.signed /\ r.size = log[end + 1].size
           /\ r.valid = log[end + 1].valid /\ r.dataOnly = log[end + 1].dataOnly
           /\ r.name = log[end + 1].name /\ r.guid = log[end + 1].guid
           /\ r.val = log[end + 1].val /\ r.next = log[end + 1].next
  BY <1>3
<1>5. /\ m[end + 1].signed /\ m[end + 1].size = "ok" /\ m[end + 1].valid
      /\ m[end + 1].dataOnly = log[end + 1].dataOnly /\ m[end + 1].next = log[end + 1].next
      /\ m[end + 1].val # Absent
  BY <1>1, <1>2, <1>4
<1>6. Sane(m)
  BY <1>1, <1>3, <1>5, ProgrammedSane
<1>7. Len(m) = Len(log) /\ \A k \in 1 .. Len(log) : k # end + 1 => m[k] = log[k]
  BY <1>3 DEF Programmed
<1>8. \A k \in 1 .. end : m[k] = log[k]
  BY <1>1, <1>7
<1>9. end + 1 \in Signed(m) /\ end + 1 \notin Signed(log)
  BY <1>1, <1>2, <1>5, <1>7 DEF Signed
<1>10. Signed(m) = Signed(log) \cup {end + 1}
  BY <1>7, <1>9 DEF Signed
<1>11. QED
  BY <1>1, <1>2, <1>3, <1>4, <1>5, <1>6, <1>7, <1>8, <1>9, <1>10

LEMMA SignQuiet ==
  ASSUME SInv, pc = "sign", rec # 0
  PROVE  Quiet(Signature(log), guids)
<1>1. PICK m : m = Signature(log)
  OBVIOUS
<1>2. /\ Good(m) /\ Sane(m) /\ Len(m) = end + 1
      /\ Signed(m) = Signed(log) \cup {end + 1} /\ end + 1 \notin Signed(log)
      /\ \A k \in 1 .. end : m[k] = log[k]
      /\ m[end + 1].dataOnly
  BY <1>1, Signs
<1>3. /\ Len(log) = end + 1 /\ end \in Nat /\ Signed(log) \in SUBSET (1 .. Len(log))
      /\ Valids(log) \in SUBSET Signed(log)
  BY NewRecord
<1>4. \A k \in Signed(log) : k \in 1 .. end /\ m[k] = log[k]
  BY <1>2, <1>3
<1>5. Valids(m) = Valids(log)
  BY <1>2, <1>4 DEF Valids, NvIsValid
<1>6. \A k \in Valids(log) : m[k] = log[k]
  BY <1>3, <1>4
<1>7. Len(log) <= Len(m)
  BY <1>2, <1>3
<1>8. Quiet(m, guids)
  BY <1>2, <1>4, <1>5, <1>6, <1>7, QuietKept
<1>9. QED
  BY <1>1, <1>8

LEMMA SignChanged ==
  ASSUME SInv, pc = "sign", rec = 0, NEW m, m = Signature(log)
  PROVE  /\ Changed(m, guids)
         /\ \A v \in Var : HeadOf(m, guids, v) = IF v = op.var THEN end + 1
                                                 ELSE HeadOf(log, guids, v)
         /\ Valids(m) = Valids(log) \cup {end + 1} /\ m[end + 1].guid < nextGuid
         /\ m[end + 1].next = 0
<1>1. /\ Good(m) /\ Sane(m) /\ Len(m) = end + 1 /\ end + 1 \in Signed(m)
      /\ Signed(m) = Signed(log) \cup {end + 1} /\ end + 1 \notin Signed(log)
      /\ \A k \in 1 .. end : m[k] = log[k]
      /\ m[end + 1].valid /\ ~m[end + 1].dataOnly /\ m[end + 1].next = 0
      /\ m[end + 1].val = op.val /\ m[end + 1].name = log[end + 1].name
      /\ m[end + 1].guid = log[end + 1].guid
  BY Signs
<1>2. /\ Good(log) /\ Sane(log) /\ Unique(log, guids)
      /\ Len(log) = end + 1 /\ end \in Nat /\ Signed(log) \in SUBSET (1 .. Len(log))
      /\ Valids(log) \in SUBSET Signed(log) /\ op.var \in Var
      /\ store = [v \in Var |-> ValueOf(log, guids, v)] /\ rec = HeadOf(log, guids, op.var)
  BY NewRecord
<1>3. /\ log[end + 1].name = op.var.name /\ guids[log[end + 1].guid] = op.var.guid
      /\ log[end + 1].guid < nextGuid
  BY DEF SInv, Progress
<1>4. \A k \in Signed(log) : k \in 1 .. end /\ m[k] = log[k]
  BY <1>1, <1>2
<1>5. Valids(m) = Valids(log) \cup {end + 1}
  BY <1>1, <1>4 DEF Valids, NvIsValid
<1>6. \A k \in Valids(log) : m[k] = log[k] /\ k \in Signed(log)
  BY <1>2, <1>4
<1>7. end + 1 \in Of(m, guids, op.var)
  BY <1>1, <1>3, <1>5 DEF Of
<1>8. Of(log, guids, op.var) = {}
  BY <1>2, HeadSite
<1>9. Of(m, guids, op.var) = {end + 1}
  <2>1. \A k \in Of(m, guids, op.var) : k = end + 1
    BY <1>5, <1>6, <1>8 DEF Of
  <2>2. QED
    BY <1>7, <2>1
<1>10. \A v \in Var : v # op.var => Of(m, guids, v) = Of(log, guids, v)
  <2>1. TAKE v \in Var
  <2>2. HAVE v # op.var
  <2>3. end + 1 \notin Of(m, guids, v)
    BY <1>2, <1>7, <2>2, OneOwner
  <2>4. \A k \in Of(m, guids, v) : k \in Of(log, guids, v)
    BY <1>5, <1>6, <2>3 DEF Of
  <2>5. \A k \in Of(log, guids, v) : k \in Of(m, guids, v)
    BY <1>5, <1>6 DEF Of
  <2>6. QED
    BY <2>4, <2>5
<1>11. Holds(log, m, Signed(log))
  <2>1. \A k \in Signed(log) : log[k].next # 0 => log[k].next \in Signed(log)
    BY <1>2 DEF Sane
  <2>2. Len(log) <= Len(m)
    BY <1>1, <1>2
  <2>3. QED
    BY <1>2, <1>4, <2>1, <2>2 DEF Holds
<1>12. \A v \in Var : v # op.var => /\ HeadOf(m, guids, v) = HeadOf(log, guids, v)
                                    /\ ValueOf(m, guids, v) = store[v]
  <2>1. TAKE v \in Var
  <2>2. HAVE v # op.var
  <2>3. Of(log, guids, v) \in SUBSET Signed(log)
    BY <1>2 DEF Of
  <2>4. Of(m, guids, v) = Of(log, guids, v)
    BY <1>10, <2>2
  <2>5. HeadOf(m, guids, v) = HeadOf(log, guids, v) /\ ValueOf(m, guids, v) = ValueOf(log, guids, v)
    BY <1>1, <1>2, <1>11, <2>3, <2>4, ValueKept
  <2>6. QED
    BY <1>2, <2>5
<1>13. HeadOf(m, guids, op.var) = end + 1
  BY <1>1, <1>9, HeadSite
<1>14. ValueOf(m, guids, op.var) = op.val
  <2>1. PICK root : Owns(m, root)
    BY <1>1 DEF Sane
  <2>2. end + 1 \in 1 .. Len(m) /\ m \in Logs /\ Forward(m) /\ Len(m) \in Nat
    BY <1>1, <1>2 DEF Good
  <2>3. ~Linked(m, end + 1, Len(m))
    BY <1>1, <2>2, LinksAll
  <2>4. NvGetDataNvar(m, end + 1, Len(m)) = end + 1
    BY <2>2, <2>3, ChainsEnd DEF NvGetDataNvar
  <2>5. end + 1 # 0
    BY <1>2
  <2>6. QED
    BY <1>1, <1>13, <2>4, <2>5 DEF ValueOf, ValueAt
<1>15. Unique(m, guids)
  <2>1. \A v \in Var : v = op.var \/ Of(m, guids, v) = Of(log, guids, v)
    BY <1>10
  <2>2. QED
    BY <1>2, <1>9, <2>1 DEF Unique
<1>16. QED
  BY <1>1, <1>3, <1>5, <1>12, <1>13, <1>14, <1>15 DEF Changed, Sound

LEMMA LinkChanged ==
  ASSUME SInv, pc = "link", NEW m, m = Link(log)
  PROVE  /\ Changed(m, guids) /\ Len(m) = end + 1 /\ Valids(m) = Valids(log)
         /\ Signed(m) = Signed(log)
         /\ \A v \in Var : HeadOf(m, guids, v) = HeadOf(log, guids, v)
         /\ \A k \in Valids(m) : m[k].guid = log[k].guid
         /\ SameUpTo(log, m, end)
<1>1. /\ IInv /\ Good(log) /\ Sane(log) /\ Unique(log, guids) /\ Running /\ Settled(log, end)
      /\ Len(log) = end + 1 /\ end \in Nat /\ end + 1 \in 1 .. Len(log)
      /\ log[end + 1].size = "ok" /\ log[end + 1].next = 0
      /\ Signed(log) \in SUBSET (1 .. Len(log)) /\ Valids(log) \in SUBSET Signed(log)
      /\ op.var \in Var
      /\ store = [v \in Var |-> ValueOf(log, guids, v)] /\ rec = HeadOf(log, guids, op.var)
  BY NewRecord
<1>2. log[end + 1].signed /\ log[end + 1].dataOnly /\ log[end + 1].val = op.val /\ rec # 0
  BY DEF SInv, IInv, Phase, Progress
<1>3. rec \in Of(log, guids, op.var) /\ rec \in Valids(log) /\ rec \in 1 .. Len(log)
  BY <1>1, <1>2, HeadSite DEF Of
<1>4. PICK n : n = end + 1
  OBVIOUS
<1>5. n \in {end + 1, Far} /\ Link(log) = [log EXCEPT ![lastRec].next = n]
  BY <1>4 DEF Link, new
<1>6. m = [log EXCEPT ![lastRec].next = n]
  BY <1>5
<1>7. /\ lastRec \in 1 .. end /\ Good(m) /\ Programmed(log, m, lastRec)
      /\ \E r \in Record :
           /\ m[lastRec] = r /\ r.next = n
           /\ r.size = log[lastRec].size /\ r.signed = log[lastRec].signed
           /\ r.valid = log[lastRec].valid /\ r.dataOnly = log[lastRec].dataOnly
           /\ r.name = log[lastRec].name /\ r.guid = log[lastRec].guid
           /\ r.val = log[lastRec].val
  BY <1>1, <1>5, <1>6, LinkOutcome
<1>8. PICK t : t = lastRec
  OBVIOUS
<1>9. /\ t \in 1 .. end /\ Programmed(log, m, t) /\ m[t].next = end + 1
      /\ m[t].size = log[t].size /\ m[t].signed = log[t].signed
      /\ m[t].valid = log[t].valid /\ m[t].dataOnly = log[t].dataOnly
      /\ m[t].name = log[t].name /\ m[t].guid = log[t].guid /\ m[t].val = log[t].val
  BY <1>4, <1>7, <1>8
<1>10. t = NvGetDataNvar(log, rec, Len(log))
  <2>1. end <= Len(log)
    BY <1>1
  <2>2. NvGetDataNvar(log, rec, end) = NvGetDataNvar(log, rec, Len(log))
    BY <1>1, <1>3, <2>1, TailSeen
  <2>3. QED
    BY <1>8, <2>2 DEF lastRec
<1>11. log[t].next = 0
  <2>1. PICK root : Owns(log, root)
    BY <1>1 DEF Sane
  <2>2. QED
    BY <1>1, <1>3, <1>10, <2>1, Tails
<1>12. Joined(log, m, rec, end + 1)
  <2>1. end + 1 \in Signed(log)
    BY <1>1, <1>2 DEF Signed
  <2>2. t # end + 1
    BY <1>1, <1>9
  <2>3. \A k \in 1 .. Len(log) : log[k].next # end + 1
    <3>1. \A k \in 1 .. Len(log) : log[k].next <= end
      BY <1>1 DEF Settled
    <3>2. QED
      BY <1>1, <3>1
  <2>4. \E s : /\ s = NvGetDataNvar(log, rec, Len(log)) /\ s # end + 1 /\ Programmed(log, m, s)
               /\ m[s].next = end + 1 /\ m[s].size = log[s].size /\ m[s].signed = log[s].signed
               /\ m[s].valid = log[s].valid /\ m[s].dataOnly = log[s].dataOnly
               /\ m[s].name = log[s].name /\ m[s].guid = log[s].guid /\ m[s].val = log[s].val
    BY <1>9, <1>10, <2>2
  <2>5. QED
    BY <1>1, <1>2, <1>3, <2>1, <2>3, <2>4 DEF Joined
<1>13. Sane(m) /\ Signed(m) = Signed(log) /\ Valids(m) = Valids(log)
  BY <1>1, <1>7, <1>12, JoinedSane
<1>14. \A v \in Var : /\ Of(m, guids, v) = Of(log, guids, v)
                      /\ rec \notin Of(log, guids, v) => ValueOf(m, guids, v) = ValueOf(log, guids, v)
                      /\ HeadOf(log, guids, v) = rec => ValueOf(m, guids, v) = log[end + 1].val
  BY <1>1, <1>3, <1>7, <1>12, JoinedValues
<1>15. \A v \in Var : v # op.var => rec \notin Of(log, guids, v)
  BY <1>1, <1>3, OneOwner
<1>16. \A v \in Var : ValueOf(m, guids, v) = IF v = op.var THEN op.val ELSE store[v]
  BY <1>1, <1>2, <1>14, <1>15
<1>17. Unique(m, guids)
  BY <1>1, <1>14 DEF Unique
<1>18. \A v \in Var : HeadOf(m, guids, v) = HeadOf(log, guids, v)
  BY <1>14 DEF HeadOf
<1>19. Len(m) = Len(log) /\ \A k \in 1 .. Len(log) : k # t => m[k] = log[k]
  BY <1>9 DEF Programmed
<1>20. \A k \in Valids(m) : m[k].guid = log[k].guid
  <2>1. \A k \in Valids(m) : k \in 1 .. Len(log)
    BY <1>1, <1>13
  <2>2. QED
    BY <1>9, <1>19, <2>1
<1>21. SameUpTo(log, m, end)
  <2>1. \A k \in 1 .. end : k \in 1 .. Len(log)
    BY <1>1
  <2>2. end <= Len(log) /\ end <= Len(m)
    BY <1>1, <1>19
  <2>3. QED
    BY <1>9, <1>11, <1>19, <2>1, <2>2 DEF SameUpTo
<1>22. QED
  BY <1>1, <1>7, <1>13, <1>16, <1>17, <1>18, <1>19, <1>20, <1>21 DEF Changed, Sound

LEMMA DeleteChanged ==
  ASSUME SInv, pc = "delete", NEW m, m = Invalid(log)
  PROVE  /\ Changed(m, guids) /\ Len(m) = Len(log) /\ Valids(m) \in SUBSET Valids(log)
         /\ Signed(m) = Signed(log)
         /\ \A k \in 1 .. Len(log) : m[k].size = log[k].size /\ m[k].next = log[k].next
         /\ \A v \in Var : HeadOf(m, guids, v) = IF v = op.var THEN 0 ELSE HeadOf(log, guids, v)
         /\ \A k \in Valids(m) : m[k] = log[k]
<1>1. /\ IInv /\ Good(log) /\ Sane(log) /\ Unique(log, guids) /\ op.val = Absent
      /\ store = [v \in Var |-> ValueOf(log, guids, v)] /\ rec = HeadOf(log, guids, op.var)
      /\ rec # 0 /\ op.var \in Var
  BY DEF SInv, IInv, Phase, Calls, Progress
<1>2. /\ Signed(log) \in SUBSET (1 .. Len(log)) /\ Valids(log) \in SUBSET Signed(log)
      /\ Len(log) \in Nat
  BY <1>1, LinksInside
<1>3. /\ rec \in 1 .. Len(log) /\ Good(m) /\ Programmed(log, m, rec)
      /\ \E r \in Record :
           /\ m[rec] = r /\ ~r.valid /\ r.size = log[rec].size
           /\ r.signed = log[rec].signed /\ r.dataOnly = log[rec].dataOnly
           /\ r.val = log[rec].val /\ r.next = log[rec].next
  BY <1>1, InvalidOutcome
<1>4. /\ ~m[rec].valid /\ m[rec].size = log[rec].size
      /\ m[rec].signed = log[rec].signed /\ m[rec].dataOnly = log[rec].dataOnly
      /\ m[rec].val = log[rec].val /\ m[rec].next = log[rec].next
  BY <1>3
<1>5. /\ Len(m) = Len(log) /\ \A k \in 1 .. Len(log) : k # rec => m[k] = log[k]
      /\ \A k \in 1 .. Len(log) : /\ m[k].size = log[k].size /\ m[k].signed = log[k].signed
                                  /\ m[k].next = log[k].next /\ m[k].val = log[k].val
  BY <1>3, <1>4 DEF Programmed
<1>6. Signed(m) = Signed(log)
  BY <1>5 DEF Signed
<1>7. rec \in Of(log, guids, op.var) /\ rec \in Valids(log) /\ rec \in Signed(log)
  BY <1>1, <1>2, HeadSite DEF Of
<1>8. Sane(m)
  <2>1. m[rec].size = "ok" /\ log[rec].val # Absent
    BY <1>1, <1>4, <1>7 DEF Signed, Sane
  <2>2. QED
    BY <1>1, <1>3, <1>4, <2>1, ProgrammedSane
<1>9. \A k \in Valids(m) : k # rec /\ k \in 1 .. Len(log) /\ m[k] = log[k] /\ k \in Valids(log)
  BY <1>2, <1>4, <1>5, <1>6 DEF Valids, NvIsValid
<1>10. \A k \in Valids(log) : k # rec => m[k] = log[k] /\ k \in Valids(m)
  <2>1. \A k \in Valids(log) : k \in Signed(log) /\ k \in 1 .. Len(log)
    BY <1>2
  <2>2. QED
    BY <1>5, <1>6, <2>1 DEF Valids
<1>11. Of(m, guids, op.var) = {}
  <2>1. \A k \in Of(m, guids, op.var) : k \in Of(log, guids, op.var) /\ k # rec
    BY <1>9 DEF Of
  <2>2. QED
    BY <1>1, <1>7, <2>1 DEF Unique
<1>12. \A v \in Var : v # op.var => Of(m, guids, v) = Of(log, guids, v)
  <2>1. TAKE v \in Var
  <2>2. HAVE v # op.var
  <2>3. rec \notin Of(log, guids, v)
    BY <1>1, <1>7, <2>2, OneOwner
  <2>4. \A k \in Of(m, guids, v) : k \in Of(log, guids, v)
    BY <1>9 DEF Of
  <2>5. \A k \in Of(log, guids, v) : k \in Of(m, guids, v)
    BY <1>10, <2>3 DEF Of
  <2>6. QED
    BY <2>4, <2>5
<1>13. Holds(log, m, Signed(log))
  <2>1. \A k \in Signed(log) : /\ m[k].next = log[k].next /\ m[k].val = log[k].val
                               /\ log[k].next # 0 => log[k].next \in Signed(log)
    BY <1>1, <1>2, <1>5 DEF Sane
  <2>2. Len(log) <= Len(m)
    BY <1>2, <1>5
  <2>3. QED
    BY <1>2, <2>1, <2>2 DEF Holds
<1>14. \A v \in Var : v # op.var => /\ HeadOf(m, guids, v) = HeadOf(log, guids, v)
                                    /\ ValueOf(m, guids, v) = store[v]
  <2>1. TAKE v \in Var
  <2>2. HAVE v # op.var
  <2>3. Of(log, guids, v) \in SUBSET Signed(log)
    BY <1>2 DEF Of
  <2>4. Of(m, guids, v) = Of(log, guids, v)
    BY <1>12, <2>2
  <2>5. HeadOf(m, guids, v) = HeadOf(log, guids, v) /\ ValueOf(m, guids, v) = ValueOf(log, guids, v)
    BY <1>1, <1>3, <1>8, <1>13, <2>3, <2>4, ValueKept
  <2>6. QED
    BY <1>1, <2>5
<1>15. HeadOf(m, guids, op.var) = 0 /\ ValueOf(m, guids, op.var) = op.val
  BY <1>1, <1>11 DEF HeadOf, ValueOf, ValueAt
<1>16. Unique(m, guids)
  <2>1. \A v \in Var : Of(m, guids, v) = {} \/ Of(m, guids, v) = Of(log, guids, v)
    BY <1>11, <1>12
  <2>2. QED
    BY <1>1, <2>1 DEF Unique
<1>17. Valids(m) \in SUBSET Valids(log)
  BY <1>9
<1>18. QED
  BY <1>3, <1>5, <1>6, <1>8, <1>9, <1>14, <1>15, <1>16, <1>17 DEF Changed, Sound

---------------------------------------------------------------------------
\* What every reader of the area finds.

LEMMA ObservedValues ==
  ASSUME Sound(log', guids'), Observe
  PROVE  store' = [v \in Var |-> ValueOf(log', guids', v)]
<1>1. PICK l, g : l = log' /\ g = guids' /\ store' = Contents(l, g)
  BY DEF Observe
<1>2. Good(l) /\ Sane(l)
  BY <1>1 DEF Sound
<1>3. Contents(l, g) = [v \in Var |-> ValueOf(l, g, v)]
  BY <1>2, ContentsAre
<1>4. QED
  BY <1>1, <1>3

LEMMA Runs ==
  ASSUME SInv, pc \notin {"off", "recover"}
  PROVE  /\ Good(log) /\ Sane(log) /\ Settled(log, end) /\ Placed(log, first, end)
         /\ first \in Nat /\ end \in Nat /\ end <= Len(log)
         /\ RunFound = [v \in Var |-> HeadOf(log, guids, v)]
         /\ indexOn => index = [v \in Var |-> HeadOf(log, guids, v)]
         /\ \A v \in Var : HeadOf(log, guids, v) # 0 => NvIsVariable(log, HeadOf(log, guids, v), end)
         /\ \A v \in Var : ValueAt(log, HeadOf(log, guids, v), end) = store[v]
<1>1. /\ Good(log) /\ Sane(log) /\ Running /\ store = [v \in Var |-> ValueOf(log, guids, v)]
      /\ first \in 1 .. Area /\ end \in 0 .. Area
  BY DEF SInv, IInv, TypeOK
<1>2. /\ Settled(log, end) /\ Placed(log, first, end) /\ (indexOn => index = RunFound)
  BY <1>1 DEF Running
<1>3. first \in Nat /\ end \in Nat /\ end <= Len(log)
  BY <1>1, <1>2, LogAssumption DEF Placed
<1>4. RunFound = [v \in Var |-> HeadOf(log, guids, v)]
  BY <1>1, <1>2, <1>3, IndexSeen DEF RunFound
<1>5. \A v \in Var : HeadOf(log, guids, v) # 0 => NvIsVariable(log, HeadOf(log, guids, v), end)
  <2>1. TAKE v \in Var
  <2>2. HAVE HeadOf(log, guids, v) # 0
  <2>3. PICK h : h = HeadOf(log, guids, v)
    OBVIOUS
  <2>4. h \in Of(log, guids, v)
    BY <1>1, <2>2, <2>3, HeadSite
  <2>5. h \in Valids(log) /\ h \in Signed(log)
    BY <2>4 DEF Of, Valids
  <2>6. h <= end
    BY <1>2, <2>5 DEF Settled
  <2>7. \A i \in 1 .. Len(log) : log[i].next <= end
    BY <1>2 DEF Settled
  <2>8. NvIsVariable(log, h, end)
    BY <1>1, <1>3, <2>5, <2>6, <2>7, LinksFollowed
  <2>9. QED
    BY <2>3, <2>8
<1>6. \A v \in Var : ValueAt(log, HeadOf(log, guids, v), end) = store[v]
  <2>1. TAKE v \in Var
  <2>2. HeadOf(log, guids, v) \in 0 .. Len(log)
    BY <1>1, HeadSite
  <2>3. ValueAt(log, HeadOf(log, guids, v), end) = ValueAt(log, HeadOf(log, guids, v), Len(log))
    BY <1>1, <1>2, <1>3, <2>2, ChainSeen
  <2>4. QED
    BY <1>1, <2>3 DEF ValueOf
<1>7. QED
  BY <1>1, <1>2, <1>3, <1>4, <1>5, <1>6

\* The index and the walk find the same record.
LEMMA FindsRecord ==
  ASSUME SInv, pc = "idle", NEW v \in Var
  PROVE  FindRecord(v) = HeadOf(log, guids, v)
<1>1. /\ RunFound = [w \in Var |-> HeadOf(log, guids, w)]
      /\ indexOn => index = [w \in Var |-> HeadOf(log, guids, w)]
      /\ \A w \in Var : HeadOf(log, guids, w) # 0 => NvIsVariable(log, HeadOf(log, guids, w), end)
  BY Runs
<1>2. NvFindVariable(log, guids, Walk(log, first, end), v) = HeadOf(log, guids, v)
  <2>1. RunFound[v] = NvFindVariable(log, guids, Walk(log, first, end), v)
    BY DEF RunFound, IndexOf
  <2>2. QED
    BY <1>1, <2>1
<1>3. CASE indexOn
  <2>1. \A w \in Var : index[w] = HeadOf(log, guids, w)
    BY <1>1, <1>3
  <2>2. index[v] # 0 => NvIsVariable(log, index[v], end)
    BY <1>1, <2>1
  <2>3. \A w \in Var : index[w] = 0 \/ NvIsVariable(log, index[w], end)
    BY <1>1, <2>1
  <2>4. QED
    BY <1>3, <2>1, <2>2, <2>3 DEF FindRecord
<1>4. CASE ~indexOn
  BY <1>2, <1>4 DEF FindRecord
<1>5. QED
  BY <1>3, <1>4

\* When nothing is behind the end, the walk of the state after a step finds
\* every variable.
LEMMA RunningKept ==
  ASSUME Good(log'), Sane(log'), first' \in Nat, end' \in Nat,
         Placed(log', first', end'), end' = 0 => first' = 1, Settled(log', end'),
         \A i \in Valids(log') : log'[i].guid < nextGuid',
         indexOn' => index' = [v \in Var |-> HeadOf(log', guids', v)]
  PROVE  Running'
<1>1. IndexOf(log', guids', first', end') = [v \in Var |-> HeadOf(log', guids', v)]
  BY IndexSeen
<1>2. indexOn' => index' = RunFound'
  BY <1>1 DEF RunFound
<1>3. QED
  BY <1>2 DEF Running

---------------------------------------------------------------------------
\* The invariant of the variables, action by action.

LEMMA BootValues ==
  ASSUME SInv, Boot
  PROVE  SInv'
<1>1. /\ pc = "off" /\ pc' = "idle" /\ indexOn' = TRUE
      /\ first' = Enumerate(log).first /\ end' = Enumerate(log).end
      /\ nextGuid' = Enumerate(log).nextGuid
      /\ index' = IndexOf(log, guids, Enumerate(log).first, Enumerate(log).end)
      /\ UNCHANGED <<log, guids, op, rec, result, faults, store>>
  BY DEF Boot
<1>2. IInv'
  BY BootInv DEF SInv
<1>3. /\ Good(log) /\ Sane(log) /\ Unique(log, guids) /\ op = NoOp
      /\ store = [v \in Var |-> ValueOf(log, guids, v)]
  BY <1>1 DEF SInv, IInv
<1>4. /\ Placed(log, first', end') /\ Settled(log, end') /\ first' \in Nat /\ end' \in Nat
      /\ end' = 0 => first' = 1
      /\ \A i \in Valids(log) : log[i].guid < nextGuid'
  BY <1>1, <1>3, BootPlaced
<1>5. index' = [v \in Var |-> HeadOf(log, guids, v)]
  <2>1. IndexOf(log, guids, first', end') = [v \in Var |-> HeadOf(log, guids, v)]
    BY <1>3, <1>4, IndexSeen
  <2>2. QED
    BY <1>1, <2>1
<1>6. Running'
  BY <1>1, <1>3, <1>4, <1>5, RunningKept
<1>7. Progress'
  BY <1>1 DEF Progress
<1>8. QED
  BY <1>1, <1>2, <1>3, <1>6, <1>7 DEF SInv

LEMMA ExitValues ==
  ASSUME SInv, ExitBootServices
  PROVE  SInv'
<1>1. /\ pc = "idle" /\ indexOn' = FALSE
      /\ UNCHANGED <<log, guids, first, end, nextGuid, pc, op, rec, result, faults, store>>
  BY DEF ExitBootServices, info
<1>2. IInv'
  BY ExitInv DEF SInv
<1>3. Running'
  <2>1. Running /\ Settled(log, end)
    BY <1>1, Runs DEF SInv
  <2>2. QED
    BY <1>1, <2>1 DEF Running
<1>4. Progress'
  BY <1>1 DEF Progress
<1>5. QED
  BY <1>1, <1>2, <1>3, <1>4 DEF SInv

LEMMA SetVariableValues ==
  ASSUME SInv, NEW v \in Var, NEW d \in Val \cup {Absent}, SetVariable(v, d)
  PROVE  SInv' /\ UNCHANGED store /\ op = NoOp
<1>1. PICK r : r = FindRecord(v)
  OBVIOUS
<1>2. PICK size : size = IF r = 0 /\ GuidCell(v) = nextGuid THEN 2 ELSE 1
  OBVIOUS
<1>3. /\ pc = "idle"
      /\ UNCHANGED <<log, guids, first, end, nextGuid, last, index, indexOn, faults, store>>
      /\ \/ pc' = "idle" /\ op' = NoOp
         \/ op' = [var |-> v, val |-> d] /\ rec' = r /\ pc' = "delete" /\ d = Absent
         \/ op' = [var |-> v, val |-> d] /\ rec' = r /\ pc' = "header" /\ IsEnoughSpace(size)
         \/ pc' = "recover"
  BY <1>1, <1>2 DEF SetVariable, Finish, info
<1>4. IInv'
  BY SetVariableInv DEF SInv
<1>5. /\ Running /\ Sane(log) /\ Unique(log, guids) /\ op = NoOp
      /\ store = [w \in Var |-> ValueOf(log, guids, w)] /\ Settled(log, end)
  BY <1>3 DEF SInv, Running
<1>6. Running'
  BY <1>3, <1>5 DEF Running, RunFound
<1>7. r = HeadOf(log, guids, v)
  BY <1>1, <1>3, FindsRecord
<1>8. [var |-> v, val |-> d].var = v /\ [var |-> v, val |-> d].val = d
  OBVIOUS
<1>9. end \in Nat /\ nextGuid \in Nat /\ Area \in Nat
  BY LogAssumption DEF SInv, IInv, TypeOK
<1>10. pc' = "header" /\ op'.var = v /\ rec' = 0 /\ GuidCell(op.var)' = nextGuid' => size = 2
  <2>1. ASSUME pc' = "header", op'.var = v, rec' = 0, GuidCell(op.var)' = nextGuid'
        PROVE  size = 2
    <3>1. GuidCell(op.var)' = GuidCell(v)
      BY <1>3, <2>1 DEF GuidCell
    <3>2. rec' = r
      BY <1>3, <2>1
    <3>3. QED
      BY <1>2, <1>3, <2>1, <3>1, <3>2
  <2>2. QED
    BY <2>1
<1>11. size = 2 /\ IsEnoughSpace(size) => end + nextGuid + 4 <= Area
  BY <1>9 DEF IsEnoughSpace
<1>12. Progress'
  <2>1. CASE pc' \in {"idle", "recover"}
    BY <2>1 DEF Progress
  <2>2. CASE pc' = "delete"
    <3>1. op'.var = v /\ op'.val = Absent /\ rec' = r
      BY <1>3, <1>8, <2>2
    <3>2. HeadOf(log', guids', op'.var) = r
      BY <1>3, <1>7, <3>1
    <3>3. QED
      BY <2>2, <3>1, <3>2 DEF Progress
  <2>3. CASE pc' = "header"
    <3>1. op'.var = v /\ rec' = r /\ IsEnoughSpace(size)
      BY <1>3, <1>8, <2>3
    <3>2. HeadOf(log', guids', op'.var) = r
      BY <1>3, <1>7, <3>1
    <3>3. rec' = 0 /\ GuidCell(op.var)' = nextGuid' => end' + nextGuid' + 4 <= Area
      BY <1>3, <1>10, <1>11, <2>3, <3>1
    <3>4. QED
      BY <2>3, <3>1, <3>2, <3>3 DEF Progress
  <2>4. QED
    BY <1>3, <2>1, <2>2, <2>3
<1>13. pc' \in {"off", "idle"} => op' = NoOp
  BY <1>3
<1>14. QED
  BY <1>3, <1>4, <1>5, <1>6, <1>12, <1>13 DEF SInv

\* The change that is left in flash: none, or that of the variable being set.
LEMMA Outcome ==
  ASSUME Orderly, SInv, pc \notin {"off", "recover"}, NEW p \in Partial
  PROVE  \/ Quiet(p[1], p[2])
         \/ Changed(p[1], p[2]) /\ op # NoOp
<1>1. /\ IInv /\ Good(log) /\ guids \in Tables /\ ~TornLink
      /\ pc \in {"idle", "header", "guid", "body", "sign", "link", "delete"}
  BY DEF SInv, IInv, TypeOK, Tables, Orderly
<1>2. Quiet(log, guids)
  BY NothingQuiet
<1>3. pc # "idle" => op # NoOp
  <2>1. pc # "idle" => op.var \in Var
    BY <1>1 DEF IInv, Phase, Calls
  <2>2. NoOp.var = Absent
    BY DEF NoOp
  <2>3. Absent \notin Var
    BY LogAssumption
  <2>4. QED
    BY <2>1, <2>2, <2>3
<1>4. CASE pc = "header"
  <2>1. p \in {<<log, guids>>, <<Header(log), guids>>,
               <<Append(log, [Torso(rec # 0) EXCEPT !.size = "bad"]), guids>>}
    BY <1>4 DEF Partial
  <2>2. PICK a : a = Append(log, [Torso(rec # 0) EXCEPT !.size = "ok"])
    OBVIOUS
  <2>3. PICK b : b = Append(log, [Torso(rec # 0) EXCEPT !.size = "bad"])
    OBVIOUS
  <2>4. Header(log) = a
    BY <2>2, TorsoType DEF Header
  <2>5. Quiet(a, guids)
    BY <1>4, <2>2, HeaderQuiet
  <2>6. Quiet(b, guids)
    BY <1>4, <2>3, HeaderQuiet
  <2>7. p \in {<<log, guids>>, <<a, guids>>, <<b, guids>>}
    BY <2>1, <2>3, <2>4
  <2>8. p[2] = guids /\ p[1] \in {log, a, b}
    BY <2>7
  <2>9. QED
    BY <1>2, <2>5, <2>6, <2>8
<1>5. CASE pc = "guid"
  <2>1. p \in {<<log, guids>>, <<log, [guids EXCEPT ![nextGuid] = Torn]>>, <<log, GuidEntry(guids)>>}
    BY <1>5 DEF Partial
  <2>2. PICK t : t = [guids EXCEPT ![nextGuid] = Torn]
    OBVIOUS
  <2>3. GuidAdded(t)
    BY <2>2 DEF GuidAdded
  <2>4. GuidAdded(GuidEntry(guids))
    <3>1. op.var.guid \in Guids
      BY <1>1, <1>5 DEF IInv, Phase, Calls, Guids
    <3>2. QED
      BY <3>1 DEF GuidEntry, GuidAdded
  <2>5. p \in {<<log, guids>>, <<log, t>>, <<log, GuidEntry(guids)>>}
    BY <2>1, <2>2
  <2>6. p[1] = log /\ (p[2] = guids \/ GuidAdded(p[2]))
    BY <2>3, <2>4, <2>5
  <2>7. Quiet(log, p[2])
    BY <1>5, <2>6, GuidQuiet
  <2>8. QED
    BY <2>6, <2>7
<1>6. CASE pc = "body"
  <2>1. p \in {<<log, guids>>, <<Body(log), guids>>}
    BY <1>6 DEF Partial
  <2>2. QED
    BY <1>2, <1>6, <2>1, BodyQuiet
<1>7. CASE pc = "sign"
  <2>1. p \in {<<log, guids>>, <<Signature(log), guids>>}
    BY <1>7 DEF Partial
  <2>2. PICK m : m = Signature(log)
    OBVIOUS
  <2>3. rec = 0 => Changed(m, guids)
    BY <1>7, <2>2, SignChanged
  <2>4. rec # 0 => Quiet(m, guids)
    BY <1>7, <2>2, SignQuiet
  <2>5. QED
    BY <1>2, <1>3, <1>7, <2>1, <2>2, <2>3, <2>4
<1>8. CASE pc = "link"
  <2>1. p \in {<<log, guids>>, <<Link(log), guids>>}
    <3>1. {TornLink} \ {FALSE} = {}
      BY <1>1, LogAssumption
    <3>2. p \in {<<log, guids>>, <<Link(log), guids>>} \cup
                {<<[log EXCEPT ![lastRec].next = Far], guids>> : t \in {TornLink} \ {FALSE}}
      BY <1>8 DEF Partial
    <3>3. QED
      BY <3>1, <3>2, Zenon
  <2>2. PICK m : m = Link(log)
    OBVIOUS
  <2>3. Changed(m, guids)
    BY <1>8, <2>2, LinkChanged
  <2>4. QED
    BY <1>2, <1>3, <1>8, <2>1, <2>2, <2>3
<1>9. CASE pc = "delete"
  <2>1. p \in {<<log, guids>>, <<Invalid(log), guids>>}
    BY <1>9 DEF Partial
  <2>2. PICK m : m = Invalid(log)
    OBVIOUS
  <2>3. Changed(m, guids)
    BY <1>9, <2>2, DeleteChanged
  <2>4. QED
    BY <1>2, <1>3, <1>9, <2>1, <2>2, <2>3
<1>10. CASE pc = "idle"
  <2>1. p \in {<<log, guids>>}
    BY <1>10 DEF Partial
  <2>2. QED
    BY <1>2, <2>1
<1>11. QED
  BY <1>1, <1>4, <1>5, <1>6, <1>7, <1>8, <1>9, <1>10

LEMMA QuietStore ==
  ASSUME SInv, Quiet(log', guids'), Observe
  PROVE  store' = store /\ store' = [v \in Var |-> ValueOf(log', guids', v)]
<1>1. store' = [v \in Var |-> ValueOf(log', guids', v)]
  BY ObservedValues DEF Quiet
<1>2. \A v \in Var : ValueOf(log', guids', v) = store[v]
  BY DEF Quiet
<1>3. store = [v \in Var |-> ValueOf(log, guids, v)]
  BY DEF SInv
<1>4. QED
  BY <1>1, <1>2, <1>3

LEMMA ChangedStore ==
  ASSUME SInv, Changed(log', guids'), Observe
  PROVE  /\ store' = [store EXCEPT ![op.var] = op.val]
         /\ store' = [v \in Var |-> ValueOf(log', guids', v)]
<1>1. store' = [v \in Var |-> ValueOf(log', guids', v)]
  BY ObservedValues DEF Changed
<1>2. \A v \in Var : ValueOf(log', guids', v) = IF v = op.var THEN op.val ELSE store[v]
  BY DEF Changed
<1>3. store = [v \in Var |-> ValueOf(log, guids, v)]
  BY DEF SInv
<1>4. store \in [Var -> Val \cup {Absent}]
  BY DEF SInv, IInv, TypeOK
<1>5. store' = [v \in Var |-> IF v = op.var THEN op.val ELSE store[v]]
  BY <1>1, <1>2
<1>6. QED
  BY <1>1, <1>4, <1>5

LEMMA CrashValues ==
  ASSUME Orderly, SInv, Crash
  PROVE  /\ SInv' /\ pc' = "off"
         /\ store' = store \/ (op # NoOp /\ store' = [store EXCEPT ![op.var] = op.val])
<1>1. pc \notin {"off", "recover"} /\ pc' = "off" /\ op' = NoOp /\ Observe
  BY DEF Crash
<1>2. PICK p \in Partial : log' = p[1] /\ guids' = p[2]
  BY DEF Crash
<1>3. Quiet(log', guids') \/ (Changed(log', guids') /\ op # NoOp)
  BY <1>1, <1>2, Outcome
<1>4. Sound(log', guids')
  BY <1>3 DEF Quiet, Changed
<1>5. /\ store' = store \/ (op # NoOp /\ store' = [store EXCEPT ![op.var] = op.val])
      /\ store' = [v \in Var |-> ValueOf(log', guids', v)]
  BY <1>1, <1>3, QuietStore, ChangedStore
<1>6. IInv'
  BY CrashInv DEF SInv
<1>7. Progress'
  BY <1>1 DEF Progress
<1>8. QED
  BY <1>1, <1>4, <1>5, <1>6, <1>7 DEF SInv, Sound

\* A record or a GUID that is of no variable does not change what is found.
LEMMA QuietRuns ==
  ASSUME SInv, pc \notin {"off", "recover"}, Quiet(log', guids'),
         Signed(log) \in SUBSET Signed(log'), UNCHANGED <<first, index, indexOn>>,
         end' \in Nat, end <= end', end' <= Len(log'), end' = end \/ end > 0,
         nextGuid' \in Nat, nextGuid <= nextGuid', \A k \in 1 .. end' : log'[k].size = "ok",
         \A k \in 1 .. Len(log') : log'[k].next <= end'
  PROVE  Running' /\ Settled(log', end')
<1>1. /\ Settled(log, end) /\ Placed(log, first, end) /\ first \in Nat /\ end \in Nat
      /\ indexOn => index = [v \in Var |-> HeadOf(log, guids, v)]
  BY Runs
<1>2. /\ Good(log) /\ (end = 0 => first = 1) /\ \A i \in Valids(log) : log[i].guid < nextGuid
      /\ nextGuid \in Nat
  BY DEF SInv, IInv, TypeOK, Running
<1>3. /\ Good(log') /\ Sane(log') /\ Valids(log') = Valids(log)
      /\ \A i \in Valids(log') : log'[i].guid = log[i].guid
      /\ \A v \in Var : HeadOf(log', guids', v) = HeadOf(log, guids, v)
  BY DEF Quiet, Sound
<1>4. \A i \in Valids(log) : i \in Nat /\ i <= end /\ first <= i /\ log[i].guid \in Nat
  <2>1. TAKE i \in Valids(log)
  <2>2. i <= end
    BY <1>1 DEF Settled
  <2>3. first <= i
    BY <1>1, <2>2 DEF Placed
  <2>4. i \in 1 .. Len(log) /\ log \in Logs
    BY <1>2, LinksInside DEF Valids, Signed, Good
  <2>5. Len(log) \in Nat /\ log[i].guid \in Cells
    BY <2>4, LogSites
  <2>6. i \in Nat /\ log[i].guid \in Nat
    BY <2>4, <2>5, LogAssumption DEF Cells
  <2>7. QED
    BY <2>2, <2>3, <2>6
<1>5. end' > 0 => first \in Signed(log') /\ first <= end' /\ 1 \in Signed(log')
  <2>1. HAVE end' > 0
  <2>2. end > 0
    BY <1>1, <2>1
  <2>3. first \in Signed(log) /\ first <= end /\ 1 \in Signed(log)
    BY <1>1, <2>2 DEF Placed
  <2>4. QED
    BY <1>1, <2>3
<1>6. Placed(log', first', end')
  <2>1. \A i \in Valids(log') : i <= end' => first' <= i
    BY <1>3, <1>4
  <2>2. QED
    BY <1>5, <2>1 DEF Placed
<1>7. Settled(log', end')
  <2>1. \A i \in Valids(log') : i <= end'
    BY <1>1, <1>3, <1>4
  <2>2. QED
    BY <2>1 DEF Settled
<1>8. \A i \in Valids(log') : log'[i].guid < nextGuid'
  BY <1>2, <1>3, <1>4
<1>9. indexOn' => index' = [v \in Var |-> HeadOf(log', guids', v)]
  BY <1>1, <1>3
<1>10. end' = 0 => first' = 1
  BY <1>1, <1>2
<1>11. first' \in Nat
  BY <1>1
<1>12. QED
  BY <1>3, <1>6, <1>7, <1>8, <1>9, <1>10, <1>11, RunningKept

LEMMA HeaderValues ==
  ASSUME SInv, ProgramHeader
  PROVE  SInv' /\ store' = store /\ op' = op
<1>1. /\ pc = "header" /\ log' = Header(log) /\ Observe
      /\ pc' = IF rec = 0 /\ GuidCell(op.var) = nextGuid THEN "guid" ELSE "body"
      /\ UNCHANGED <<guids, first, end, nextGuid, last, index, indexOn, op, rec, result, faults>>
  BY DEF ProgramHeader, info
<1>2. log' = Append(log, [Torso(rec # 0) EXCEPT !.size = "ok"])
  <2>1. Torso(rec # 0) = [Torso(rec # 0) EXCEPT !.size = "ok"]
    BY TorsoType
  <2>2. QED
    BY <1>1, <2>1 DEF Header
<1>3. /\ Quiet(log', guids) /\ Len(log') = end + 1 /\ \A i \in 1 .. Len(log) : log'[i] = log[i]
      /\ log'[end + 1].size = "ok" /\ log'[end + 1].valid /\ log'[end + 1].next = 0
      /\ log'[end + 1].dataOnly = (rec # 0) /\ ~log'[end + 1].signed
  <2>1. PICK a : a = Append(log, [Torso(rec # 0) EXCEPT !.size = "ok"])
    OBVIOUS
  <2>2. /\ Quiet(a, guids) /\ Len(a) = end + 1 /\ \A i \in 1 .. Len(log) : a[i] = log[i]
        /\ a[end + 1].size = "ok" /\ a[end + 1].valid /\ a[end + 1].next = 0
        /\ a[end + 1].dataOnly = (rec # 0) /\ ~a[end + 1].signed
    <3>1. Quiet(a, guids) /\ Len(a) = end + 1
      BY <1>1, <2>1, HeaderQuiet
    <3>6. \A i \in 1 .. Len(log) : a[i] = log[i]
      BY <1>1, <2>1, HeaderQuiet
    <3>2. a[end + 1].size = "ok" /\ a[end + 1].valid /\ a[end + 1].next = 0
      BY <1>1, <2>1, HeaderQuiet
    <3>3. a[end + 1].dataOnly = (rec # 0)
      BY <1>1, <2>1, HeaderQuiet
    <3>4. ~a[end + 1].signed
      BY <1>1, <2>1, HeaderQuiet
    <3>5. QED
      BY <3>1, <3>2, <3>3, <3>4, <3>6
  <2>3. log' = a
    BY <1>2, <2>1
  <2>4. QED
    BY <2>2, <2>3
<1>4. /\ Len(log) = end /\ end \in Nat /\ nextGuid \in Nat /\ Good(log) /\ Settled(log, end)
      /\ Placed(log, first, end) /\ rec = HeadOf(log, guids, op.var)
      /\ end + nextGuid + 3 <= Area /\ op.var \in Var
      /\ rec = 0 /\ GuidCell(op.var) = nextGuid => end + nextGuid + 4 <= Area
  <2>1. Len(log) = end /\ Good(log) /\ end + nextGuid + 3 <= Area /\ op.var \in Var
    BY <1>1 DEF SInv, IInv, Phase, Calls
  <2>2. end \in Nat /\ Settled(log, end) /\ Placed(log, first, end)
    BY <1>1, Runs
  <2>3. /\ rec = HeadOf(log, guids, op.var)
        /\ rec = 0 /\ GuidCell(op.var) = nextGuid => end + nextGuid + 4 <= Area
    BY <1>1 DEF SInv, Progress
  <2>4. nextGuid \in Nat
    BY DEF SInv, IInv, TypeOK
  <2>5. QED
    BY <2>1, <2>2, <2>3, <2>4
<1>5. Running'
  <2>1. \A k \in Signed(log) : k \in Signed(log')
    BY <1>3, <1>4 DEF Signed
  <2>2. \A k \in 1 .. end : log'[k].size = "ok"
    BY <1>3, <1>4 DEF Placed
  <2>3. \A k \in 1 .. Len(log') : log'[k].next <= end
    <3>1. \A k \in 1 .. Len(log') : k \in 1 .. Len(log) \/ k = end + 1
      BY <1>3, <1>4
    <3>2. QED
      BY <1>3, <1>4, <3>1 DEF Settled
  <2>4. end <= end /\ end <= Len(log') /\ nextGuid <= nextGuid
    BY <1>3, <1>4
  <2>5. QED
    BY <1>1, <1>3, <1>4, <2>1, <2>2, <2>3, <2>4, QuietRuns
<1>6. IInv'
  BY ProgramHeaderInv DEF SInv
<1>7. store' = store /\ store' = [v \in Var |-> ValueOf(log', guids', v)]
  BY <1>1, <1>3, QuietStore
<1>8. Sane(log') /\ Unique(log', guids')
  BY <1>1, <1>3 DEF Quiet, Sound
<1>9. HeadOf(log', guids', op'.var) = rec'
  BY <1>1, <1>3, <1>4 DEF Quiet
<1>10. Progress'
  <2>1. CASE pc' = "guid"
    BY <1>1, <1>3, <1>4, <1>9, <2>1 DEF Progress
  <2>2. CASE pc' = "body"
    BY <1>1, <1>3, <1>4, <1>9, <2>2 DEF Progress
  <2>3. QED
    BY <1>1, <2>1, <2>2
<1>11. pc' \notin {"off", "idle"}
  BY <1>1
<1>12. QED
  BY <1>1, <1>5, <1>6, <1>7, <1>8, <1>10, <1>11 DEF SInv

LEMMA GuidValues ==
  ASSUME SInv, ProgramGuid
  PROVE  SInv' /\ store' = store /\ op' = op
<1>1. /\ pc = "guid" /\ guids' = GuidEntry(guids) /\ nextGuid' = nextGuid + 1 /\ pc' = "body"
      /\ UNCHANGED <<log, first, end, last, index, indexOn, op, rec, result, faults>> /\ Observe
  BY DEF ProgramGuid
<1>2. Quiet(log, guids')
  <2>1. op.var.guid \in Guids
    BY <1>1 DEF SInv, IInv, Phase, Calls, Guids
  <2>2. GuidAdded(guids')
    BY <1>1, <2>1 DEF GuidEntry, GuidAdded
  <2>3. QED
    BY <1>1, <2>2, GuidQuiet
<1>3. /\ end \in Nat /\ nextGuid \in Nat /\ Good(log) /\ Settled(log, end) /\ end <= Len(log)
      /\ Placed(log, first, end) /\ rec = HeadOf(log, guids, op.var) /\ op.var \in Var
      /\ log[end + 1].size = "ok" /\ log[end + 1].valid /\ log[end + 1].next = 0
      /\ end + nextGuid + 4 <= Area
  <2>1. Good(log) /\ op.var \in Var
    BY <1>1 DEF SInv, IInv, Phase, Calls
  <2>2. end \in Nat /\ Settled(log, end) /\ Placed(log, first, end) /\ end <= Len(log)
    BY <1>1, Runs
  <2>3. /\ rec = HeadOf(log, guids, op.var) /\ end + nextGuid + 4 <= Area
        /\ log[end + 1].size = "ok" /\ log[end + 1].valid /\ log[end + 1].next = 0
    BY <1>1 DEF SInv, Progress
  <2>4. nextGuid \in Nat
    BY DEF SInv, IInv, TypeOK
  <2>5. QED
    BY <2>1, <2>2, <2>3, <2>4
<1>4. Running'
  <2>1. \A k \in 1 .. end : log[k].size = "ok"
    BY <1>3 DEF Placed
  <2>2. \A k \in 1 .. Len(log) : log[k].next <= end
    BY <1>3 DEF Settled
  <2>3. end <= end /\ nextGuid <= nextGuid + 1 /\ nextGuid + 1 \in Nat
    BY <1>3
  <2>4. QED
    BY <1>1, <1>2, <1>3, <2>1, <2>2, <2>3, QuietRuns
<1>5. IInv'
  BY ProgramGuidInv DEF SInv
<1>6. store' = store /\ store' = [v \in Var |-> ValueOf(log', guids', v)]
  BY <1>1, <1>2, QuietStore
<1>7. Sane(log') /\ Unique(log', guids')
  BY <1>1, <1>2 DEF Quiet, Sound
<1>8. HeadOf(log', guids', op'.var) = rec'
  BY <1>1, <1>2, <1>3 DEF Quiet
<1>9. Progress'
  BY <1>1, <1>3, <1>8 DEF Progress
<1>10. QED
  BY <1>1, <1>4, <1>5, <1>6, <1>7, <1>9 DEF SInv

LEMMA BodyValues ==
  ASSUME SInv, ProgramBody
  PROVE  SInv' /\ store' = store /\ op' = op
<1>1. /\ pc = "body" /\ log' = Body(log) /\ pc' = "sign" /\ Observe
      /\ UNCHANGED <<guids, first, end, nextGuid, last, index, indexOn, op, rec, result, faults>>
  BY DEF ProgramBody, info
<1>2. Quiet(log', guids')
  <2>1. Quiet(Body(log), guids)
    BY <1>1, BodyQuiet
  <2>2. QED
    BY <1>1, <2>1
<1>3. /\ IInv /\ Good(log) /\ Len(log) = end + 1 /\ end \in Nat /\ end + 1 \in 1 .. Len(log)
      /\ log[end + 1].size = "ok" /\ log[end + 1].valid /\ log[end + 1].next = 0
      /\ op.var \in Var /\ rec = HeadOf(log, guids, op.var)
      /\ Signed(log) \in SUBSET (1 .. Len(log))
  BY <1>1, NewRecord
<1>4. /\ ~log[end + 1].signed /\ (rec = 0 => GuidCell(op.var) < nextGuid)
      /\ end + nextGuid + 3 <= Area /\ nextGuid \in Nat
  BY <1>1 DEF SInv, IInv, TypeOK, Phase, Progress
<1>5. /\ Programmed(log, log', end + 1) /\ ~log'[end + 1].signed
      /\ log'[end + 1].size = "ok" /\ log'[end + 1].valid /\ log'[end + 1].next = 0
      /\ log'[end + 1].val = op.val
      /\ rec = 0 => log'[end + 1].guid = GuidCell(op.var) /\ log'[end + 1].name = op.var.name
  BY <1>1, <1>3, BodyOutcome
<1>6. rec = 0 => guids[GuidCell(op.var)] = op.var.guid
  BY <1>4, CellFound
<1>7. Settled(log, end) /\ Placed(log, first, end)
  BY <1>1, Runs
<1>8. Len(log') = Len(log) /\ \A k \in 1 .. Len(log) : k # end + 1 => log'[k] = log[k]
  BY <1>5 DEF Programmed
<1>9. Running'
  <2>1. \A k \in Signed(log) : k \in Signed(log')
    BY <1>3, <1>4, <1>8 DEF Signed
  <2>2. \A k \in 1 .. end : log'[k].size = "ok"
    BY <1>3, <1>7, <1>8 DEF Placed
  <2>3. \A k \in 1 .. Len(log') : log'[k].next <= end
    BY <1>3, <1>5, <1>7, <1>8 DEF Settled
  <2>4. end <= end /\ end <= Len(log') /\ nextGuid <= nextGuid
    BY <1>3, <1>4, <1>8
  <2>5. QED
    BY <1>1, <1>2, <1>3, <1>4, <2>1, <2>2, <2>3, <2>4, QuietRuns
<1>10. IInv'
  BY ProgramBodyInv DEF SInv
<1>11. store' = store /\ store' = [v \in Var |-> ValueOf(log', guids', v)]
  BY <1>1, <1>2, QuietStore
<1>12. Sane(log') /\ Unique(log', guids')
  BY <1>2 DEF Quiet, Sound
<1>13. HeadOf(log', guids', op'.var) = rec'
  BY <1>1, <1>2, <1>3 DEF Quiet
<1>14. Progress'
  BY <1>1, <1>4, <1>5, <1>6, <1>13 DEF Progress
<1>15. QED
  BY <1>1, <1>9, <1>10, <1>11, <1>12, <1>14 DEF SInv

\* A complete record is inside the end.
LEMMA CompletedRuns ==
  ASSUME SInv, pc \in {"sign", "link"}, Good(log'), Sane(log'), Len(log') = end + 1, end' = end + 1,
         UNCHANGED <<first, nextGuid>>, Signed(log) \in SUBSET Signed(log'),
         end + 1 \in Signed(log'),
         \A i \in Valids(log') : (i \in Valids(log) \/ i = end + 1) /\ log'[i].guid < nextGuid,
         indexOn' => index' = [v \in Var |-> HeadOf(log', guids', v)]
  PROVE  Running'
<1>1. Settled(log, end) /\ Placed(log, first, end) /\ first \in Nat /\ end \in Nat
  BY Runs
<1>2. end = 0 => first = 1
  BY DEF SInv, Running
<1>3. /\ \A i \in 1 .. Len(log') : log'[i].next \in 0 .. Len(log')
      /\ Signed(log') \in SUBSET (1 .. Len(log')) /\ Valids(log') \in SUBSET Signed(log')
  BY LinksInside
<1>4. \A k \in 1 .. end + 1 : log'[k].size = "ok"
  <2>1. \A k \in 1 .. end + 1 : k = end + 1 \/ k \in 1 .. Len(log') - 1
    BY <1>1
  <2>2. log'[end + 1].size = "ok"
    BY DEF Signed
  <2>3. QED
    BY <2>1, <2>2 DEF Sane
<1>5. first \in Signed(log') /\ first <= end + 1 /\ 1 \in Signed(log')
  <2>1. CASE end = 0
    BY <1>2, <2>1
  <2>2. CASE end # 0
    <3>1. first \in Signed(log) /\ first <= end /\ 1 \in Signed(log)
      BY <1>1, <2>2 DEF Placed
    <3>2. QED
      BY <1>1, <3>1
  <2>3. QED
    BY <2>1, <2>2
<1>6. \A i \in Valids(log') : first <= i /\ i <= end + 1
  <2>1. TAKE i \in Valids(log')
  <2>2. i \in 1 .. end + 1
    BY <1>3
  <2>3. i \in Valids(log) => i <= end
    BY <1>1 DEF Settled
  <2>4. i \in Valids(log) => first <= i
    BY <1>1, <2>3 DEF Placed
  <2>5. QED
    BY <1>1, <1>5, <2>2, <2>4
<1>7. Placed(log', first', end')
  BY <1>1, <1>4, <1>5, <1>6 DEF Placed
<1>8. Settled(log', end')
  BY <1>1, <1>3, <1>6 DEF Settled
<1>9. end' # 0 /\ end' \in Nat /\ first' \in Nat /\ \A i \in Valids(log') : log'[i].guid < nextGuid'
  BY <1>1
<1>10. QED
  BY <1>7, <1>8, <1>9, RunningKept

\* What a call that has succeeded has done.
Done == /\ pc' = "idle" /\ op # NoOp /\ op' = NoOp /\ result' = "success"
        /\ store' = [store EXCEPT ![op.var] = op.val] /\ store'[op.var] = op.val

LEMMA CallInProgress ==
  ASSUME SInv, pc \in {"header", "guid", "body", "sign", "link", "delete", "recover"}
  PROVE  op # NoOp /\ op.var \in Var /\ store \in [Var -> Val \cup {Absent}]
<1>1. op.var \in Var /\ store \in [Var -> Val \cup {Absent}]
  BY DEF SInv, IInv, TypeOK, Phase, Calls
<1>2. NoOp.var = Absent /\ Absent \notin Var
  BY LogAssumption DEF NoOp
<1>3. QED
  BY <1>1, <1>2

LEMMA SignatureValues ==
  ASSUME SInv, ProgramSignature
  PROVE  SInv' /\ ((store' = store /\ op' = op) \/ Done)
<1>1. /\ pc = "sign" /\ log' = Signature(log) /\ Observe
      /\ UNCHANGED <<guids, first, nextGuid, indexOn, faults>>
      /\ \/ rec = 0 /\ Complete
         \/ rec # 0 /\ pc' = "link" /\ UNCHANGED <<end, last, index, op, rec, result>>
  BY DEF ProgramSignature
<1>2. /\ Good(log') /\ Sane(log') /\ Len(log') = end + 1 /\ end + 1 \in Signed(log')
      /\ Signed(log') = Signed(log) \cup {end + 1} /\ end + 1 \notin Signed(log)
      /\ \A k \in 1 .. end : log'[k] = log[k]
      /\ log'[end + 1].valid /\ log'[end + 1].dataOnly = (rec # 0) /\ log'[end + 1].next = 0
      /\ log'[end + 1].val = op.val /\ log'[end + 1].guid = log[end + 1].guid
  <2>1. PICK m : m = Signature(log)
    OBVIOUS
  <2>2. /\ Good(m) /\ Sane(m) /\ Len(m) = end + 1 /\ end + 1 \in Signed(m)
        /\ Signed(m) = Signed(log) \cup {end + 1} /\ end + 1 \notin Signed(log)
        /\ \A k \in 1 .. end : m[k] = log[k]
        /\ m[end + 1].valid /\ m[end + 1].dataOnly = (rec # 0) /\ m[end + 1].next = 0
        /\ m[end + 1].val = op.val /\ m[end + 1].guid = log[end + 1].guid
    BY <1>1, <2>1, Signs
  <2>3. log' = m
    BY <1>1, <2>1
  <2>4. QED
    BY <2>2, <2>3
<1>3. /\ Good(log) /\ Settled(log, end) /\ Len(log) = end + 1 /\ end \in Nat
      /\ op.var \in Var /\ rec = HeadOf(log, guids, op.var)
      /\ Signed(log) \in SUBSET (1 .. Len(log)) /\ Valids(log) \in SUBSET Signed(log)
  BY <1>1, NewRecord
<1>4. end + nextGuid + 3 <= Area /\ nextGuid \in Nat
  BY <1>1 DEF SInv, IInv, TypeOK, Progress
<1>5. /\ Placed(log, first, end) /\ \A i \in Valids(log) : log[i].guid < nextGuid
      /\ indexOn => index = [v \in Var |-> HeadOf(log, guids, v)]
  BY <1>1, Runs DEF SInv, Running
<1>6. IInv'
  BY ProgramSignatureInv DEF SInv
<1>7. CASE rec # 0
  <2>1. pc' = "link" /\ UNCHANGED <<end, last, index, op, rec, result>>
    BY <1>1, <1>7
  <2>2. Quiet(log', guids')
    <3>1. Quiet(Signature(log), guids)
      BY <1>1, <1>7, SignQuiet
    <3>2. QED
      BY <1>1, <3>1
  <2>3. Running'
    <3>1. Signed(log) \in SUBSET Signed(log')
      BY <1>2
    <3>2. \A k \in 1 .. end : log'[k].size = "ok"
      BY <1>2, <1>5 DEF Placed
    <3>3. \A k \in 1 .. Len(log') : log'[k].next <= end
      <4>1. \A k \in 1 .. Len(log') : k \in 1 .. end \/ k = end + 1
        BY <1>2, <1>3
      <4>2. \A k \in 1 .. end : log[k].next <= end
        BY <1>3 DEF Settled
      <4>3. QED
        BY <1>2, <1>3, <4>1, <4>2
    <3>4. end <= end /\ end <= Len(log') /\ nextGuid <= nextGuid
      BY <1>2, <1>3, <1>4
    <3>5. QED
      BY <1>1, <1>3, <1>4, <2>1, <2>2, <3>1, <3>2, <3>3, <3>4, QuietRuns
  <2>4. store' = store /\ store' = [v \in Var |-> ValueOf(log', guids', v)]
    BY <1>1, <2>2, QuietStore
  <2>5. Unique(log', guids')
    BY <2>2 DEF Quiet, Sound
  <2>6. HeadOf(log', guids', op'.var) = rec'
    BY <1>3, <2>1, <2>2 DEF Quiet
  <2>7. log'[end + 1].size = "ok" /\ log'[end + 1].signed
    BY <1>2 DEF Signed
  <2>8. Progress'
    BY <1>1, <1>2, <1>4, <1>7, <2>1, <2>6, <2>7 DEF Progress
  <2>9. QED
    BY <1>2, <1>6, <2>1, <2>3, <2>4, <2>5, <2>8 DEF SInv
<1>8. CASE rec = 0
  <2>1. /\ end' = end + 1 /\ pc' = "idle" /\ op' = NoOp /\ result' = "success"
        /\ index' = IF indexOn /\ rec = 0 THEN [index EXCEPT ![op.var] = end + 1] ELSE index
    BY <1>1, <1>8 DEF Complete, Finish, new
  <2>2. /\ Changed(log', guids')
        /\ \A v \in Var : HeadOf(log', guids', v) = IF v = op.var THEN end + 1
                                                    ELSE HeadOf(log, guids, v)
        /\ Valids(log') = Valids(log) \cup {end + 1} /\ log'[end + 1].guid < nextGuid
    <3>1. PICK m : m = Signature(log)
      OBVIOUS
    <3>2. /\ Changed(m, guids)
          /\ \A v \in Var : HeadOf(m, guids, v) = IF v = op.var THEN end + 1
                                                  ELSE HeadOf(log, guids, v)
          /\ Valids(m) = Valids(log) \cup {end + 1} /\ m[end + 1].guid < nextGuid
      BY <1>1, <1>8, <3>1, SignChanged
    <3>3. log' = m /\ guids' = guids
      BY <1>1, <3>1
    <3>4. QED
      BY <3>2, <3>3
  <2>3. indexOn' => index' = [v \in Var |-> HeadOf(log', guids', v)]
    <3>1. HAVE indexOn'
    <3>2. index = [v \in Var |-> HeadOf(log, guids, v)] /\ index' = [index EXCEPT ![op.var] = end + 1]
      BY <1>1, <1>5, <1>8, <2>1, <3>1
    <3>3. index' = [v \in Var |-> IF v = op.var THEN end + 1 ELSE HeadOf(log, guids, v)]
      BY <3>2
    <3>4. QED
      BY <2>2, <3>3
  <2>4. \A i \in Valids(log') : (i \in Valids(log) \/ i = end + 1) /\ log'[i].guid < nextGuid
    <3>1. \A i \in Valids(log) : i \in 1 .. end
      BY <1>2, <1>3
    <3>2. QED
      BY <1>2, <1>5, <2>2, <3>1
  <2>5. Signed(log) \in SUBSET Signed(log')
    BY <1>2
  <2>6. Running'
    BY <1>1, <1>2, <2>1, <2>3, <2>4, <2>5, CompletedRuns
  <2>7. /\ store' = [store EXCEPT ![op.var] = op.val]
        /\ store' = [v \in Var |-> ValueOf(log', guids', v)]
    BY <1>1, <2>2, ChangedStore
  <2>8. Unique(log', guids')
    BY <2>2 DEF Changed, Sound
  <2>9. Progress'
    BY <2>1 DEF Progress
  <2>10. op # NoOp /\ store \in [Var -> Val \cup {Absent}]
    BY <1>1, CallInProgress
  <2>11. Done
    BY <1>3, <2>1, <2>7, <2>10 DEF Done
  <2>12. QED
    BY <1>2, <1>6, <2>1, <2>6, <2>7, <2>8, <2>9, <2>11 DEF SInv
<1>9. QED
  BY <1>7, <1>8

LEMMA LinkValues ==
  ASSUME SInv, ProgramLink
  PROVE  SInv' /\ Done
<1>1. /\ pc = "link" /\ log' = Link(log) /\ Observe
      /\ UNCHANGED <<guids, first, nextGuid, indexOn, faults>>
      /\ end' = end + 1 /\ pc' = "idle" /\ op' = NoOp /\ result' = "success"
      /\ index' = IF indexOn /\ rec = 0 THEN [index EXCEPT ![op.var] = end + 1] ELSE index
  BY DEF ProgramLink, Complete, Finish, new
<1>2. rec # 0 /\ log[end + 1].signed
  BY <1>1 DEF SInv, IInv, Phase, Progress
<1>3. /\ Good(log) /\ Len(log) = end + 1 /\ end \in Nat /\ end + 1 \in 1 .. Len(log)
      /\ log[end + 1].size = "ok" /\ Signed(log) \in SUBSET (1 .. Len(log))
      /\ Valids(log) \in SUBSET Signed(log) /\ op.var \in Var
  BY <1>1, NewRecord
<1>4. /\ \A i \in Valids(log) : log[i].guid < nextGuid
      /\ indexOn => index = [v \in Var |-> HeadOf(log, guids, v)]
  BY <1>1, Runs DEF SInv, Running
<1>5. /\ Changed(log', guids') /\ Len(log') = end + 1 /\ Valids(log') = Valids(log)
      /\ Signed(log') = Signed(log)
      /\ \A v \in Var : HeadOf(log', guids', v) = HeadOf(log, guids, v)
      /\ \A k \in Valids(log') : log'[k].guid = log[k].guid
  <2>1. PICK m : m = Link(log)
    OBVIOUS
  <2>2. /\ Changed(m, guids) /\ Len(m) = end + 1 /\ Valids(m) = Valids(log)
        /\ Signed(m) = Signed(log)
        /\ \A v \in Var : HeadOf(m, guids, v) = HeadOf(log, guids, v)
        /\ \A k \in Valids(m) : m[k].guid = log[k].guid
    BY <1>1, <2>1, LinkChanged
  <2>3. log' = m /\ guids' = guids
    BY <1>1, <2>1
  <2>4. QED
    BY <2>2, <2>3
<1>6. Good(log') /\ Sane(log') /\ Unique(log', guids')
  BY <1>5 DEF Changed, Sound
<1>7. end + 1 \in Signed(log')
  BY <1>2, <1>3, <1>5 DEF Signed
<1>8. indexOn' => index' = [v \in Var |-> HeadOf(log', guids', v)]
  BY <1>1, <1>2, <1>4, <1>5
<1>9. Running'
  <2>1. \A i \in Valids(log') : (i \in Valids(log) \/ i = end + 1) /\ log'[i].guid < nextGuid
    BY <1>4, <1>5
  <2>2. Signed(log) \in SUBSET Signed(log')
    BY <1>5
  <2>3. QED
    BY <1>1, <1>5, <1>6, <1>7, <1>8, <2>1, <2>2, CompletedRuns
<1>10. /\ store' = [store EXCEPT ![op.var] = op.val]
       /\ store' = [v \in Var |-> ValueOf(log', guids', v)]
  BY <1>1, <1>5, ChangedStore
<1>11. IInv'
  BY ProgramLinkInv DEF SInv
<1>12. Progress'
  BY <1>1 DEF Progress
<1>13. op # NoOp /\ store \in [Var -> Val \cup {Absent}]
  BY <1>1, CallInProgress
<1>14. Done
  BY <1>1, <1>3, <1>10, <1>13 DEF Done
<1>15. QED
  BY <1>1, <1>6, <1>9, <1>10, <1>11, <1>12, <1>14 DEF SInv

LEMMA DeleteValues ==
  ASSUME SInv, Delete
  PROVE  SInv' /\ Done
<1>1. /\ pc = "delete" /\ log' = Invalid(log) /\ Observe
      /\ pc' = "idle" /\ op' = NoOp /\ result' = "success"
      /\ index' = [index EXCEPT ![op.var] = 0]
      /\ UNCHANGED <<guids, first, end, nextGuid, indexOn, faults>>
  BY DEF Delete, Finish, info
<1>2. /\ Good(log) /\ Settled(log, end) /\ Placed(log, first, end) /\ first \in Nat /\ end \in Nat
      /\ end <= Len(log)
  BY <1>1, Runs
<1>20. /\ indexOn => index = [v \in Var |-> HeadOf(log, guids, v)]
       /\ end = 0 => first = 1
       /\ \A i \in Valids(log) : log[i].guid < nextGuid
  BY <1>1, Runs DEF SInv, Running
<1>3. /\ Changed(log', guids') /\ Len(log') = Len(log) /\ Valids(log') \in SUBSET Valids(log)
      /\ Signed(log') = Signed(log)
      /\ \A k \in 1 .. Len(log) : log'[k].size = log[k].size /\ log'[k].next = log[k].next
      /\ \A v \in Var : HeadOf(log', guids', v) = IF v = op.var THEN 0 ELSE HeadOf(log, guids, v)
      /\ \A k \in Valids(log') : log'[k] = log[k]
  <2>1. PICK m : m = Invalid(log)
    OBVIOUS
  <2>2. /\ Changed(m, guids) /\ Len(m) = Len(log) /\ Valids(m) \in SUBSET Valids(log)
        /\ Signed(m) = Signed(log)
        /\ \A k \in 1 .. Len(log) : m[k].size = log[k].size /\ m[k].next = log[k].next
        /\ \A v \in Var : HeadOf(m, guids, v) = IF v = op.var THEN 0 ELSE HeadOf(log, guids, v)
        /\ \A k \in Valids(m) : m[k] = log[k]
    BY <1>1, <2>1, DeleteChanged
  <2>3. log' = m /\ guids' = guids
    BY <1>1, <2>1
  <2>4. QED
    BY <2>2, <2>3
<1>4. Good(log') /\ Sane(log') /\ Unique(log', guids')
  BY <1>3 DEF Changed, Sound
<1>5. Placed(log', first', end')
  <2>1. Len(log) \in Nat
    BY <1>2, LinksInside
  <2>2. \A k \in 1 .. end : k \in 1 .. Len(log)
    BY <1>2, <2>1
  <2>3. QED
    BY <1>1, <1>2, <1>3, <2>2 DEF Placed
<1>6. Settled(log', end')
  BY <1>1, <1>2, <1>3 DEF Settled
<1>7. indexOn' => index' = [v \in Var |-> HeadOf(log', guids', v)]
  <2>1. HAVE indexOn'
  <2>2. index = [v \in Var |-> HeadOf(log, guids, v)]
    BY <1>1, <1>20, <2>1
  <2>3. index' = [v \in Var |-> IF v = op.var THEN 0 ELSE HeadOf(log, guids, v)]
    BY <1>1, <2>2
  <2>4. QED
    BY <1>3, <2>3
<1>8. Running'
  <2>1. \A i \in Valids(log') : log'[i].guid < nextGuid'
    BY <1>1, <1>3, <1>20
  <2>2. first' \in Nat /\ end' \in Nat /\ (end' = 0 => first' = 1)
    BY <1>1, <1>2, <1>20
  <2>3. QED
    BY <1>4, <1>5, <1>6, <1>7, <2>1, <2>2, RunningKept
<1>9. /\ store' = [store EXCEPT ![op.var] = op.val]
      /\ store' = [v \in Var |-> ValueOf(log', guids', v)]
  BY <1>1, <1>3, ChangedStore
<1>10. IInv'
  BY DeleteInv DEF SInv
<1>11. Progress'
  BY <1>1 DEF Progress
<1>12. op # NoOp /\ op.var \in Var /\ store \in [Var -> Val \cup {Absent}]
  BY <1>1, CallInProgress
<1>13. Done
  BY <1>1, <1>9, <1>12 DEF Done
<1>14. QED
  BY <1>1, <1>4, <1>8, <1>9, <1>10, <1>11, <1>13 DEF SInv

---------------------------------------------------------------------------
\* What error recovery copies.

\* What the walk finds for a variable is a record of it.
LEMMA FoundOf ==
  ASSUME IInv, pc # "off", NEW v \in Var
  PROVE  /\ RunFound[v] \in 0 .. end
         /\ RunFound[v] # 0 => RunFound[v] \in Of(log, guids, v)
<1> DEFINE W == Walk(log, first, end)
           M == Matches(log, guids, W, v)
<1>1. /\ log \in Logs /\ Len(log) \in Nat /\ first \in Nat /\ end \in Nat /\ end <= Len(log)
  BY LogSites DEF IInv, TypeOK, Logs, Phase
<1>2. W \in SUBSET (1 .. Len(log)) /\ \A i \in W : NvIsVariable(log, i, end)
  BY <1>1, WalkSites
<1>3. \A i \in W : i \in 1 .. end /\ i \in Signed(log)
  BY <1>1, <1>2 DEF NvIsVariable, Signed
<1>4. RunFound[v] = NvFindVariable(log, guids, W, v)
  BY DEF RunFound, IndexOf
<1> HIDE DEF W
<1>5. RunFound[v] = 0 \/ RunFound[v] \in M
  BY <1>1, <1>2, <1>4, FoundSite
<1>6. \A i \in M : i \in W /\ i \in Of(log, guids, v)
  BY <1>3 DEF Matches, Of, Valids
<1> HIDE DEF M
<1>7. QED
  BY <1>1, <1>3, <1>5, <1>6

\* Every variable but the one being set is copied once.
LEMMA SurvivorsAre ==
  ASSUME IInv, pc # "off", NEW kept \in SUBSET Var, NEW s, s = Survivors(kept)
  PROVE  /\ s \in Seq(Var) /\ Len(s) \in 0 .. end
         /\ \A k \in 1 .. Len(s) : s[k] \in kept /\ s[k] # op.var /\ RunFound[s[k]] # 0
         /\ \A j, k \in 1 .. Len(s) : s[j] = s[k] => j = k
         /\ \A v \in kept : v # op.var /\ RunFound[v] # 0 => \E k \in 1 .. Len(s) : s[k] = v
<1> DEFINE left == kept \ {op.var}
           S == {RunFound[v] : v \in left} \ {0}
           copied == InOrder(S)
           n == Cardinality(S)
<1>1. end \in Nat
  BY DEF IInv, TypeOK
<1>2. S \in SUBSET (1 .. end)
  <2>1. \A v \in left : RunFound[v] \in 0 .. end
    BY FoundOf
  <2>2. QED
    BY <1>1, <2>1
<1>3. /\ n \in Nat /\ Len(copied) = n
      /\ \A k \in 1 .. n : copied[k] \in S
      /\ \A i \in S : \E k \in 1 .. n : copied[k] = i
      /\ \A k, l \in 1 .. n : k < l => copied[k] < copied[l]
  BY <1>1, <1>2, Listing
<1>4. n <= end
  <2>1. IsFiniteSet(1 .. end) /\ Cardinality(1 .. end) = end
    BY <1>1, FS_Interval
  <2> HIDE DEF S
  <2>2. QED
    BY <1>2, <2>1, FS_Subset
<1>5. s = [k \in 1 .. Len(copied) |-> CHOOSE v \in left : RunFound[v] = copied[k]]
  BY DEF Survivors, RunFound
<1>6. \A k \in 1 .. n : copied[k] # 0 /\ \E v \in left : RunFound[v] = copied[k]
  BY <1>3
<1>7. \A i \in S : i \in Nat
  BY <1>1, <1>2
<1>8. \A v \in left : RunFound[v] # 0 => RunFound[v] \in S
  OBVIOUS
<1> HIDE DEF copied, S, n
<1>9. \A k \in 1 .. n : s[k] \in left /\ RunFound[s[k]] = copied[k]
  <2>1. TAKE k \in 1 .. n
  <2>2. \E v \in left : RunFound[v] = copied[k]
    BY <1>6
  <2>3. s[k] = CHOOSE v \in left : RunFound[v] = copied[k]
    BY <1>3, <1>5
  <2>4. QED
    BY <2>2, <2>3
<1>10. s \in Seq(Var) /\ Len(s) = n
  <2>1. \A k \in 1 .. n : s[k] \in Var
    BY <1>9
  <2>2. s = [k \in 1 .. n |-> s[k]]
    BY <1>3, <1>5
  <2>3. QED
    BY <1>3, <2>1, <2>2
<1>11. ASSUME NEW j \in 1 .. n, NEW k \in 1 .. n, s[j] = s[k]
       PROVE  j = k
  <2>1. copied[j] = copied[k] /\ copied[j] \in Nat /\ copied[k] \in Nat
    BY <1>3, <1>7, <1>9, <1>11
  <2>2. j < k \/ k < j \/ j = k
    BY <1>3
  <2>3. QED
    BY <1>3, <2>1, <2>2
<1>12. ASSUME NEW v \in kept, v # op.var, RunFound[v] # 0
       PROVE  \E k \in 1 .. n : s[k] = v
  <2>1. v \in left /\ RunFound[v] \in S
    BY <1>8, <1>12
  <2>2. PICK k \in 1 .. n : copied[k] = RunFound[v]
    BY <1>3, <2>1
  <2>3. s[k] \in left /\ RunFound[s[k]] = RunFound[v]
    BY <1>9, <2>2
  <2>4. PICK u \in Var : u = s[k]
    BY <2>3
  <2>5. RunFound[u] \in Of(log, guids, u)
    BY <1>12, <2>3, <2>4, FoundOf
  <2>6. RunFound[v] \in Of(log, guids, v)
    BY <1>12, FoundOf
  <2>7. u = v
    BY <2>3, <2>4, <2>5, <2>6, OneOwner
  <2>8. QED
    BY <2>4, <2>7
<1>13. \A k \in 1 .. n : s[k] \in kept /\ s[k] # op.var /\ RunFound[s[k]] # 0
  BY <1>6, <1>9
<1>14. QED
  BY <1>1, <1>3, <1>4, <1>10, <1>11, <1>12, <1>13

\* There is room to write everything anew while the record being written fits.
LEMMA RoomToRewrite ==
  ASSUME SInv, pc \in {"sign", "link"}
  PROVE  Fits(Append(Survivors(Var), op.var))
<1> DEFINE G == {guids[c] : c \in 0 .. nextGuid - 1}
<1>1. PICK s : s = Survivors(Var)
  OBVIOUS
<1>2. PICK all : all = Append(s, op.var)
  OBVIOUS
<1>3. /\ IInv /\ Good(log) /\ op.var \in Var /\ Len(log) = end + 1 /\ log \in Logs
      /\ end \in Nat /\ nextGuid \in Nat /\ Area \in Nat
  BY LogAssumption DEF SInv, IInv, TypeOK, Good, Phase, Calls
<1>4. /\ s \in Seq(Var) /\ Len(s) \in 0 .. end
      /\ \A k \in 1 .. Len(s) : RunFound[s[k]] # 0
  BY <1>1, <1>3, SurvivorsAre
<1>5. /\ \A i \in Valids(log) : log[i].guid < nextGuid
      /\ end + nextGuid + 3 <= Area /\ rec = HeadOf(log, guids, op.var)
      /\ pc = "sign" /\ rec = 0 => /\ guids[log[end + 1].guid] = op.var.guid
                                   /\ log[end + 1].guid < nextGuid
      /\ pc = "link" => rec # 0
  BY DEF SInv, IInv, Running, Progress, Phase
<1>6. \A i \in 1 .. Len(log) : log[i].guid \in Nat
  <2>1. \A i \in 1 .. Len(log) : log[i].guid \in Cells
    BY <1>3, LogSites
  <2>2. QED
    BY <1>3, <2>1 DEF Cells
<1>7. \A v \in Var : \A i \in Of(log, guids, v) : v.guid \in G
  <2>1. TAKE v \in Var
  <2>2. TAKE i \in Of(log, guids, v)
  <2>3. i \in Valids(log) /\ guids[log[i].guid] = v.guid /\ i \in 1 .. Len(log)
    BY DEF Of, Valids, Signed
  <2>4. log[i].guid \in 0 .. nextGuid - 1
    BY <1>3, <1>5, <1>6, <2>3
  <2>5. QED
    BY <2>3, <2>4
<1>8. op.var.guid \in G
  <2>1. CASE rec = 0
    <3>1. log[end + 1].guid \in 0 .. nextGuid - 1 /\ guids[log[end + 1].guid] = op.var.guid
      BY <1>3, <1>5, <1>6, <2>1
    <3>2. QED
      BY <3>1
  <2>2. CASE rec # 0
    <3>1. rec \in Of(log, guids, op.var)
      BY <1>3, <1>5, <2>2, HeadSite
    <3> HIDE DEF G
    <3>2. QED
      BY <1>3, <1>7, <3>1
  <2>3. QED
    BY <2>1, <2>2
<1>9. \A k \in 1 .. Len(s) : s[k].guid \in G
  <2>1. TAKE k \in 1 .. Len(s)
  <2>2. PICK v \in Var : v = s[k]
    BY <1>4
  <2>3. RunFound[v] \in Of(log, guids, v)
    BY <1>3, <1>4, <2>2, FoundOf
  <2> HIDE DEF G
  <2>4. QED
    BY <1>7, <2>2, <2>3
<1>10. IsFiniteSet(G) /\ Cardinality(G) <= nextGuid
  <2> DEFINE g == [c \in 0 .. nextGuid - 1 |-> guids[c]]
  <2>1. IsFiniteSet(0 .. nextGuid - 1) /\ Cardinality(0 .. nextGuid - 1) = nextGuid
    BY <1>3, FS_Interval
  <2>2. g \in Surjection(0 .. nextGuid - 1, G)
    BY DEF Surjection
  <2> HIDE DEF g, G
  <2>3. QED
    BY <2>1, <2>2, FS_Surjection
<1>11. /\ Len(all) = Len(s) + 1 /\ \A k \in 1 .. Len(all) : all[k].guid \in G
  <2>1. Len(all) = Len(s) + 1 /\ \A k \in 1 .. Len(all) : all[k] = IF k <= Len(s) THEN s[k] ELSE op.var
    BY <1>2, <1>3, <1>4
  <2>2. \A k \in 1 .. Len(all) : k <= Len(s) => k \in 1 .. Len(s)
    BY <1>4, <2>1
  <2> HIDE DEF G
  <2>3. QED
    BY <1>8, <1>9, <2>1, <2>2
<1>12. PICK T : T = {all[k].guid : k \in 1 .. Len(all)}
  OBVIOUS
<1>13. Cardinality(T) \in Nat /\ Cardinality(T) <= nextGuid
  <2>1. T \in SUBSET G
    BY <1>11, <1>12
  <2> HIDE DEF G
  <2>2. IsFiniteSet(T) /\ Cardinality(T) <= Cardinality(G)
    BY <1>10, <2>1, FS_Subset
  <2>3. Cardinality(T) \in Nat /\ Cardinality(G) \in Nat
    BY <1>10, <2>2, FS_CardinalityType
  <2>4. QED
    BY <1>3, <1>10, <2>2, <2>3
<1>14. Len(all) + Cardinality(T) + 2 <= Area
  BY <1>3, <1>4, <1>5, <1>11, <1>13
<1>15. QED
  BY <1>1, <1>2, <1>12, <1>14 DEF Fits

---------------------------------------------------------------------------
\* An operation that reports an error.

\* What it leaves in flash: something no walk sees ...
Unseen(m, h) ==
    /\ Quiet(m, h) /\ Signed(log) \in SUBSET Signed(m)
    /\ Len(m) = Len(log) \/ Len(m) = end + 1
    /\ \A k \in 1 .. end : m[k].size = "ok"
    /\ \A k \in 1 .. Len(m) : m[k].next <= end

\* ... or the whole change, behind the end.
BehindEnd(m, h) ==
    /\ pc \in {"sign", "link"} /\ Changed(m, h) /\ h = guids
    /\ Len(m) = end + 1 /\ m[end + 1].size = "ok" /\ m[end + 1].signed
    /\ SameUpTo(log, m, end)
    /\ \A i \in Valids(m) : m[i].guid < nextGuid

LEMMA NothingUnseen ==
  ASSUME SInv, pc \notin {"off", "recover"}
  PROVE  Unseen(log, guids)
<1>1. Settled(log, end) /\ Placed(log, first, end) /\ Quiet(log, guids)
  BY Runs, NothingQuiet
<1>2. QED
  BY <1>1 DEF Unseen, Settled, Placed

LEMMA FailedHeader ==
  ASSUME SInv, pc = "header", NEW z \in {"ok", "bad"},
         NEW a, a = Append(log, [Torso(rec # 0) EXCEPT !.size = z])
  PROVE  Unseen(a, guids)
<1>1. Quiet(a, guids) /\ Len(a) = end + 1
  BY HeaderQuiet
<1>2. \A i \in 1 .. Len(log) : a[i] = log[i]
  BY HeaderQuiet
<1>3. a[end + 1].next = 0
  BY HeaderQuiet
<1>4. Settled(log, end) /\ Placed(log, first, end) /\ end \in Nat
  BY Runs
<1>5. Len(log) = end
  BY DEF SInv, IInv, Phase
<1>6. \A k \in Signed(log) : k \in Signed(a)
  BY <1>1, <1>2, <1>4, <1>5 DEF Signed
<1>7. \A k \in 1 .. end : a[k].size = "ok"
  BY <1>2, <1>4, <1>5 DEF Placed
<1>8. \A k \in 1 .. Len(a) : a[k].next <= end
  <2>1. \A k \in 1 .. Len(a) : k \in 1 .. Len(log) \/ k = end + 1
    BY <1>1, <1>4, <1>5
  <2>2. QED
    BY <1>2, <1>3, <1>4, <2>1 DEF Settled
<1>9. QED
  BY <1>1, <1>6, <1>7, <1>8 DEF Unseen

LEMMA FailedBody ==
  ASSUME SInv, pc = "body", NEW m, m = Body(log)
  PROVE  Unseen(m, guids)
<1>1. Quiet(m, guids)
  BY BodyQuiet
<1>2. /\ IInv /\ Len(log) = end + 1 /\ end \in Nat /\ end + 1 \in 1 .. Len(log)
      /\ log[end + 1].next = 0 /\ Signed(log) \in SUBSET (1 .. Len(log))
  BY NewRecord
<1>3. ~log[end + 1].signed
  BY DEF SInv, IInv, Phase
<1>4. Programmed(log, m, end + 1) /\ m[end + 1].next = 0
  BY <1>2, BodyOutcome
<1>5. Len(m) = Len(log) /\ \A k \in 1 .. Len(log) : k # end + 1 => m[k] = log[k]
  BY <1>4 DEF Programmed
<1>6. Settled(log, end) /\ Placed(log, first, end)
  BY Runs
<1>7. \A k \in Signed(log) : k \in Signed(m)
  BY <1>2, <1>3, <1>5 DEF Signed
<1>8. \A k \in 1 .. end : m[k].size = "ok"
  BY <1>2, <1>5, <1>6 DEF Placed
<1>9. \A k \in 1 .. Len(m) : m[k].next <= end
  BY <1>2, <1>4, <1>5, <1>6 DEF Settled
<1>10. QED
  BY <1>1, <1>5, <1>7, <1>8, <1>9 DEF Unseen

LEMMA FailedSignature ==
  ASSUME SInv, pc = "sign", NEW m, m = Signature(log)
  PROVE  Unseen(m, guids) \/ BehindEnd(m, guids)
<1>1. /\ Len(m) = end + 1 /\ end + 1 \in Signed(m) /\ Signed(m) = Signed(log) \cup {end + 1}
      /\ \A k \in 1 .. end : m[k] = log[k]
      /\ m[end + 1].next = 0
  BY Signs
<1>2. Len(log) = end + 1 /\ end \in Nat /\ Valids(log) \in SUBSET Signed(log)
      /\ Signed(log) \in SUBSET (1 .. Len(log))
  BY NewRecord
<1>3. Settled(log, end) /\ Placed(log, first, end)
  BY Runs
<1>4. \A k \in 1 .. end : m[k].size = "ok"
  BY <1>1, <1>3 DEF Placed
<1>5. \A k \in 1 .. Len(m) : m[k].next <= end
  <2>1. \A k \in 1 .. Len(m) : k \in 1 .. end \/ k = end + 1
    BY <1>1, <1>2
  <2>2. \A k \in 1 .. end : log[k].next <= end
    BY <1>2, <1>3 DEF Settled
  <2>3. QED
    BY <1>1, <1>2, <2>1, <2>2
<1>6. CASE rec # 0
  <2>1. Quiet(m, guids)
    BY <1>6, SignQuiet
  <2>2. Signed(log) \in SUBSET Signed(m)
    BY <1>1
  <2>3. QED
    BY <1>1, <1>4, <1>5, <2>1, <2>2 DEF Unseen
<1>7. CASE rec = 0
  <2>1. Changed(m, guids) /\ Valids(m) = Valids(log) \cup {end + 1} /\ m[end + 1].guid < nextGuid
    BY <1>7, SignChanged
  <2>2. \A i \in Valids(log) : log[i].guid < nextGuid /\ i \in 1 .. end
    BY <1>2, <1>3 DEF SInv, Running, Settled
  <2>3. \A i \in Valids(m) : m[i].guid < nextGuid
    BY <1>1, <2>1, <2>2
  <2>4. SameUpTo(log, m, end)
    BY <1>1, <1>2 DEF SameUpTo
  <2>5. m[end + 1].size = "ok" /\ m[end + 1].signed
    BY <1>1 DEF Signed
  <2>6. QED
    BY <1>1, <2>1, <2>3, <2>4, <2>5 DEF BehindEnd
<1>8. QED
  BY <1>6, <1>7

LEMMA FailedLink ==
  ASSUME SInv, pc = "link", NEW m, m = Link(log)
  PROVE  BehindEnd(m, guids)
<1>1. /\ Changed(m, guids) /\ Len(m) = end + 1 /\ Valids(m) = Valids(log)
      /\ Signed(m) = Signed(log)
      /\ SameUpTo(log, m, end)
  BY LinkChanged
<1>2. \A k \in Valids(m) : m[k].guid = log[k].guid
  BY LinkChanged
<1>3. end + 1 \in Signed(m)
  <2>1. log[end + 1].signed /\ log[end + 1].size = "ok" /\ end + 1 \in 1 .. Len(log)
    BY NewRecord DEF SInv, Progress
  <2>2. QED
    BY <1>1, <2>1 DEF Signed
<1>4. \A i \in Valids(m) : m[i].guid < nextGuid
  BY <1>1, <1>2 DEF SInv, Running
<1>5. QED
  BY <1>1, <1>3, <1>4 DEF BehindEnd, Signed

LEMMA FailedOutcome ==
  ASSUME Orderly, SInv, pc \in {"header", "guid", "body", "sign", "link"}, NEW p \in Partial
  PROVE  Unseen(p[1], p[2]) \/ BehindEnd(p[1], p[2])
<1>1. /\ op.var \in Var /\ ~TornLink
  BY DEF SInv, IInv, Phase, Calls, Orderly
<1>2. Unseen(log, guids)
  BY NothingUnseen
<1>3. CASE pc = "header"
  <2>1. p \in {<<log, guids>>, <<Header(log), guids>>,
               <<Append(log, [Torso(rec # 0) EXCEPT !.size = "bad"]), guids>>}
    BY <1>3 DEF Partial
  <2>2. PICK a : a = Append(log, [Torso(rec # 0) EXCEPT !.size = "ok"])
    OBVIOUS
  <2>3. PICK b : b = Append(log, [Torso(rec # 0) EXCEPT !.size = "bad"])
    OBVIOUS
  <2>4. Header(log) = a
    BY <2>2, TorsoType DEF Header
  <2>5. Unseen(a, guids)
    BY <1>3, <2>2, FailedHeader
  <2>6. Unseen(b, guids)
    BY <1>3, <2>3, FailedHeader
  <2>7. p \in {<<log, guids>>, <<a, guids>>, <<b, guids>>}
    BY <2>1, <2>3, <2>4
  <2>8. p[2] = guids /\ p[1] \in {log, a, b}
    BY <2>7
  <2>9. QED
    BY <1>2, <2>5, <2>6, <2>8
<1>4. CASE pc = "guid"
  <2>1. p \in {<<log, guids>>, <<log, [guids EXCEPT ![nextGuid] = Torn]>>, <<log, GuidEntry(guids)>>}
    BY <1>4 DEF Partial
  <2>2. PICK t : t = [guids EXCEPT ![nextGuid] = Torn]
    OBVIOUS
  <2>3. GuidAdded(t)
    BY <2>2 DEF GuidAdded
  <2>4. GuidAdded(GuidEntry(guids))
    BY <1>1 DEF GuidEntry, GuidAdded, Guids
  <2>5. p \in {<<log, guids>>, <<log, t>>, <<log, GuidEntry(guids)>>}
    BY <2>1, <2>2
  <2>6. p[1] = log /\ (p[2] = guids \/ GuidAdded(p[2]))
    BY <2>3, <2>4, <2>5
  <2>7. Quiet(log, p[2])
    BY <1>4, <2>6, GuidQuiet
  <2>8. QED
    BY <1>2, <2>6, <2>7 DEF Unseen
<1>5. CASE pc = "body"
  <2>1. p \in {<<log, guids>>, <<Body(log), guids>>}
    BY <1>5 DEF Partial
  <2>2. QED
    BY <1>2, <1>5, <2>1, FailedBody
<1>6. CASE pc = "sign"
  <2>1. p \in {<<log, guids>>, <<Signature(log), guids>>}
    BY <1>6 DEF Partial
  <2>2. QED
    BY <1>2, <1>6, <2>1, FailedSignature
<1>7. CASE pc = "link"
  <2>1. p \in {<<log, guids>>, <<Link(log), guids>>}
    <3>1. {TornLink} \ {FALSE} = {}
      BY <1>1, LogAssumption
    <3>2. p \in {<<log, guids>>, <<Link(log), guids>>} \cup
                {<<[log EXCEPT ![lastRec].next = Far], guids>> : t \in {TornLink} \ {FALSE}}
      BY <1>7 DEF Partial
    <3>3. QED
      BY <3>1, <3>2, Zenon
  <2>2. QED
    BY <1>2, <1>7, <2>1, FailedLink
<1>8. QED
  BY <1>3, <1>4, <1>5, <1>6, <1>7

\* A change that is behind the end: error recovery sees the old values, and has room.
LEMMA BehindRuns ==
  ASSUME SInv, pc \in {"sign", "link"}, BehindEnd(log', guids'), pc' = "recover",
         UNCHANGED <<first, end, nextGuid, index, indexOn, op>>, Observe
  PROVE  Running'
<1>1. /\ Changed(log', guids') /\ guids' = guids /\ Len(log') = end + 1
      /\ SameUpTo(log, log', end) /\ \A i \in Valids(log') : log'[i].guid < nextGuid
      /\ Good(log') /\ Sane(log')
  BY DEF BehindEnd, Changed, Sound
<1>2. /\ Good(log) /\ Sane(log) /\ Settled(log, end) /\ Placed(log, first, end)
      /\ first \in Nat /\ end \in Nat /\ end <= Len(log)
      /\ RunFound = [v \in Var |-> HeadOf(log, guids, v)]
      /\ \A v \in Var : ValueAt(log, HeadOf(log, guids, v), end) = store[v]
  BY Runs
<1>3. /\ IInv /\ first \in 1 .. Area /\ (end = 0 => first = 1) /\ (indexOn => index = RunFound)
  BY DEF SInv, IInv, TypeOK, Running
<1>4. IndexOf(log', guids, first, end) = IndexOf(log, guids, first, end)
  BY <1>1, <1>2, <1>3, RunSame
<1>5. \A i \in 0 .. end : ValueAt(log', i, end) = ValueAt(log, i, end)
  BY <1>1, <1>2, <1>3, RunSame
<1>6. RunFound' = RunFound
  BY <1>1, <1>4 DEF RunFound
<1>7. store' = [store EXCEPT ![op.var] = op.val]
  BY ChangedStore, <1>1
<1>8. \A v \in Var : v # op.var => ValueAt(log', RunFound'[v], end) = store'[v]
  <2>1. TAKE v \in Var
  <2>2. HAVE v # op.var
  <2>3. RunFound[v] \in 0 .. end
    BY <1>3, FoundOf
  <2>4. ValueAt(log', RunFound[v], end) = store[v]
    BY <1>2, <1>5, <2>3
  <2>5. store'[v] = store[v]
    <3>1. store \in [Var -> Val \cup {Absent}]
      BY <1>3 DEF IInv, TypeOK
    <3>2. QED
      BY <1>7, <2>2, <3>1
  <2>6. QED
    BY <1>6, <2>4, <2>5
<1>9. Fits(Append(Survivors(Var), op.var))'
  <2>1. Survivors(Var)' = Survivors(Var)
    BY <1>6 DEF Survivors, RunFound
  <2>2. Fits(Append(Survivors(Var), op.var))
    BY RoomToRewrite
  <2>3. QED
    BY <2>1, <2>2 DEF Fits
<1>10. Behind'
  BY <1>8, <1>9 DEF Behind
<1>11. Placed(log', first', end')
  <2>1. \A k \in 1 .. end : /\ k \in 1 .. Len(log) /\ k \in 1 .. Len(log')
                            /\ log'[k].size = log[k].size /\ log'[k].signed = log[k].signed
                            /\ NvIsValid(log'[k]) <=> NvIsValid(log[k])
    BY <1>1, <1>2 DEF SameUpTo, NvIsValid
  <2>2. \A k \in 1 .. end : k \in Signed(log) <=> k \in Signed(log')
    BY <2>1 DEF Signed
  <2>3. \A k \in 1 .. end : k \in Valids(log) <=> k \in Valids(log')
    BY <2>1, <2>2 DEF Valids
  <2>4. \A i \in Valids(log') : i <= end => first <= i
    <3>1. TAKE i \in Valids(log')
    <3>2. HAVE i <= end
    <3>3. i \in 1 .. end
      BY <1>1, <1>2, <3>2 DEF Valids, Signed
    <3>4. QED
      BY <1>2, <2>3, <3>2, <3>3 DEF Placed
  <2>5. end > 0 => first \in 1 .. end /\ 1 \in 1 .. end
    BY <1>2, <1>3 DEF Placed
  <2>6. end > 0 => first \in Signed(log') /\ first <= end /\ 1 \in Signed(log')
    BY <1>2, <2>2, <2>5 DEF Placed
  <2>7. end <= Len(log') /\ \A i \in 1 .. end : log'[i].size = "ok"
    BY <1>1, <1>2, <2>1 DEF Placed
  <2>8. QED
    BY <2>4, <2>6, <2>7 DEF Placed
<1>12. QED
  BY <1>1, <1>3, <1>6, <1>10, <1>11 DEF Running

LEMMA WriteFailsValues ==
  ASSUME Orderly, SInv, WriteFails
  PROVE  /\ SInv'
         /\ store' = store \/ (op # NoOp /\ store' = [store EXCEPT ![op.var] = op.val])
         /\ op' = op \/ result' = "error"
         /\ faults' # faults
<1>1. /\ pc \in {"header", "guid", "body", "sign", "link", "delete"} /\ Observe
      /\ faults' = faults + 1 /\ end > 0
      /\ pc = "delete" => log' = log
      /\ nextGuid' = IF pc = "guid" THEN nextGuid + 1 ELSE nextGuid
      /\ IF pc = "delete" THEN UNCHANGED <<end, last>> ELSE RecoverFromFlashUpdateFailure(log')
      /\ IF pc = "delete" \/ IsStoreOk'
         THEN pc' = "idle" /\ op' = NoOp /\ rec' = 0 /\ result' = "error"
         ELSE pc' = "recover" /\ UNCHANGED <<op, rec, result>>
      /\ UNCHANGED <<first, index, indexOn>>
  BY DEF WriteFails, Finish, Orderly
<1>2. PICK p \in Partial : log' = p[1] /\ guids' = p[2]
  BY DEF WriteFails
<1>3. /\ IInv' /\ end \in Nat /\ nextGuid \in Nat /\ faults \in Nat
      /\ Len(log') \in Nat /\ (pc' # "off" => end' <= Len(log')) /\ end' \in Nat
  <2>1. IInv'
    BY WriteFailsInv DEF SInv
  <2>2. Good(log') /\ (pc' # "off" => end' <= Len(log')) /\ end' \in Nat
    BY <2>1 DEF IInv, TypeOK, Phase
  <2>3. end \in Nat /\ nextGuid \in Nat /\ faults \in Nat
    BY LogAssumption DEF SInv, IInv, TypeOK
  <2>4. QED
    BY <2>1, <2>2, <2>3, LogSites DEF Good
<1>4. pc' \in {"idle", "recover"} /\ (pc' = "idle" => op' = NoOp) /\ (op' = op \/ result' = "error")
  BY <1>1
<1>5. Progress'
  BY <1>4 DEF Progress
<1>6. faults' # faults
  BY <1>1, <1>3
<1>7. pc # "delete" =>
        \/ Len(log') = end /\ end' = end
        \/ Len(log') > end /\ log'[end + 1].size = "ok" /\ ~log'[end + 1].signed /\ end' = end + 1
        \/ Len(log') > end /\ ~(log'[end + 1].size = "ok" /\ ~log'[end + 1].signed) /\ end' = end
  BY <1>1 DEF RecoverFromFlashUpdateFailure, new
<1>8. CASE Unseen(log', guids')
  <2>1. /\ Quiet(log', guids') /\ Signed(log) \in SUBSET Signed(log')
        /\ Len(log') = Len(log) \/ Len(log') = end + 1
        /\ \A k \in 1 .. end : log'[k].size = "ok"
        /\ \A k \in 1 .. Len(log') : log'[k].next <= end
    BY <1>8 DEF Unseen
  <2>2. end' = end \/ (end' = end + 1 /\ log'[end + 1].size = "ok")
    BY <1>1, <1>7
  <2>3. end <= end' /\ (end' = end \/ end > 0) /\ end' <= Len(log')
    BY <1>1, <1>3, <1>4, <2>2
  <2>4. \A k \in 1 .. end' : log'[k].size = "ok"
    <3>1. \A k \in 1 .. end' : k \in 1 .. end \/ (k = end + 1 /\ end' = end + 1)
      BY <1>3, <2>2
    <3>2. QED
      BY <2>1, <2>2, <3>1
  <2>5. \A k \in 1 .. Len(log') : log'[k].next <= end'
    <3>1. Good(log')
      BY <1>3 DEF IInv
    <3>2. \A k \in 1 .. Len(log') : log'[k].next \in Nat
      BY <3>1, LogSites DEF Good
    <3>3. QED
      BY <1>3, <2>1, <2>3, <3>2
  <2>6. nextGuid' \in Nat /\ nextGuid <= nextGuid'
    BY <1>1, <1>3
  <2>7. Running'
    BY <1>1, <1>3, <2>1, <2>3, <2>4, <2>5, <2>6, QuietRuns
  <2>8. store' = store /\ store' = [v \in Var |-> ValueOf(log', guids', v)]
    BY <1>1, <2>1, QuietStore
  <2>9. Sane(log') /\ Unique(log', guids')
    BY <2>1 DEF Quiet, Sound
  <2>10. SInv'
    BY <1>3, <1>4, <1>5, <2>7, <2>8, <2>9 DEF SInv
  <2>11. QED
    BY <1>4, <1>6, <2>8, <2>10
<1>9. CASE BehindEnd(log', guids')
  <2>1. /\ pc \in {"sign", "link"} /\ Changed(log', guids') /\ Len(log') = end + 1
        /\ log'[end + 1].signed
    BY <1>9 DEF BehindEnd
  <2>2. end' = end
    BY <1>3, <1>7, <2>1
  <2>3. ~IsStoreOk'
    <3>1. ~(Len(log') <= end')
      BY <1>3, <2>1, <2>2
    <3>2. QED
      BY <3>1 DEF IsStoreOk
  <2>4. pc' = "recover" /\ op' = op
    BY <1>1, <2>1, <2>3
  <2>5. Running'
    BY <1>1, <1>9, <2>1, <2>2, <2>4, BehindRuns
  <2>6. /\ store' = [store EXCEPT ![op.var] = op.val]
        /\ store' = [v \in Var |-> ValueOf(log', guids', v)]
    BY <1>1, <2>1, ChangedStore
  <2>7. Sane(log') /\ Unique(log', guids')
    BY <2>1 DEF Changed, Sound
  <2>8. op # NoOp
    BY <1>1, CallInProgress
  <2>9. SInv'
    BY <1>3, <1>4, <1>5, <2>5, <2>6, <2>7 DEF SInv
  <2>10. QED
    BY <1>4, <1>6, <2>6, <2>8, <2>9
<1>10. CASE pc = "delete"
  <2>1. log' = log
    BY <1>1, <1>10
  <2>2. guids' = guids
    <3>1. p \in {<<log, guids>>, <<Invalid(log), guids>>}
      BY <1>10 DEF Partial
    <3>2. QED
      BY <1>2, <3>1
  <2>3. Unseen(log', guids')
    BY <1>1, <2>1, <2>2, NothingUnseen
  <2>4. QED
    BY <1>8, <2>3
<1>11. pc # "delete" => Unseen(log', guids') \/ BehindEnd(log', guids')
  BY <1>1, <1>2, FailedOutcome
<1>12. QED
  BY <1>8, <1>9, <1>10, <1>11

---------------------------------------------------------------------------
\* Error recovery of the variables.

Distinct(seq) == \A j, k \in 1 .. Len(seq) : seq[j] = seq[k] => j = k
Filled(l) == \A k \in 1 .. Len(l) : l[k].val # Absent

\* The variables of seq, and no others, have the values of the records.
Lists(l, g, seq) ==
    /\ \A k \in 1 .. Len(seq) : ValueOf(l, g, seq[k]) = l[k].val
    /\ \A v \in Var : (\A k \in 1 .. Len(seq) : seq[k] # v) => ValueOf(l, g, v) = Absent

\* An area written anew has the listed variables, with the values of its records.
LEMMA FreshValues ==
  ASSUME NEW seq \in Seq(Var), Distinct(seq),
         NEW t \in Seq(Guids), NEW l, NEW g, Fresh(l, g, seq, t), Good(l), Filled(l)
  PROVE  /\ Sane(l) /\ Unique(l, g) /\ Placed(l, 1, Len(seq)) /\ Settled(l, Len(seq))
         /\ \A i \in Valids(l) : l[i].guid < Len(t)
         /\ Lists(l, g, seq)
<1> DEFINE n == Len(seq)
<1>1. /\ n \in Nat /\ Len(l) = n /\ l \in Logs /\ Forward(l) /\ Len(t) \in Nat
      /\ \A k \in 1 .. n : l[k].guid \in Cells
  BY LogSites DEF Fresh, Good
<1>2. \A i \in 1 .. n :
         /\ l[i].size = "ok" /\ l[i].signed /\ l[i].valid /\ ~l[i].dataOnly /\ l[i].next = 0
         /\ l[i].name = seq[i].name
         /\ l[i].guid + 1 \in 1 .. Len(t) /\ t[l[i].guid + 1] = seq[i].guid
  BY DEF Fresh
<1>3. \A i \in 1 .. n : l[i].guid < Len(t) /\ g[l[i].guid] = seq[i].guid
  <2>1. TAKE i \in 1 .. n
  <2>2. l[i].guid \in Cells /\ l[i].guid \in Nat
    BY <1>1, LogAssumption DEF Cells
  <2>3. l[i].guid < Len(t)
    BY <1>1, <1>2, <2>2
  <2>4. g[l[i].guid] = t[l[i].guid + 1]
    BY <2>2, <2>3 DEF Fresh
  <2>5. QED
    BY <1>2, <2>3, <2>4
<1>4. Signed(l) = 1 .. n /\ Valids(l) = 1 .. n
  <2>1. Signed(l) = 1 .. n
    BY <1>1, <1>2 DEF Signed
  <2>2. QED
    BY <1>2, <2>1 DEF Valids, NvIsValid
<1>5. Sane(l)
  <2>1. PICK root : root = [i \in 1 .. Len(l) |-> i]
    OBVIOUS
  <2>2. Owns(l, root)
    <3>1. root \in [1 .. Len(l) -> Nat] /\ \A i \in 1 .. Len(l) : root[i] = i
      BY <1>1, <2>1
    <3>2. \A i \in 1 .. Len(l) : l[i].next = 0
      BY <1>1, <1>2
    <3>3. QED
      BY <3>1, <3>2 DEF Owns
  <2>3. \A i \in 1 .. Len(l) - 1 : i \in 1 .. n
    BY <1>1
  <2>4. Len(l) > 1 => 1 \in Signed(l)
    BY <1>1, <1>4
  <2>5. QED
    BY <1>1, <1>2, <1>4, <2>2, <2>3, <2>4 DEF Sane, Filled
<1>6. \A v \in Var : \A i : i \in Of(l, g, v) <=> i \in 1 .. n /\ seq[i] = v
  <2>1. TAKE v \in Var
  <2>2. TAKE i
  <2>3. i \in Of(l, g, v) <=> i \in 1 .. n /\ seq[i].name = v.name /\ seq[i].guid = v.guid
    BY <1>2, <1>3, <1>4 DEF Of
  <2>4. i \in 1 .. n => seq[i] = [name |-> seq[i].name, guid |-> seq[i].guid]
    BY LogAssumption
  <2>5. v = [name |-> v.name, guid |-> v.guid]
    BY LogAssumption
  <2>6. QED
    BY <2>3, <2>4, <2>5
<1>7. Unique(l, g)
  BY <1>6 DEF Unique, Distinct
<1>8. Placed(l, 1, n)
  BY <1>1, <1>2, <1>4 DEF Placed
<1>9. Settled(l, n)
  BY <1>1, <1>2, <1>4 DEF Settled
<1>10. \A i \in 1 .. n : NvGetDataNvar(l, i, n) = i
  <2>1. TAKE i \in 1 .. n
  <2>2. ~Linked(l, i, n)
    BY <1>2 DEF Linked, NvIsVariable
  <2>3. ChainEnds(l, n)[i] = IF Linked(l, i, n) THEN ChainEnds(l, n)[l[i].next] ELSE i
    <3>1. PICK e \in Nat : e = n
      BY <1>1
    <3>2. \A k \in 1 .. Len(l) :
            ChainEnds(l, e)[k] = IF Linked(l, k, e) THEN ChainEnds(l, e)[l[k].next] ELSE k
      BY <1>1, ChainsEnd
    <3>3. QED
      BY <1>1, <3>1, <3>2
  <2>4. QED
    BY <2>2, <2>3 DEF NvGetDataNvar
<1>11. \A k \in 1 .. n : ValueOf(l, g, seq[k]) = l[k].val
  <2>1. TAKE k \in 1 .. n
  <2>2. PICK v \in Var : v = seq[k]
    OBVIOUS
  <2>3. k \in Of(l, g, v)
    BY <1>6, <2>2
  <2>4. HeadOf(l, g, v) \in Of(l, g, v) /\ HeadOf(l, g, v) # 0
    BY <2>3, HeadSite
  <2>5. HeadOf(l, g, v) = k
    BY <1>7, <2>3, <2>4 DEF Unique
  <2>6. QED
    BY <1>1, <1>10, <2>2, <2>4, <2>5 DEF ValueOf, ValueAt
<1>12. \A v \in Var : (\A k \in 1 .. n : seq[k] # v) => ValueOf(l, g, v) = Absent
  <2>1. TAKE v \in Var
  <2>2. HAVE \A k \in 1 .. n : seq[k] # v
  <2>3. Of(l, g, v) = {}
    BY <1>6, <2>2
  <2>4. QED
    BY <2>3 DEF ValueOf, HeadOf, ValueAt
<1>13. \A i \in Valids(l) : l[i].guid < Len(t)
  BY <1>3, <1>4
<1>14. QED
  BY <1>5, <1>7, <1>8, <1>9, <1>11, <1>12, <1>13 DEF Lists

\* The values error recovery copies are those a boot would find.
LEMMA FoundValues ==
  ASSUME SInv, pc # "off", NEW v \in Var, v # op.var
  PROVE  /\ ValueAt(log, RunFound[v], end) = store[v]
         /\ RunFound[v] = 0 <=> store[v] = Absent
<1>1. /\ IInv /\ Good(log) /\ Sane(log) /\ Placed(log, first, end)
      /\ first \in Nat /\ end \in Nat /\ end <= Len(log)
      /\ store = [w \in Var |-> ValueOf(log, guids, w)]
      /\ Settled(log, end) \/ Behind
  BY LogAssumption DEF SInv, IInv, TypeOK, Phase, Running
<1>2. ValueAt(log, RunFound[v], end) = store[v]
  <2>1. CASE Settled(log, end)
    <3>1. IndexOf(log, guids, first, end) = [w \in Var |-> HeadOf(log, guids, w)]
      BY <1>1, <2>1, IndexSeen
    <3>2. RunFound[v] = HeadOf(log, guids, v)
      BY <3>1 DEF RunFound
    <3>3. HeadOf(log, guids, v) \in 0 .. Len(log)
      BY <1>1, HeadSite
    <3>4. ValueAt(log, HeadOf(log, guids, v), end) = ValueAt(log, HeadOf(log, guids, v), Len(log))
      BY <1>1, <2>1, <3>3, ChainSeen
    <3>5. QED
      BY <1>1, <3>2, <3>4 DEF ValueOf
  <2>2. CASE Behind
    BY <2>2 DEF Behind
  <2>3. QED
    BY <1>1, <2>1, <2>2
<1>3. RunFound[v] # 0 => store[v] # Absent
  <2>1. HAVE RunFound[v] # 0
  <2>2. RunFound[v] \in Of(log, guids, v)
    BY <1>1, <2>1, FoundOf
  <2>3. PICK h : h = HeadOf(log, guids, v)
    OBVIOUS
  <2>4. h # 0 /\ h \in Of(log, guids, v)
    BY <1>1, <2>2, <2>3, HeadSite
  <2>5. h \in Signed(log) /\ h \in 1 .. Len(log)
    BY <2>4 DEF Of, Valids, Signed
  <2>6. PICK root : Owns(log, root)
    BY <1>1 DEF Sane
  <2>7. NvGetDataNvar(log, h, Len(log)) \in Signed(log)
    BY <1>1, <2>5, <2>6, Tails
  <2>8. log[NvGetDataNvar(log, h, Len(log))].val # Absent
    BY <1>1, <2>7 DEF Sane
  <2>9. ValueOf(log, guids, v) = log[NvGetDataNvar(log, h, Len(log))].val
    BY <2>3, <2>4 DEF ValueOf, ValueAt
  <2>10. QED
    BY <1>1, <2>8, <2>9
<1>4. RunFound[v] = 0 => store[v] = Absent
  BY <1>2 DEF ValueAt
<1>5. QED
  BY <1>2, <1>3, <1>4

\* What is kept of the store when the area is written anew.
Rewritten(kept) ==
    [v \in Var |-> IF v = op.var THEN op.val ELSE IF v \in kept THEN store[v] ELSE Absent]

LEMMA RewrittenValues ==
  ASSUME SInv, pc = "recover", NEW kept \in SUBSET Var, NEW s, s = Survivors(kept),
         NEW seq, seq = Append(s, op.var), Fits(seq), UpdateVarstore(seq), Observe,
         UNCHANGED indexOn, IInv'
  PROVE  SInv' /\ store' = Rewritten(kept) /\ op' = NoOp /\ result' = "success"
<1> DEFINE n == Len(seq)
           t == GuidsOf(seq)
<1>1. /\ IInv /\ op.var \in Var /\ op.val \in Val /\ Absent \notin Val
  BY LogAssumption DEF SInv, IInv, Phase, Calls
<1>2. /\ s \in Seq(Var) /\ Len(s) \in Nat
      /\ \A k \in 1 .. Len(s) : s[k] \in kept /\ s[k] # op.var /\ RunFound[s[k]] # 0
      /\ \A j, k \in 1 .. Len(s) : s[j] = s[k] => j = k
      /\ \A v \in kept : v # op.var /\ RunFound[v] # 0 => \E k \in 1 .. Len(s) : s[k] = v
  BY <1>1, SurvivorsAre
<1>3. /\ seq \in Seq(Var) /\ n = Len(s) + 1 /\ seq[n] = op.var
      /\ \A k \in 1 .. Len(s) : seq[k] = s[k]
      /\ \A k \in 1 .. n : k \in 1 .. Len(s) \/ k = n
  BY <1>1, <1>2
<1>4. Distinct(seq)
  BY <1>2, <1>3 DEF Distinct
<1>5. /\ Fresh(log', guids', seq, t) /\ t \in Seq(Guids) /\ n + Len(t) + 2 <= Area
  BY <1>1, <1>3, FreshArea
<1>6. /\ first' = 1 /\ end' = n /\ nextGuid' = Len(t)
      /\ index' = IF indexOn THEN IndexOf(log', guids', 1, n) ELSE index
      /\ pc' = "idle" /\ op' = NoOp /\ rec' = 0 /\ result' = "success"
  BY DEF UpdateVarstore, Finish
<1>7. Good(log') /\ Len(log') = n
  BY <1>3, <1>5, FreshGood
<1>8. \A k \in 1 .. n : log'[k].val = IF seq[k] = op.var THEN op.val ELSE store[seq[k]]
  <2>1. TAKE k \in 1 .. n
  <2>2. log'[k].val = IF seq[k] = op.var THEN op.val ELSE Latest(RunFound[seq[k]])
    BY <1>5 DEF Fresh, RunFound
  <2>3. PICK v \in Var : v = seq[k]
    BY <1>3
  <2>4. v # op.var => Latest(RunFound[v]) = store[v]
    BY FoundValues DEF Latest
  <2>5. QED
    BY <2>2, <2>3, <2>4
<1>9. \A k \in 1 .. n : log'[k].val # Absent
  <2>1. TAKE k \in 1 .. n
  <2>2. CASE k = n
    BY <1>1, <1>3, <1>8, <2>2
  <2>3. CASE k \in 1 .. Len(s)
    <3>1. PICK v \in Var : v = s[k] /\ v # op.var /\ RunFound[v] # 0
      BY <1>2, <2>3
    <3>2. store[v] # Absent
      BY <3>1, FoundValues
    <3>3. QED
      BY <1>3, <1>8, <2>3, <3>1, <3>2
  <2>4. QED
    BY <1>3, <2>2, <2>3
<1>10. Filled(log')
  BY <1>7, <1>9 DEF Filled
<1> HIDE DEF t
<1>11. /\ Sane(log') /\ Unique(log', guids') /\ Placed(log', 1, Len(seq)) /\ Settled(log', Len(seq))
       /\ \A i \in Valids(log') : log'[i].guid < Len(t)
       /\ \A k \in 1 .. Len(seq) : ValueOf(log', guids', seq[k]) = log'[k].val
       /\ \A v \in Var : (\A k \in 1 .. Len(seq) : seq[k] # v) => ValueOf(log', guids', v) = Absent
  <2>1. PICK m, h : m = log' /\ h = guids'
    OBVIOUS
  <2>2. Fresh(m, h, seq, t) /\ Good(m) /\ Filled(m)
    BY <1>5, <1>7, <1>10, <2>1
  <2>3. /\ Sane(m) /\ Unique(m, h) /\ Placed(m, 1, Len(seq)) /\ Settled(m, Len(seq))
        /\ \A i \in Valids(m) : m[i].guid < Len(t)
        /\ \A k \in 1 .. Len(seq) : ValueOf(m, h, seq[k]) = m[k].val
        /\ \A v \in Var : (\A k \in 1 .. Len(seq) : seq[k] # v) => ValueOf(m, h, v) = Absent
    <3>1. Sane(m) /\ Unique(m, h) /\ Placed(m, 1, Len(seq)) /\ Settled(m, Len(seq))
      BY <1>3, <1>4, <1>5, <2>2, FreshValues
    <3>2. \A i \in Valids(m) : m[i].guid < Len(t)
      BY <1>3, <1>4, <1>5, <2>2, FreshValues
    <3>3. Lists(m, h, seq)
      BY <1>3, <1>4, <1>5, <2>2, FreshValues
    <3>4. QED
      BY <3>1, <3>2, <3>3 DEF Lists
  <2>4. QED
    BY <2>1, <2>3
<1>12. store' = [v \in Var |-> ValueOf(log', guids', v)]
  BY <1>7, <1>11, ObservedValues DEF Sound
<1>13. \A v \in Var : ValueOf(log', guids', v) = Rewritten(kept)[v]
  <2>1. TAKE v \in Var
  <2>2. CASE v = op.var
    <3>1. n \in 1 .. n /\ ValueOf(log', guids', v) = op.val
      BY <1>2, <1>3, <1>8, <1>11, <2>2
    <3>2. QED
      BY <2>2, <3>1 DEF Rewritten
  <2>3. CASE v # op.var /\ v \in kept /\ RunFound[v] # 0
    <3>1. PICK k \in 1 .. Len(s) : s[k] = v
      BY <1>2, <2>3
    <3>2. k \in 1 .. n /\ seq[k] = v
      BY <1>2, <1>3, <3>1
    <3>3. ValueOf(log', guids', v) = store[v]
      BY <1>8, <1>11, <2>3, <3>2
    <3>4. QED
      BY <2>3, <3>3 DEF Rewritten
  <2>4. CASE v # op.var /\ (v \notin kept \/ RunFound[v] = 0)
    <3>1. \A k \in 1 .. n : seq[k] # v
      BY <1>2, <1>3, <2>4
    <3>2. ValueOf(log', guids', v) = Absent
      BY <1>11, <3>1
    <3>3. v \in kept => store[v] = Absent
      BY <2>4, FoundValues
    <3>4. QED
      BY <2>4, <3>2, <3>3 DEF Rewritten
  <2>5. QED
    BY <2>2, <2>3, <2>4
<1>14. store' = Rewritten(kept)
  BY <1>12, <1>13 DEF Rewritten
<1>15. indexOn' => index' = [v \in Var |-> HeadOf(log', guids', v)]
  <2>1. IndexOf(log', guids', 1, n) = [v \in Var |-> HeadOf(log', guids', v)]
    BY <1>2, <1>3, <1>7, <1>11, IndexSeen
  <2>2. QED
    BY <1>6, <2>1
<1>16. Running'
  <2>1. first' \in Nat /\ end' \in Nat /\ (end' = 0 => first' = 1)
    BY <1>2, <1>3, <1>6
  <2>2. Placed(log', first', end') /\ Settled(log', end')
        /\ \A i \in Valids(log') : log'[i].guid < nextGuid'
    BY <1>6, <1>11
  <2>3. QED
    BY <1>7, <1>11, <1>15, <2>1, <2>2, RunningKept
<1>17. Progress'
  BY <1>6 DEF Progress
<1>18. QED
  BY <1>6, <1>11, <1>12, <1>14, <1>16, <1>17 DEF SInv

\* Error recovery copies everything, or what the filter keeps, or gives up.
LEMMA RecoverValues ==
  ASSUME SInv, Recover
  PROVE  /\ SInv' /\ op' = NoOp /\ op # NoOp
         /\ \/ store' = store /\ result' = "error" /\ ~Fits(Append(Survivors(Var), op.var))
            \/ result' = "success" /\ \E kept \in {Var, Persistent} : store' = Rewritten(kept)
<1>1. PICK all : all = Append(Survivors(Var), op.var)
  OBVIOUS
<1>2. PICK some : some = Append(Survivors(Persistent), op.var)
  OBVIOUS
<1>3. /\ pc = "recover" /\ Observe /\ UNCHANGED <<indexOn, faults>>
      /\ \/ Fits(all) /\ UpdateVarstore(all)
         \/ Fits(some) /\ UpdateVarstore(some)
         \/ ~Fits(all) /\ Finish("error") /\ UNCHANGED <<log, guids, first, end, nextGuid, index>>
  BY <1>1, <1>2 DEF Recover, info
<1>4. IInv'
  BY RecoverInv DEF SInv
<1>5. op # NoOp /\ Persistent \in SUBSET Var
  BY <1>3, CallInProgress, LogAssumption
<1>6. CASE Fits(all) /\ UpdateVarstore(all)
  <2>1. SInv' /\ store' = Rewritten(Var) /\ op' = NoOp /\ result' = "success"
    BY <1>1, <1>3, <1>4, <1>6, RewrittenValues
  <2>2. QED
    BY <1>5, <2>1
<1>7. CASE Fits(some) /\ UpdateVarstore(some)
  <2>1. SInv' /\ store' = Rewritten(Persistent) /\ op' = NoOp /\ result' = "success"
    BY <1>2, <1>3, <1>4, <1>5, <1>7, RewrittenValues
  <2>2. QED
    BY <1>5, <2>1
<1>8. CASE ~Fits(all) /\ Finish("error") /\ UNCHANGED <<log, guids, first, end, nextGuid, index>>
  <2>1. pc' = "idle" /\ op' = NoOp /\ result' = "error"
    BY <1>8 DEF Finish
  <2>2. /\ Running /\ Sane(log) /\ Unique(log, guids) /\ Good(log)
        /\ store = [v \in Var |-> ValueOf(log, guids, v)]
    BY <1>3 DEF SInv, IInv
  <2>3. Settled(log, end)
    BY <1>1, <1>8, <2>2 DEF Running, Behind
  <2>4. Running'
    BY <1>3, <1>8, <2>2, <2>3 DEF Running, RunFound
  <2>5. store' = [v \in Var |-> ValueOf(log', guids', v)]
    BY <1>3, <1>8, <2>2, ObservedValues DEF Sound
  <2>6. store' = store
    BY <1>8, <2>2, <2>5
  <2>7. Progress'
    BY <2>1 DEF Progress
  <2>8. SInv'
    BY <1>4, <1>8, <2>1, <2>2, <2>4, <2>5, <2>7 DEF SInv
  <2>9. QED
    BY <1>1, <1>5, <1>8, <2>1, <2>6, <2>8
<1>9. QED
  BY <1>3, <1>6, <1>7, <1>8

\* What a step may do with a call: nothing, one of its effects, its end.
Promised ==
    /\ store' = store \/ (op # NoOp /\ store' \in Abstract!Effects)
    /\ op # NoOp /\ op' = NoOp /\ result' = "success" => store'[op.var] = op.val
    /\ op # NoOp /\ op' = NoOp /\ pc' # "off" /\ result' = "error" /\ faults' = faults =>
         ~Fits(Append(Survivors(Var), op.var))

LEMMA EffectsAre ==
  ASSUME SInv, op # NoOp
  PROVE  /\ op.var \in Var /\ store \in [Var -> Val \cup {Absent}]
         /\ [store EXCEPT ![op.var] = op.val] \in Abstract!Effects
         /\ Rewritten(Var) \in Abstract!Effects
         /\ Rewritten(Persistent) \in Abstract!Effects
         /\ \A kept : Rewritten(kept)[op.var] = op.val
<1>1. op.var \in Var /\ store \in [Var -> Val \cup {Absent}]
  <2>1. pc \notin {"off", "idle"}
    BY DEF SInv
  <2>2. pc \in {"header", "guid", "body", "sign", "link", "delete", "recover"}
    BY <2>1 DEF SInv, IInv, TypeOK
  <2>3. QED
    BY <2>2, CallInProgress
<1>2. Rewritten(Var) = [store EXCEPT ![op.var] = op.val]
  BY <1>1 DEF Rewritten
<1>3. [store EXCEPT ![op.var] = op.val] \in Abstract!Effects
  BY DEF Abstract!Effects
<1>4. Rewritten(Persistent) \in Abstract!Effects
  BY DEF Abstract!Effects, Rewritten
<1>5. \A kept : Rewritten(kept)[op.var] = op.val
  BY <1>1 DEF Rewritten
<1>6. QED
  BY <1>1, <1>2, <1>3, <1>4, <1>5

LEMMA InitValues ==
  ASSUME Init
  PROVE  SInv
<1>1. IInv /\ Good(log)
  BY InvInit DEF IInv
<1>2. /\ log = <<>> /\ pc = "off" /\ op = NoOp /\ store = [v \in Var |-> Absent]
      /\ Len(log) = 0 /\ 1 .. Len(log) = {}
  BY DEF Init
<1>3. Signed(log) = {} /\ Valids(log) = {}
  BY <1>2 DEF Signed, Valids
<1>4. \A v \in Var : Of(log, guids, v) = {}
  BY <1>3 DEF Of
<1>5. Unique(log, guids)
  BY <1>4 DEF Unique
<1>6. \A v \in Var : ValueOf(log, guids, v) = Absent
  BY <1>4 DEF ValueOf, HeadOf, ValueAt
<1>7. Sane(log)
  <2>1. PICK root : root = [i \in 1 .. Len(log) |-> i]
    OBVIOUS
  <2>2. Owns(log, root)
    BY <1>2, <2>1 DEF Owns
  <2>3. QED
    BY <1>2, <1>3, <2>2 DEF Sane
<1>8. Progress
  BY <1>2 DEF Progress
<1>9. store = [v \in Var |-> ValueOf(log, guids, v)]
  BY <1>2, <1>6
<1>10. QED
  BY <1>1, <1>2, <1>5, <1>7, <1>8, <1>9 DEF SInv

LEMMA StutterValues ==
  ASSUME SInv, UNCHANGED vars
  PROVE  SInv' /\ Promised
<1>1. UNCHANGED <<log, guids, first, end, nextGuid, last, index, indexOn, pc, op, rec, result,
                  faults, store>>
  BY DEF vars, info
<1>2. IInv'
  BY InvStutters DEF SInv
<1>3. GuidCell(op.var)' = GuidCell(op.var) /\ Survivors(Var)' = Survivors(Var) /\ RunFound' = RunFound
  BY <1>1 DEF GuidCell, Survivors, RunFound
<1>4. pc # "off" => Running'
  <2>1. Behind => Behind'
    BY <1>1, <1>3 DEF Behind, Fits
  <2>2. pc # "off" => Running
    BY DEF SInv
  <2>3. QED
    BY <1>1, <1>3, <2>1, <2>2 DEF Running
<1>5. Progress'
  BY <1>1, <1>3 DEF SInv, Progress
<1>6. /\ store' = [v \in Var |-> ValueOf(log', guids', v)] /\ Sane(log') /\ Unique(log', guids')
      /\ pc' \in {"off", "idle"} => op' = NoOp
  BY <1>1 DEF SInv
<1>7. SInv'
  BY <1>1, <1>2, <1>4, <1>5, <1>6 DEF SInv
<1>8. QED
  BY <1>1, <1>7 DEF Promised

LEMMA StepValues ==
  ASSUME Orderly, SInv, [Next]_vars
  PROVE  SInv' /\ Promised
<1>1. CASE Boot
  <2>1. op = NoOp /\ store' = store
    BY <1>1 DEF Boot, SInv
  <2>2. QED
    BY <1>1, <2>1, BootValues DEF Promised
<1>2. CASE ExitBootServices
  <2>1. op = NoOp /\ store' = store
    BY <1>2 DEF ExitBootServices, SInv
  <2>2. QED
    BY <1>2, <2>1, ExitValues DEF Promised
<1>3. ASSUME NEW v \in Var, NEW d \in Val \cup {Absent}, SetVariable(v, d)
      PROVE  SInv' /\ Promised
  BY <1>3, SetVariableValues DEF Promised
<1>4. CASE ProgramHeader \/ ProgramGuid \/ ProgramBody
  <2>1. SInv' /\ store' = store /\ op' = op
    BY <1>4, HeaderValues, GuidValues, BodyValues
  <2>2. QED
    BY <2>1 DEF Promised
<1>5. CASE ProgramSignature \/ ProgramLink \/ Delete
  <2>1. SInv' /\ ((store' = store /\ op' = op) \/ Done)
    BY <1>5, SignatureValues, LinkValues, DeleteValues
  <2>2. CASE store' = store /\ op' = op
    BY <2>1, <2>2 DEF Promised
  <2>3. CASE Done
    <3>1. /\ op # NoOp /\ result' = "success" /\ store' = [store EXCEPT ![op.var] = op.val]
          /\ store'[op.var] = op.val
      BY <2>3 DEF Done
    <3>2. store' \in Abstract!Effects
      BY <3>1, EffectsAre
    <3>3. QED
      BY <2>1, <3>1, <3>2 DEF Promised
  <2>4. QED
    BY <2>1, <2>2, <2>3
<1>6. CASE WriteFails
  <2>1. /\ SInv' /\ (op' = op \/ result' = "error") /\ faults' # faults
        /\ store' = store \/ (op # NoOp /\ store' = [store EXCEPT ![op.var] = op.val])
    BY <1>6, WriteFailsValues
  <2>2. store' = store \/ (op # NoOp /\ store' \in Abstract!Effects)
    BY <2>1, EffectsAre
  <2>3. QED
    BY <2>1, <2>2 DEF Promised
<1>7. CASE Recover
  <2>1. /\ SInv' /\ op' = NoOp /\ op # NoOp
        /\ \/ store' = store /\ result' = "error" /\ ~Fits(Append(Survivors(Var), op.var))
           \/ result' = "success" /\ \E kept \in {Var, Persistent} : store' = Rewritten(kept)
    BY <1>7, RecoverValues
  <2>2. CASE store' = store /\ result' = "error" /\ ~Fits(Append(Survivors(Var), op.var))
    BY <2>1, <2>2 DEF Promised
  <2>3. CASE result' = "success" /\ \E kept \in {Var, Persistent} : store' = Rewritten(kept)
    <3>1. PICK kept \in {Var, Persistent} : store' = Rewritten(kept)
      BY <2>3
    <3>2. store' \in Abstract!Effects
      BY <2>1, <3>1, EffectsAre
    <3>3. store'[op.var] = op.val
      BY <2>1, <3>1, EffectsAre
    <3>4. QED
      BY <2>1, <2>3, <3>2, <3>3 DEF Promised
  <2>4. QED
    BY <2>1, <2>2, <2>3
<1>8. CASE Crash
  <2>1. /\ SInv' /\ pc' = "off"
        /\ store' = store \/ (op # NoOp /\ store' = [store EXCEPT ![op.var] = op.val])
    BY <1>8, CrashValues
  <2>2. result' = "none"
    BY <1>8 DEF Crash
  <2>3. store' = store \/ (op # NoOp /\ store' \in Abstract!Effects)
    BY <2>1, EffectsAre
  <2>4. QED
    BY <2>1, <2>2, <2>3 DEF Promised
<1>9. CASE UNCHANGED vars
  BY <1>9, StutterValues
<1>10. QED
  BY <1>1, <1>2, <1>3, <1>4, <1>5, <1>6, <1>7, <1>8, <1>9 DEF Next

LEMMA SInvCorrect ==
  ASSUME Orderly
  PROVE  Spec => []SInv
<1>1. Init => SInv
  BY InitValues
<1>2. SInv /\ [Next]_vars => SInv'
  BY StepValues
<1>3. QED
  BY <1>1, <1>2, PTL DEF Spec

\* Error recovery gives up only when the variables a boot would find, and the one
\* being set, do not fit into an erased area.
LEMMA StoreFull ==
  ASSUME SInv, op # NoOp, ~Fits(Append(Survivors(Var), op.var)),
         NEW live, live = {v \in Var : store[v] # Absent} \cup {op.var}
  PROVE  Cardinality(live) + Cardinality({v.guid : v \in live}) + 2 > Area
<1>1. /\ op.var \in Var /\ IInv /\ pc # "off" /\ Area \in Nat
  BY EffectsAre, LogAssumption DEF SInv
<1>2. PICK s : s = Survivors(Var)
  OBVIOUS
<1>3. PICK all : all = Append(s, op.var)
  OBVIOUS
<1>4. /\ s \in Seq(Var) /\ Len(s) \in Nat
      /\ \A k \in 1 .. Len(s) : s[k] # op.var /\ RunFound[s[k]] # 0
      /\ \A j, k \in 1 .. Len(s) : s[j] = s[k] => j = k
      /\ \A v \in Var : v # op.var /\ RunFound[v] # 0 => \E k \in 1 .. Len(s) : s[k] = v
  BY <1>1, <1>2, SurvivorsAre
<1>5. PICK n \in Nat : n = Len(all)
  BY <1>1, <1>3, <1>4
<1>6. /\ all \in Seq(Var) /\ n = Len(s) + 1 /\ all[n] = op.var
      /\ \A k \in 1 .. Len(s) : all[k] = s[k]
      /\ \A k \in 1 .. n : k \in 1 .. Len(s) \/ k = n
  BY <1>1, <1>3, <1>4, <1>5
<1>7. \A v \in Var : v # op.var => (RunFound[v] = 0 <=> store[v] = Absent)
  BY <1>1, FoundValues
<1>8. \A k \in 1 .. n : all[k] \in live
  <2>1. \A k \in 1 .. Len(s) : s[k] \in Var /\ store[s[k]] # Absent
    BY <1>4, <1>7
  <2>2. QED
    BY <1>6, <2>1
<1>9. \A j, k \in 1 .. n : all[j] = all[k] => j = k
  BY <1>4, <1>6
<1>10. \A v \in live : \E k \in 1 .. n : all[k] = v
  <2>1. TAKE v \in live
  <2>2. CASE v = op.var
    BY <1>4, <1>6, <2>2
  <2>3. CASE v # op.var
    <3>1. v \in Var /\ RunFound[v] # 0
      BY <1>7, <2>3
    <3>2. PICK k \in 1 .. Len(s) : s[k] = v
      BY <1>4, <2>3, <3>1
    <3>3. QED
      BY <1>4, <1>6, <3>2
  <2>4. QED
    BY <2>2, <2>3
<1>11. Cardinality(live) = n
  <2>1. PICK f : f = [k \in 1 .. n |-> all[k]]
    OBVIOUS
  <2>2. f \in [1 .. n -> live] /\ \A k \in 1 .. n : f[k] = all[k]
    BY <1>8, <2>1
  <2>3. f \in Injection(1 .. n, live)
    BY <1>9, <2>2 DEF Injection, IsInjective
  <2>4. f \in Surjection(1 .. n, live)
    BY <1>10, <2>2 DEF Surjection
  <2>5. ExistsBijection(1 .. n, live)
    BY <2>3, <2>4 DEF Bijection, ExistsBijection
  <2>6. IsFiniteSet(1 .. n) /\ Cardinality(1 .. n) = n
    <3>1. n \in Nat
      OBVIOUS
    <3>2. QED
      BY <3>1, FS_Interval
  <2>7. QED
    BY <2>5, <2>6, FS_Bijection
<1>12. {v.guid : v \in live} = {all[k].guid : k \in 1 .. n}
  <2>1. \A x \in {v.guid : v \in live} : x \in {all[k].guid : k \in 1 .. n}
    <3>1. TAKE x \in {v.guid : v \in live}
    <3>2. PICK v \in live : x = v.guid
      OBVIOUS
    <3>3. PICK k \in 1 .. n : all[k] = v
      BY <1>10, <3>2
    <3>4. QED
      BY <3>2, <3>3
  <2>2. \A x \in {all[k].guid : k \in 1 .. n} : x \in {v.guid : v \in live}
    BY <1>8
  <2>3. QED
    BY <2>1, <2>2
<1>13. PICK T : T = {all[k].guid : k \in 1 .. Len(all)}
  OBVIOUS
<1>14. Cardinality(T) \in Nat
  BY <1>6, <1>13, GuidsListed
<1>15. ~(n + Cardinality(T) + 2 <= Area)
  BY <1>2, <1>3, <1>5, <1>13 DEF Fits
<1>16. {v.guid : v \in live} = T
  BY <1>5, <1>12, <1>13
<1>17. n + Cardinality(T) + 2 > Area
  BY <1>1, <1>14, <1>15
<1>18. QED
  BY <1>11, <1>16, <1>17

---------------------------------------------------------------------------
\* FindRecord through the index, the walk of the running system and the walk of the
\* next boot find each variable with the same value whenever no call is in progress,
\* for any number of variables, values, cells and power failures, when the flash
\* operations are clean (Orderly).
THEOREM AlikeFound == Orderly => (Spec => []FoundAlike)
<1>1. SInv => FoundAlike
  <2>1. SUFFICES ASSUME SInv, pc = "idle"
                 PROVE  \A v \in Var : /\ ValueAt(log, FindRecord(v), end) = store[v]
                                       /\ ValueAt(log, RunFound[v], end) = store[v]
    BY DEF FoundAlike, RunFound
  <2>2. TAKE v \in Var
  <2>3. FindRecord(v) = HeadOf(log, guids, v)
    BY <2>1, FindsRecord
  <2>4. /\ RunFound = [w \in Var |-> HeadOf(log, guids, w)]
        /\ \A w \in Var : ValueAt(log, HeadOf(log, guids, w), end) = store[w]
    BY <2>1, Runs
  <2>5. QED
    BY <2>3, <2>4
<1>2. ASSUME Orderly
      PROVE  Spec => []FoundAlike
  BY <1>1, <1>2, SInvCorrect, PTL
<1>3. QED
  BY <1>2

\* A power failure or a failed operation anywhere in a call leaves a store in which
\* the variable being set has its old value or its new one, and the others have
\* theirs (or have all gone that the cleanup filter does not keep).
THEOREM AtomicCalls == Orderly => (Spec => Atomic)
<1>1. ASSUME Orderly
      PROVE  Spec => Atomic
  <2>1. SInv /\ [Next]_vars => [UNCHANGED store \/ (op # NoOp /\ store' \in Abstract!Effects)]_vars
    BY <1>1, StepValues DEF Promised
  <2>2. Spec => []SInv
    BY <1>1, SInvCorrect
  <2>3. QED
    BY <2>1, <2>2, PTL DEF Spec, Atomic
<1>2. QED
  BY <1>1

\* A call that reports success has stored its value, whatever failed on its way.
THEOREM DurableSuccess == Orderly => (Spec => SuccessIsDurable)
<1>1. ASSUME Orderly
      PROVE  Spec => SuccessIsDurable
  <2>1. SInv /\ [Next]_vars =>
          [(op # NoOp /\ op' = NoOp /\ result' = "success") => store'[op.var] = op.val]_vars
    BY <1>1, StepValues DEF Promised
  <2>2. Spec => []SInv
    BY <1>1, SInvCorrect
  <2>3. QED
    BY <2>1, <2>2, PTL DEF Spec, SuccessIsDurable
<1>2. QED
  BY <1>1

\* Error recovery has room for the variables there are: a step in which no operation
\* fails reports an error for a value only when they do not fit into an erased area.
THEOREM OnlyFullFails == Orderly => (Spec => FailsOnlyWhenFull)
<1>1. ASSUME Orderly
      PROVE  Spec => FailsOnlyWhenFull
  <2>1. ASSUME SInv, [Next]_vars, op # NoOp, op' = NoOp, pc' # "off", result' = "error",
               faults' = faults
        PROVE  LET live == {v \in Var : store[v] # Absent} \cup {op.var}
               IN Cardinality(live) + Cardinality({v.guid : v \in live}) + 2 > Area
    <3>1. ~Fits(Append(Survivors(Var), op.var))
      BY <1>1, <2>1, StepValues DEF Promised
    <3>2. PICK live : live = {v \in Var : store[v] # Absent} \cup {op.var}
      OBVIOUS
    <3>3. Cardinality(live) + Cardinality({v.guid : v \in live}) + 2 > Area
      BY <2>1, <3>1, <3>2, StoreFull
    <3>4. QED
      BY <3>2, <3>3
  <2>2. SInv /\ [Next]_vars =>
          [(op # NoOp /\ op.val # Absent /\ op' = NoOp /\ pc' # "off" /\ result' = "error"
            /\ faults' = faults)
           => LET live == {v \in Var : store[v] # Absent} \cup {op.var}
              IN Cardinality(live) + Cardinality({v.guid : v \in live}) + 2 > Area]_vars
    BY <2>1
  <2>3. Spec => []SInv
    BY <1>1, SInvCorrect
  <2>4. QED
    BY <2>2, <2>3, PTL DEF Spec, FailsOnlyWhenFull
<1>2. QED
  BY <1>1
=============================================================================
