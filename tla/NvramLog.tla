------------------------------ MODULE NvramLog ------------------------------
(***************************************************************************)
(* The log of records inside one NVRAM area (NvramDxeCommon.c,             *)
(* NvramRead.c): a variable is a record with its name, followed through    *)
(* "next" links by records that only hold newer data; GUIDs are kept in a  *)
(* table that grows down from the end of the area.  Flash is programmed a  *)
(* field at a time, and power can fail, or a program operation can report  *)
(* an error, in the middle of any of them.  A record and a GUID each take  *)
(* one cell of the area.  Garbage collection is one step here: NvramBanks  *)
(* models its steps.                                                       *)
(***************************************************************************)
EXTENDS Naturals, FiniteSets, Sequences, FiniteSetsExt, Ordering

CONSTANTS Var,          \* the variables: records with a name and a guid
          Val,          \* the values
          Absent,       \* no value, no name
          Persistent,   \* the variables the cleanup filter keeps
          Blank,        \* an erased cell of the GUID table
          Torn,         \* a cell of it that is partly programmed
          Area,         \* the cells of the area
          TornLink,     \* may power fail between the three bytes of a link?
          EmptyFaults,  \* may an operation fail while the store has no record?
          LateFaults,   \* may a delete that reports an error have taken effect?
          LostGuids,    \* may a failed operation leave the GUID's cell erased?
          MaxFaults     \* how many operations report an error

ASSUME LogAssumption ==
    /\ IsFiniteSet(Var) /\ \A v \in Var : v = [name |-> v.name, guid |-> v.guid]
    /\ Absent \notin Val \cup Var \cup {v.name : v \in Var} /\ Persistent \subseteq Var
    /\ Blank # Torn /\ {Blank, Torn} \cap {v.guid : v \in Var} = {}
    /\ Area \in Nat \ {0} /\ MaxFaults \in Nat
    /\ {TornLink, EmptyFaults, LateFaults, LostGuids} \subseteq BOOLEAN

VARIABLES log,       \* the records in flash; what follows them is erased
          guids,     \* the GUID table in flash
          first, end, nextGuid, last, \* pFirstVar, pEndOfVars, NextGuid, LastVarSize
          index,     \* the record the index holds for a variable, 0: none
          indexOn,   \* until ExitBootServices
          pc,        \* the next flash operation of the call in progress
          op,        \* its arguments
          rec,       \* the record it found for the variable, 0: none
          result,    \* how the last call ended
          faults,    \* how many operations have reported an error
          store      \* the variables the next boot would find: Contents(log, guids)

info == <<first, end, nextGuid, last>>
vars == <<log, guids, info, index, indexOn, pc, op, rec, result, faults, store>>

Guids == {v.guid : v \in Var}
Names == {v.name : v \in Var}
Cells == 0 .. Area - 1
Far == Area + 2            \* a link whose first byte only has been programmed
NoOp == [var |-> Absent, val |-> Absent]

Record == [size : {"ok", "bad"}, signed : BOOLEAN, valid : BOOLEAN, dataOnly : BOOLEAN,
           name : Names \cup {Absent}, guid : Cells, val : Val \cup {Absent}, next : 0 .. Far]
Torso(dataOnly) ==
    [size |-> "ok", signed |-> FALSE, valid |-> TRUE, dataOnly |-> dataOnly,
     name |-> Absent, guid |-> 0, val |-> Absent, next |-> 0]

TypeOK ==
    /\ log \in Seq(Record) /\ Len(log) <= Area
    /\ guids \in [Cells -> Guids \cup {Blank, Torn}]
    /\ first \in 1 .. Area /\ end \in 0 .. Area /\ nextGuid \in 0 .. Area /\ last \in 0 .. 2
    /\ index \in [Var -> 0 .. Area] /\ indexOn \in BOOLEAN
    /\ pc \in {"off", "idle", "header", "guid", "body", "sign", "link", "delete", "recover"}
    /\ op \in [var : Var \cup {Absent}, val : Val \cup {Absent}]
    /\ rec \in 0 .. Area /\ result \in {"none", "success", "error"} /\ faults \in 0 .. MaxFaults
    /\ store \in [Var -> Val \cup {Absent}]

---------------------------------------------------------------------------
\* Reading a log l whose records end at e.

\* NvIsVariable: a signed record that lies before e, as does what it links to.
NvIsVariable(l, i, e) ==
    /\ i \in 1 .. Len(l) /\ i <= e /\ l[i].size = "ok" /\ l[i].signed
    /\ l[i].next = 0 \/ (l[i].next > i /\ l[i].next <= e + 1)

NvIsValid(r) == r.valid /\ ~r.dataOnly

\* The records NvGetNextNvar visits from the one at f: a record that is not a
\* variable is skipped by its size, one without a usable size ends the walk.
\* Nothing is visited when f itself is not a variable (NvGetFirstValid).
Walk(l, f, e) ==
    IF ~NvIsVariable(l, f, e) THEN {}
    ELSE {i \in f .. Len(l) : /\ NvIsVariable(l, i, e)
                              /\ \A k \in f .. i : l[k].size = "ok"}

\* NvFindVariable: the first valid record with the name and the GUID on a walk.
NvFindVariable(l, g, walk, v) ==
    LET found == {i \in walk : NvIsValid(l[i]) /\ l[i].name = v.name /\ g[l[i].guid] = v.guid}
    IN IF found = {} THEN 0 ELSE Min(found)

\* NvGetDataNvar: the last record of the chain that starts at i.
ChainEnds(l, e) ==
    LET end_of[k \in 1 .. Len(l)] ==
            IF NvIsVariable(l, l[k].next, e) THEN end_of[l[k].next] ELSE k
    IN end_of
NvGetDataNvar(l, i, e) == ChainEnds(l, e)[i]

\* EnumerateStore after NvResetInfoBuffer: where a boot, or a garbage collection,
\* finds the first valid record, the end of the log and the next GUID cell.
Enumerate(l) ==
    LET all == Walk(l, 1, Area)
        valid == {i \in all : NvIsValid(l[i])}
        f == IF valid = {} THEN 1 ELSE Min(valid)
        walk == {i \in all : i >= f}
        e == Max(walk)
        g == Max({0} \cup {l[i].guid : i \in {k \in walk : ~l[k].dataOnly}}) + 1
        skip == e < Len(l) /\ l[e + 1].size = "ok" /\ e + 1 <= Area - (g + 1)
    IN IF all = {} THEN [first |-> 1, end |-> 0, nextGuid |-> 0, last |-> 0]
       ELSE [first |-> f, end |-> IF skip THEN e + 1 ELSE e, nextGuid |-> g,
             last |-> IF skip THEN 2 ELSE 1]

ValueAt(l, i, e) == IF i = 0 THEN Absent ELSE l[NvGetDataNvar(l, i, e)].val

\* The variables a boot would find in the log l with the GUID table g.
Contents(l, g) ==
    LET b == Enumerate(l)
        walk == Walk(l, b.first, b.end)
    IN [v \in Var |-> ValueAt(l, NvFindVariable(l, g, walk, v), b.end)]

\* IndexReset: every valid record, the first one for each variable.
IndexOf(l, g, f, e) ==
    LET walk == Walk(l, f, e) IN [v \in Var |-> NvFindVariable(l, g, walk, v)]

\* FindVariableGetSetRecords: the index first, the walk when the index is off
\* or holds an entry whose record is no longer a variable.
FindRecord(v) ==
    IF indexOn /\ NvIsVariable(log, index[v], end) THEN index[v]
    ELSE IF indexOn /\ \A w \in Var : index[w] = 0 \/ NvIsVariable(log, index[w], end) THEN 0
    ELSE NvFindVariable(log, guids, Walk(log, first, end), v)

\* Mutant: the cell the next GUID goes to is not looked at.
IsStoreOkGuidsIgnored ==
    /\ last = 0 \/ NvIsVariable(log, end - last + 1, end)
    /\ Len(log) <= end
IsStoreOk ==
    /\ last = 0 \/ NvIsVariable(log, end - last + 1, end)
    /\ Len(log) <= end
    /\ guids[nextGuid] = Blank

\* Mutant: room is kept for the record only, up to the table as it is.
IsEnoughSpaceRecordOnly(size) == end + 1 <= Area - nextGuid
IsEnoughSpace(size) == end + size <= Area - (nextGuid + 1) - 1

\* The cell of the GUID in the table, or the next one.
GuidCell(v) ==
    LET known == {c \in 0 .. nextGuid - 1 : guids[c] = v.guid}
    IN IF known = {} THEN nextGuid ELSE Min(known)

---------------------------------------------------------------------------
Init ==
    /\ log = <<>> /\ guids = [c \in Cells |-> Blank]
    /\ first = 1 /\ end = 0 /\ nextGuid = 0 /\ last = 0
    /\ index = [v \in Var |-> 0] /\ indexOn = FALSE
    /\ pc = "off" /\ op = NoOp /\ rec = 0 /\ result = "none" /\ faults = 0
    /\ store = [v \in Var |-> Absent]

Finish(r) == pc' = "idle" /\ op' = NoOp /\ rec' = 0 /\ result' = r

\* Flash may have changed: what the next boot would find.
Observe == \E l \in {log'}, g \in {guids'} : store' = Contents(l, g)

\* NvramInitialize: the store is enumerated and indexed.
Boot ==
    /\ pc = "off" /\ pc' = "idle"
    /\ LET b == Enumerate(log) IN
       /\ first' = b.first /\ end' = b.end /\ nextGuid' = b.nextGuid /\ last' = b.last
       /\ index' = IndexOf(log, guids, b.first, b.end)
    /\ indexOn' = TRUE
    /\ UNCHANGED <<log, guids, op, rec, result, faults, store>>

\* SwitchToRuntime: the index is given up.
ExitBootServices ==
    /\ pc = "idle" /\ indexOn /\ indexOn' = FALSE /\ index' = [v \in Var |-> 0]
    /\ UNCHANGED <<log, guids, info, pc, op, rec, result, faults, store>>

\* DxeSetVariable up to its first flash operation: what is to be done.
SetVariable(v, d) ==
    LET r == FindRecord(v)
        size == IF r = 0 /\ GuidCell(v) = nextGuid THEN 2 ELSE 1
        Start(step) == /\ pc' = step /\ op' = [var |-> v, val |-> d] /\ rec' = r
                       /\ result' = "none"
    IN
    /\ pc = "idle"
    /\ \/ d = Absent /\ r = 0 /\ Finish("error")
       \/ d = Absent /\ r # 0 /\ Start("delete")
       \/ /\ d # Absent /\ IsStoreOk /\ r # 0 /\ ValueAt(log, r, end) = d /\ Finish("success")
       \/ /\ d # Absent /\ IsStoreOk /\ (r = 0 \/ ValueAt(log, r, end) # d)
          /\ Start(IF IsEnoughSpace(size) THEN "header" ELSE "recover")
       \/ d # Absent /\ ~IsStoreOk /\ Start("recover")
    /\ UNCHANGED <<log, guids, info, index, indexOn, faults, store>>

---------------------------------------------------------------------------
\* CreateVariableEx and UpdateVariable, in the order they program flash.

new == end + 1         \* where the record goes
lastRec == NvGetDataNvar(log, rec, end)

Header(l) == Append(l, Torso(rec # 0))
GuidEntry(g) == [g EXCEPT ![nextGuid] = op.var.guid]
Body(l) ==
    IF rec = 0
    THEN [l EXCEPT ![new].name = op.var.name, ![new].guid = GuidCell(op.var),
                   ![new].val = op.val]
    ELSE [l EXCEPT ![new].val = op.val]
Signature(l) == [l EXCEPT ![new].signed = TRUE]
Link(l) == [l EXCEPT ![lastRec].next = new]
Invalid(l) == [l EXCEPT ![rec].valid = FALSE]

\* Mutant: the size of the record is added to LastVarSize.
CompleteSizeAdded ==
    /\ end' = end + 1 /\ last' = last + 1
    /\ index' = IF indexOn /\ rec = 0 THEN [index EXCEPT ![op.var] = new] ELSE index
    /\ Finish("success")
\* The record is complete: CreateVariableEx adds it to the index.
Complete ==
    /\ end' = end + 1 /\ last' = 1
    /\ index' = IF indexOn /\ rec = 0 THEN [index EXCEPT ![op.var] = new] ELSE index
    /\ Finish("success")

ProgramHeader ==
    /\ pc = "header" /\ log' = Header(log)
    /\ pc' = IF rec = 0 /\ GuidCell(op.var) = nextGuid THEN "guid" ELSE "body"
    /\ UNCHANGED <<guids, info, index, indexOn, op, rec, result, faults>>
    /\ Observe

ProgramGuid ==
    /\ pc = "guid" /\ guids' = GuidEntry(guids) /\ nextGuid' = nextGuid + 1 /\ pc' = "body"
    /\ UNCHANGED <<log, first, end, last, index, indexOn, op, rec, result, faults>>
    /\ Observe

ProgramBody ==
    /\ pc = "body" /\ log' = Body(log) /\ pc' = "sign"
    /\ UNCHANGED <<guids, info, index, indexOn, op, rec, result, faults>>
    /\ Observe

\* Mutant: an update ends with the signature, the record is never linked.
ProgramSignatureUnlinked ==
    /\ pc = "sign" /\ log' = Signature(log) /\ Complete
    /\ UNCHANGED <<guids, first, nextGuid, indexOn, faults>>
    /\ Observe
ProgramSignature ==
    /\ pc = "sign" /\ log' = Signature(log)
    /\ \/ rec = 0 /\ Complete
       \/ rec # 0 /\ pc' = "link" /\ UNCHANGED <<end, last, index, op, rec, result>>
    /\ UNCHANGED <<guids, first, nextGuid, indexOn, faults>>
    /\ Observe

ProgramLink ==
    /\ pc = "link" /\ log' = Link(log) /\ Complete
    /\ UNCHANGED <<guids, first, nextGuid, indexOn, faults>>
    /\ Observe

\* DeleteVariable.
Delete ==
    /\ pc = "delete" /\ log' = Invalid(log) /\ Finish("success")
    /\ index' = [index EXCEPT ![op.var] = 0]
    /\ UNCHANGED <<guids, info, indexOn, faults>>
    /\ Observe

---------------------------------------------------------------------------
\* What an operation that did not complete may leave in flash.
Partial ==
    CASE pc = "header" -> {<<log, guids>>, <<Header(log), guids>>,
                           <<Append(log, [Torso(rec # 0) EXCEPT !.size = "bad"]), guids>>}
      [] pc = "guid"   -> {<<log, guids>>, <<log, [guids EXCEPT ![nextGuid] = Torn]>>,
                           <<log, GuidEntry(guids)>>}
      [] pc = "body"   -> {<<log, guids>>, <<Body(log), guids>>}
      [] pc = "sign"   -> {<<log, guids>>, <<Signature(log), guids>>}
      [] pc = "link"   -> {<<log, guids>>, <<Link(log), guids>>} \cup
                          {<<[log EXCEPT ![lastRec].next = Far], guids>> : t \in {TornLink} \ {FALSE}}
      [] pc = "delete" -> {<<log, guids>>, <<Invalid(log), guids>>}
      [] pc = "idle"   -> {<<log, guids>>}

\* Mutant: a record that is signed is skipped like one that is not.
RecoverFromFlashUpdateFailureSkipAll(l) ==
    \/ Len(l) = end /\ UNCHANGED <<end, last>>
    \/ Len(l) > end /\ l[new].size = "ok" /\ end' = end + 1 /\ last' = 0
    \/ Len(l) > end /\ l[new].size = "bad" /\ UNCHANGED end /\ last' = 1

\* A record with its size is skipped from now on; one without it, or one that
\* is signed (it is past pEndOfVars, so NvGetDataNvar does not reach it), is left
\* at pEndOfVars, which makes IsStoreOk false.
RecoverFromFlashUpdateFailure(l) ==
    LET skipped == l[new].size = "ok" /\ ~l[new].signed IN
    \/ Len(l) = end /\ UNCHANGED <<end, last>>
    \/ Len(l) > end /\ skipped /\ end' = end + 1 /\ last' = 0
    \/ Len(l) > end /\ ~skipped /\ UNCHANGED end /\ last' = 1

\* The operation reports an error; the buffer is read again from flash.
WriteFails ==
    /\ pc \in {"header", "guid", "body", "sign", "link", "delete"}
    /\ faults < MaxFaults /\ faults' = faults + 1 /\ (EmptyFaults \/ end > 0)
    /\ \E p \in Partial : log' = p[1] /\ guids' = p[2]
    /\ pc = "delete" /\ ~LateFaults => log' = log
    /\ pc = "guid" /\ ~LostGuids => guids' # guids
    /\ nextGuid' = IF pc = "guid" THEN nextGuid + 1 ELSE nextGuid
    /\ IF pc = "delete" THEN UNCHANGED <<end, last>> ELSE RecoverFromFlashUpdateFailure(log')
    /\ IF pc = "delete" \/ IsStoreOk' THEN Finish("error")
       ELSE pc' = "recover" /\ UNCHANGED <<op, rec, result>>
    /\ UNCHANGED <<first, index, indexOn>>
    /\ Observe

\* Power is lost.  In a garbage collection that leaves what was there before it,
\* or after it (NvramBanks).
Crash ==
    /\ pc \notin {"off", "recover"} /\ pc' = "off"
    /\ \E p \in Partial : log' = p[1] /\ guids' = p[2]
    /\ first' = 1 /\ end' = 0 /\ nextGuid' = 0 /\ last' = 0
    /\ index' = [v \in Var |-> 0] /\ indexOn' = FALSE
    /\ op' = NoOp /\ rec' = 0 /\ result' = "none" /\ UNCHANGED faults
    /\ Observe

---------------------------------------------------------------------------
\* Error recovery of DxeSetVariable: the variables the walk still finds, but
\* the one being set, are copied in their order, and the new value is added.

\* Mutant: the old record of the variable is copied too.
SurvivorsAll(kept) ==
    LET found == IndexOf(log, guids, first, end)
        copied == InOrder({found[v] : v \in kept} \ {0})
    IN [k \in 1 .. Len(copied) |-> CHOOSE v \in kept : found[v] = copied[k]]
Survivors(kept) ==
    LET found == IndexOf(log, guids, first, end)
        left == kept \ {op.var}
        copied == InOrder({found[v] : v \in left} \ {0})
    IN [k \in 1 .. Len(copied) |-> CHOOSE v \in left : found[v] = copied[k]]

\* The table CreateVariable makes of the GUIDs of these variables.
GuidsOf(seq) ==
    LET firsts == InOrder({i \in 1 .. Len(seq) : \A k \in 1 .. i - 1 : seq[k].guid # seq[i].guid})
    IN [c \in 1 .. Len(firsts) |-> seq[firsts[c]].guid]
Fits(seq) == Len(seq) + Cardinality({seq[k].guid : k \in 1 .. Len(seq)}) + 2 <= Area

\* Mutant: the record with the name is copied, not the last one of its chain.
LatestNamed(i) == log[i].val
Latest(i) == ValueAt(log, i, end)

\* UpdateVarstore with the variables of seq.
UpdateVarstore(seq) ==
    LET found == IndexOf(log, guids, first, end)
        t == GuidsOf(seq)
        Copy(v) == [Torso(FALSE) EXCEPT
                        !.signed = TRUE, !.name = v.name,
                        !.guid = (CHOOSE c \in 1 .. Len(t) : t[c] = v.guid) - 1,
                        !.val = IF v = op.var THEN op.val ELSE Latest(found[v])]
    IN
    /\ log' = [i \in 1 .. Len(seq) |-> Copy(seq[i])]
    /\ guids' = [c \in Cells |-> IF c < Len(t) THEN t[c + 1] ELSE Blank]
    /\ first' = 1 /\ end' = Len(seq) /\ nextGuid' = Len(t) /\ last' = 1
    /\ index' = IF indexOn THEN IndexOf(log', guids', 1, Len(seq)) ELSE index
    /\ Finish("success")

\* First everything is kept; if the new value does not fit, only what the
\* cleanup filter keeps, unless NvramCleanUpEnabled says no.
Recover ==
    LET all == Append(Survivors(Var), op.var)
        some == Append(Survivors(Persistent), op.var)
    IN
    /\ pc = "recover"
    /\ \/ Fits(all) /\ UpdateVarstore(all)
       \/ ~Fits(all) /\ Fits(some) /\ UpdateVarstore(some)
       \/ ~Fits(all) /\ Finish("error") /\ UNCHANGED <<log, guids, info, index>>
    /\ UNCHANGED <<indexOn, faults>>
    /\ Observe

Next ==
    \/ Boot \/ ExitBootServices
    \/ \E v \in Var, d \in Val \cup {Absent} : SetVariable(v, d)
    \/ ProgramHeader \/ ProgramGuid \/ ProgramBody \/ ProgramSignature \/ ProgramLink
    \/ Delete \/ WriteFails \/ Recover \/ Crash

Spec == Init /\ [][Next]_vars
---------------------------------------------------------------------------
\* What one call may make of the store (see NvramAbstract).
Abstract == INSTANCE NvramAbstract WITH Default <- [v \in Var |-> Absent]

\* Whatever happens - power lost in the middle of a field, an operation that
\* reports an error, a boot, a garbage collection - what the next boot would
\* find changes in one step from the old value of the one variable being set
\* to its new value, and in no other way.
Atomic == [][UNCHANGED store \/ (op # NoOp /\ store' \in Abstract!Effects)]_vars

\* A call that returns success has taken effect for every later boot.
SuccessIsDurable ==
    [][(op # NoOp /\ op' = NoOp /\ result' = "success") => store'[op.var] = op.val]_vars

\* While no call is in progress the index, the walk at run time and the walk
\* of the next boot find the same variables with the same values.
FoundAlike ==
    pc = "idle" =>
        LET found == IndexOf(log, guids, first, end) IN
        \A v \in Var : /\ ValueAt(log, FindRecord(v), end) = store[v]
                       /\ ValueAt(log, found[v], end) = store[v]

\* A record or a GUID is only ever programmed into cells that are erased: the
\* flash is not erased first, and programming can only clear bits.
ProgramsBlankFlash ==
    /\ pc = "header" => Len(log) <= end
    /\ pc = "guid" => guids[nextGuid] = Blank

\* The log and the table of GUIDs do not grow into each other.
NoOverlap == \A c \in Cells : guids[c] # Blank => Len(log) < Area - c

\* As long as no operation has failed, a call that sets a variable fails only
\* when the area is too small for all the variables together.
FailsOnlyWhenFull ==
    [][(op # NoOp /\ op.val # Absent /\ op' = NoOp /\ pc' # "off" /\ result' = "error"
        /\ faults' = faults)
       => LET live == {v \in Var : store[v] # Absent} \cup {op.var}
          IN Cardinality(live) + Cardinality({v.guid : v \in live}) + 2 > Area]_vars
=============================================================================
