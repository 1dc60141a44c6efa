----------------------------- MODULE NvramSync -----------------------------
(***************************************************************************)
(* The two copies of the variable stores (NvramDxe.c, NvramSmm.c).  DXE    *)
(* owns the stores until the SMM driver takes them over; from then on only *)
(* SMM changes them, and copies its buffers over those of DXE, which reads *)
(* them.  The mailbox (UpdateInfo) tells DXE which store to enumerate      *)
(* again.  An SMI can strike between any two statements of DXE: SMM        *)
(* drivers set variables too.  The SMM driver also guards the memory       *)
(* overwrite (MOR) request with a lock variable.  A store is the sequence  *)
(* of its records; the last one of a variable holds its value.             *)
(***************************************************************************)
EXTENDS Naturals, Sequences, FiniteSets, FiniteSetsExt, Ordering

CONSTANTS Other,        \* the volatile variables
          Data,         \* their values
          Absent,       \* no value
          Asked,        \* the variables GetVariable is called for
          Keys,         \* the keys a caller locks the MOR request with
          NvCap,        \* how many records the non-volatile store holds
          MemCap,       \* how many the volatile one
          MaxSets,      \* how many calls of SetVariable there are
          SilentFaults, \* may a call that reports an error have taken effect?
          MaxFaults     \* how many calls report an error

Mor == "MemoryOverwriteRequestControl"
MorLock == "MemoryOverwriteRequestControlLock"
Var == {Mor, MorLock} \cup Other
Store == {"NV", "MEM"}
NoKey == 0

ASSUME SyncAssumption ==
    /\ {Mor, MorLock} \cap Other = {} /\ IsFiniteSet(Other) /\ Absent \notin Data \cup (0 .. 2) \cup Keys
    /\ Asked \subseteq Var /\ Keys \subseteq Nat /\ NvCap >= 2 /\ MemCap >= Cardinality(Other)
    /\ SilentFaults \in BOOLEAN /\ {NvCap, MemCap, MaxSets, MaxFaults} \subseteq Nat

VARIABLES smm,         \* the stores of SMM
          dxe,         \* the memory buffers of DXE
          end,         \* pEndOfVars of DXE: the records it has enumerated
          index,       \* the record the index of DXE holds for a variable, 0: none
          mask,        \* UpdateInfo.StoreMask
          shutDown,    \* UpdateInfo.ShutDown
          up,          \* has NvramSmmInit succeeded? (NvramDxeUpdateShutDown is stopped)
          stopped,
          migrated,    \* has MigrateNvram changed the sizes of the stores of SMM?
          active,      \* NvramSmmIsActive
          viaSmm,      \* GetVariableSmmActive
          morLock,     \* gMorLock
          morKey,      \* gMorKey
          morActive,   \* MorLockCheckIsActive
          pc,          \* the next statement of the GetVariable or QueryVariableInfo call
          arg,         \* the variable GetVariable reads
          pos,         \* the record it found
          got,         \* what the last GetVariable returned
          sets,
          faults,
          seen,        \* the values the variable has had since GetVariable was called
          missed,      \* the stores announced inside ReenumerateVarStore, after its re-read
          moved        \* were records moved after GetVariable had enumerated its store?

copies == <<smm, dxe, end, index>>
mailbox == <<mask, shutDown, up, stopped, migrated, active, viaSmm>>
mor == <<morLock, morKey, morActive>>
call == <<pc, arg, pos, got>>
ghosts == <<seen, missed, moved>>
counts == <<sets, faults>>
vars == <<copies, mailbox, mor, call, counts, ghosts>>

StoreOf(v) == IF v \in Other THEN "MEM" ELSE "NV"
Cap(s) == IF s = "NV" THEN NvCap ELSE MemCap
Values(v) == IF v \in Other THEN Data ELSE 0 .. 1
Record == [var : Var, val : Data \cup (0 .. 2) \cup {Absent}]
Callers == {"get", "query"}

TypeOK ==
    /\ smm \in [Store -> Seq(Record)] /\ dxe \in [Store -> Seq(Record)]
    /\ end \in [Store -> Nat]
    /\ \A s \in Store : Len(smm[s]) <= Cap(s) /\ Len(dxe[s]) <= Cap(s) /\ end[s] <= Cap(s)
    /\ index \in [Var -> 0 .. NvCap + MemCap] /\ mask \subseteq Store
    /\ {shutDown, up, stopped, migrated, active, viaSmm, morLock, morActive, moved} \subseteq BOOLEAN
    /\ morKey \in Keys \cup {NoKey} /\ faults \in 0 .. MaxFaults /\ sets \in 0 .. MaxSets
    /\ pc \in [Callers -> {"idle", "nv", "mem", "clear", "index", "read", "copy"}]
    /\ arg \in Var \cup {Absent} /\ pos \in 0 .. NvCap + MemCap
    /\ got \in Data \cup (0 .. 2) \cup {Absent} /\ missed \subseteq Store

---------------------------------------------------------------------------
\* The records of v in the first e records of a store l.
RecordsOf(l, e, v) == {i \in 1 .. e : i <= Len(l) /\ l[i].var = v /\ l[i].val # Absent}
Find(l, e, v) == LET found == RecordsOf(l, e, v) IN IF found = {} THEN 0 ELSE Max(found)
ValueAt(l, i) == IF i = 0 THEN Absent ELSE l[i].val
ValueIn(stores, v) == LET l == stores[StoreOf(v)] IN ValueAt(l, Find(l, Len(l), v))

\* What SetVariable makes of a store: a deletion marks the records in place, any
\* other change is appended, after a garbage collection when the store is full.
Newest(l) == {i \in 1 .. Len(l) : i = Find(l, Len(l), l[i].var)}
Compact(l) == [k \in 1 .. Cardinality(Newest(l)) |-> l[InOrder(Newest(l))[k]]]
Deleted(l, v) == [i \in 1 .. Len(l) |-> IF l[i].var = v THEN [l[i] EXCEPT !.val = Absent] ELSE l[i]]
\* Mutant: the garbage collection keeps what has been deleted.
PutKeepingDeleted(l, v, d) ==
    IF d = Absent THEN Deleted(l, v)
    ELSE IF d = ValueAt(l, Find(l, Len(l), v)) THEN l
    ELSE Append(IF Len(l) < Cap(StoreOf(v)) THEN l ELSE Deleted(l, v),
                [var |-> v, val |-> d])
Put(l, v, d) ==
    IF d = Absent THEN Deleted(l, v)
    ELSE IF d = ValueAt(l, Find(l, Len(l), v)) THEN l
    ELSE Append(IF Len(l) < Cap(StoreOf(v)) THEN l ELSE Compact(Deleted(l, v)),
                [var |-> v, val |-> d])
\* Is a record of l no longer at its place in m?
Moves(l, m) == \E i \in 1 .. Len(l) : i > Len(m) \/ m[i].var # l[i].var

\* IndexReset of DXE.
IndexOf(d, e) ==
    [v \in Var |-> LET found == RecordsOf(d[StoreOf(v)], e[StoreOf(v)], v)
                   IN IF found = {} THEN 0 ELSE Min(found)]

\* FindVariableGetRecords of DXE: the record with the value, through the index,
\* or by a walk when an entry of its list does not point to a record.
FindRecord(v) ==
    LET s == StoreOf(v)
        List == IF v \in Other THEN {v} ELSE {Mor, MorLock}
        IsRecord(w) == index[w] <= Min({end[StoreOf(w)], Len(dxe[StoreOf(w)])})
    IN IF index[v] # 0 /\ IsRecord(v) /\ dxe[s][index[v]].var = v THEN Find(dxe[s], end[s], v)
       ELSE IF \A w \in List : IsRecord(w) THEN 0
       ELSE Find(dxe[s], end[s], v)

Init ==
    /\ smm = [s \in Store |-> <<>>] /\ dxe = smm
    /\ end = [s \in Store |-> 0] /\ index = [v \in Var |-> 0]
    /\ mask = {} /\ sets = 0 /\ faults = 0 /\ morKey = NoKey
    /\ shutDown = FALSE /\ up = FALSE /\ stopped = FALSE /\ migrated = FALSE
    /\ active = FALSE /\ viaSmm = FALSE /\ morLock = FALSE /\ morActive = FALSE
    /\ pc = [c \in Callers |-> "idle"] /\ arg = Absent /\ pos = 0 /\ got = Absent
    /\ seen = {} /\ missed = {} /\ moved = FALSE

---------------------------------------------------------------------------
\* Before SMM takes over DXE changes its stores itself.
DxeSetVariable(v, d) ==
    /\ ~active /\ pc["get"] = "idle" /\ ~(d = Absent /\ ValueIn(dxe, v) = Absent)
    /\ sets < MaxSets /\ sets' = sets + 1
    /\ dxe' = [dxe EXCEPT ![StoreOf(v)] = Put(@, v, d)]
    /\ end' = [s \in Store |-> Len(dxe'[s])] /\ index' = IndexOf(dxe', end')
    /\ UNCHANGED <<smm, mailbox, mor, call, faults, ghosts>>

\* NvramSmmInit: SMM enumerates the flash and copies the volatile store.
NvramSmmInit ==
    /\ ~active /\ ~up /\ \A c \in Callers : pc[c] = "idle"
    /\ smm' = dxe /\ up' = TRUE /\ active' = TRUE
    /\ UNCHANGED <<dxe, end, index, mask, shutDown, stopped, migrated, viaSmm, mor, call,
                   counts, ghosts>>

\* SmmReadyToLockCallback of DXE: without SMM there is no way left to set variables.
DxeReadyToLock ==
    /\ ~active /\ active' = TRUE /\ \A c \in Callers : pc[c] = "idle"
    /\ UNCHANGED <<copies, mask, shutDown, up, stopped, migrated, viaSmm, mor, call, counts, ghosts>>

\* MigrateNvram: the stores of SMM get other sizes.
MigrateNvram ==
    /\ up /\ ~migrated /\ migrated' = TRUE
    /\ UNCHANGED <<copies, mask, shutDown, up, stopped, active, viaSmm, mor, call, counts, ghosts>>

---------------------------------------------------------------------------
\* The variable GetVariable reads may have changed.
Witness == seen' = IF pc["get"] = "idle" THEN seen ELSE seen \cup {ValueIn(smm', arg)}

\* SMM tells DXE that the stores S have changed: the sizes are compared, then the
\* marks are set and the buffers copied, as stores has them.
Unannounced == UNCHANGED <<mask, dxe, shutDown, stopped, missed, moved>>
Announce(S, stores) ==
    IF stopped THEN Unannounced
    ELSE IF shutDown \/ migrated
    THEN /\ shutDown' = TRUE /\ stopped' = TRUE /\ UNCHANGED <<mask, dxe, missed, moved>>
    ELSE /\ mask' = mask \cup S
         /\ dxe' = [s \in Store |-> IF s \in S THEN stores[s] ELSE dxe[s]]
         /\ missed' = missed \cup
                {s \in S : \E c \in Callers : pc[c] = "clear" \/ (s = "NV" /\ pc[c] = "mem")}
         /\ moved' = (moved \/ (/\ pc["get"] \in {"index", "read", "copy"}
                                /\ Moves(dxe[StoreOf(arg)], dxe'[StoreOf(arg)])))
         /\ UNCHANGED <<shutDown, stopped>>

\* Mutant: the deletion of a variable is announced for the non-volatile store only.
ChangedNvOnly(v, d) == IF d = Absent THEN {"NV"} ELSE {StoreOf(v)}
\* A deletion does not say which store the variable was in.
Changed(v, d) == IF d = Absent THEN Store ELSE {StoreOf(v)}

\* What a write that reports an error may leave of the records it was to change.
Refused(l, v, d) == {l, Compact(l)} \cup {Put(l, v, d) : t \in {SilentFaults} \ {FALSE}}

\* SmmSetVariableInt; a call that reports an error announces nothing.
SmmSetVariableInt(v, d) ==
    /\ sets' = sets + 1
    /\ \/ /\ ~(d = Absent /\ ValueIn(smm, v) = Absent)
          /\ smm' = [smm EXCEPT ![StoreOf(v)] = Put(@, v, d)]
          /\ Announce(Changed(v, d), smm') /\ UNCHANGED faults
       \/ /\ faults < MaxFaults /\ faults' = faults + 1
          /\ \E l \in Refused(smm[StoreOf(v)], v, d) : smm' = [smm EXCEPT ![StoreOf(v)] = l]
          /\ Unannounced

kept == <<end, index, up, migrated, active, viaSmm, call>>

\* ResetMorVariables: the lock variable is written, and the request if it is
\* missing.  Either write may fail, and the other one is made, or has been
\* announced, all the same; a failure is bounded like one of a call.
Unlocked == Put(smm["NV"], MorLock, 0)
Requested(l) == Put(l, Mor, 0)
NvBecomes(l) == smm' = [smm EXCEPT !["NV"] = l]
ResetMorVariables ==
    /\ \/ ValueIn(smm, Mor) = Absent /\ NvBecomes(Requested(Unlocked))
       \/ ValueIn(smm, Mor) # Absent /\ NvBecomes(Unlocked)
    /\ Announce({"NV"}, smm') /\ UNCHANGED counts
ResetMorVariablesFails ==
    /\ sets < MaxSets /\ sets' = sets + 1 /\ faults < MaxFaults /\ faults' = faults + 1
    /\ \/ \E l \in Refused(smm["NV"], MorLock, 0) :
             \/ ValueIn(smm, Mor) # Absent /\ NvBecomes(l) /\ Unannounced
             \/ /\ ValueIn(smm, Mor) = Absent /\ NvBecomes(Requested(l))
                /\ Announce({"NV"}, smm')
             \/ /\ ValueIn(smm, Mor) = Absent /\ Unannounced
                /\ \E m \in Refused(l, Mor, 0) : NvBecomes(m)
       \/ /\ ValueIn(smm, Mor) = Absent
          /\ \E l \in Refused(Unlocked, Mor, 0) : NvBecomes(l)
          /\ Announce({"NV"}, [smm EXCEPT !["NV"] = Unlocked])

\* SMM is locked: the MOR variables are reset and guarded from now on.
SmmReadyToLock ==
    /\ up /\ ~morActive /\ morActive' = TRUE
    /\ ResetMorVariables \/ ResetMorVariablesFails
    /\ Witness /\ UNCHANGED <<kept, morLock, morKey>>

\* Mutant: the lock variable itself may be deleted.
CheckForMorVariablesDelete(v, d) ==
    \/ ~morActive \/ v \notin {Mor, MorLock}
    \/ v = Mor /\ d # Absent /\ ~morLock
    \/ v = MorLock /\ (d = Absent \/ ~morLock)
\* Mutant: the request itself stays writable.
CheckForMorVariablesLockOnly(v, d) ==
    \/ ~morActive \/ v \notin {Mor, MorLock}
    \/ v = Mor /\ d # Absent
    \/ v = MorLock /\ d # Absent /\ ~morLock
\* CheckForMorVariables lets a caller set v to the one-byte value d, or delete it.
CheckForMorVariables(v, d) ==
    \/ ~morActive \/ v \notin {Mor, MorLock}
    \/ v = Mor /\ d # Absent /\ ~morLock
    \/ v = MorLock /\ d # Absent /\ ~morLock

\* SmmSetVariable, for DXE between two of its own calls or for an SMM driver.
SmmSetVariable(v, d) ==
    /\ up /\ sets < MaxSets /\ CheckForMorVariables(v, d)
    /\ morLock' = (morLock \/ (morActive /\ v = MorLock /\ d = 1))
    /\ SmmSetVariableInt(v, d) /\ Witness
    /\ UNCHANGED <<kept, morKey, morActive>>

\* The same for the lock variable and an eight-byte key: it locks with a key,
\* or unlocks; a wrong key is the last one.
MorLockKey(k) ==
    /\ up /\ morActive /\ sets < MaxSets
    /\ \/ /\ ~morLock /\ morLock' = TRUE /\ morKey' = k
          /\ SmmSetVariableInt(MorLock, 2)
       \/ /\ morLock /\ morKey # NoKey /\ morKey = k /\ morLock' = FALSE /\ morKey' = NoKey
          /\ SmmSetVariableInt(MorLock, 0)
       \/ /\ morLock /\ morKey # NoKey /\ morKey # k /\ morKey' = NoKey
          /\ UNCHANGED <<smm, dxe, mask, shutDown, stopped, missed, moved, morLock, counts>>
    /\ Witness /\ UNCHANGED <<kept, morActive>>

---------------------------------------------------------------------------
\* GetVariable runs in a critical section; QueryVariableInfo does not, and a
\* GetVariable from an event can run inside it.  Calls before the stores have
\* changed hands see nothing another actor does, and are left out.
May(c) == c = "query" => pc["get"] = "idle"
At(c, step) == pc[c] = step /\ May(c)
Goto(c, step) == pc' = [pc EXCEPT ![c] = step]

Done(c) == IF c = "get" THEN "read" ELSE "idle"

\* Mutant: SMM has stopped to copy its stores, and DXE goes on reading its own.
CheckUnnoticed(c) ==
    /\ active /\ pc[c] = "idle" /\ May(c) /\ UNCHANGED viaSmm
    /\ Goto(c, IF viaSmm THEN Done(c) ELSE "nv")
\* ReenumerateVarStore, statement by statement.
Check(c) ==
    /\ active /\ pc[c] = "idle" /\ May(c) /\ viaSmm' = (viaSmm \/ shutDown)
    /\ Goto(c, IF viaSmm' THEN Done(c) ELSE "nv")

GetVariable(v) ==
    /\ Check("get") /\ arg' = v /\ pos' = 0 /\ got' = Absent
    /\ seen' = {ValueIn(IF up THEN smm ELSE dxe, v)} /\ moved' = FALSE
    /\ UNCHANGED <<copies, mask, shutDown, up, stopped, migrated, active, mor, counts, missed>>

QueryVariableInfo ==
    /\ Check("query")
    /\ UNCHANGED <<copies, mask, shutDown, up, stopped, migrated, active, mor, arg, pos, got,
                   counts, ghosts>>

Enumerate(c, s, next) ==
    /\ Goto(c, next)
    /\ IF s \in mask THEN end' = [end EXCEPT ![s] = Len(dxe[s])] /\ missed' = missed \ {s}
       ELSE UNCHANGED <<end, missed>>
    /\ UNCHANGED <<smm, dxe, index, mailbox, mor, arg, pos, got, counts, seen, moved>>
EnumerateNv(c) == At(c, "nv") /\ Enumerate(c, "NV", "mem")
EnumerateMem(c) == At(c, "mem") /\ Enumerate(c, "MEM", "clear")

ClearMask(c) ==
    /\ At(c, "clear") /\ mask' = {} /\ Goto(c, IF mask = {} THEN Done(c) ELSE "index")
    /\ UNCHANGED <<copies, shutDown, up, stopped, migrated, active, viaSmm, mor, arg, pos, got,
                   counts, ghosts>>

IndexReset(c) ==
    /\ At(c, "index") /\ Goto(c, Done(c)) /\ index' = IndexOf(dxe, end)
    /\ UNCHANGED <<smm, dxe, end, mailbox, mor, arg, pos, got, counts, ghosts>>

\* The end of the call: the value is read in SMM, or searched and then copied.
Return(d) == Goto("get", "idle") /\ got' = d /\ arg' = Absent /\ pos' = 0
ReadInSmm ==
    /\ At("get", "read") /\ viaSmm /\ Return(ValueIn(smm, arg)) /\ seen' = {} /\ moved' = FALSE
    /\ UNCHANGED <<copies, mailbox, mor, counts, missed>>
Search ==
    /\ At("get", "read") /\ ~viaSmm /\ pos' = FindRecord(arg) /\ Goto("get", "copy")
    /\ UNCHANGED <<copies, mailbox, mor, arg, got, counts, ghosts>>
CopyData ==
    /\ At("get", "copy")
    /\ LET l == dxe[StoreOf(arg)] IN Return(IF pos > Len(l) THEN Absent ELSE ValueAt(l, pos))
    /\ seen' = {} /\ moved' = FALSE
    /\ UNCHANGED <<copies, mailbox, mor, counts, missed>>
Next ==
    \/ \E v \in Var : \E d \in Values(v) \cup {Absent} : DxeSetVariable(v, d) \/ SmmSetVariable(v, d)
    \/ \E v \in Asked : GetVariable(v)
    \/ \E k \in Keys : MorLockKey(k)
    \/ \E c \in Callers : EnumerateNv(c) \/ EnumerateMem(c) \/ ClearMask(c) \/ IndexReset(c)
    \/ NvramSmmInit \/ DxeReadyToLock \/ SmmReadyToLock \/ MigrateNvram
    \/ QueryVariableInfo \/ ReadInSmm \/ Search \/ CopyData

Spec == Init /\ [][Next]_vars
---------------------------------------------------------------------------
\* Until the mailbox is shut down the buffers of DXE hold what SMM holds.
CopyFollows ==
    up /\ ~stopped => \A v \in Var : ValueIn(dxe, v) = ValueIn(smm, v)

\* GetVariable returns a value the variable had while it ran, wherever the SMIs
\* fall: unless one changed the store of the variable between the re-read and
\* the clearing of the mask in ReenumerateVarStore (NvramDxe.c:180), and the
\* store has not been read again since, moved its records after this very call
\* had enumerated them, or the call interrupts a QueryVariableInfo that has
\* cleared the mask and not yet reset the index (NvramDxe.c:181).
ReadsCurrent ==
    [][(pc["get"] \in {"read", "copy"} /\ pc'["get"] = "idle")
       => got' \in seen \/ StoreOf(arg) \in missed \/ moved \/ pc["query"] = "index"]_vars

\* The lock variable tells what the lock is, unless a write has failed.
LockAgrees ==
    morActive /\ faults = 0 =>
        /\ morLock <=> ValueIn(smm, MorLock) # 0
        /\ morKey # NoKey => ValueIn(smm, MorLock) = 2

\* While the lock variable reads other than 0 the MOR request does not change,
\* whoever asks, unless a write has failed.
MorGuarded ==
    [][morActive /\ ValueIn(smm, MorLock) # 0 /\ faults = 0
       => ValueIn(smm', Mor) = ValueIn(smm, Mor)]_vars
=============================================================================
