------------------------- MODULE NvramAtomic_proofs -------------------------
(***************************************************************************)
(* Proof that the store of NvramBanks is an atomic, durable map when flash *)
(* operations work: every step is a step of NvramAbstract or does not show,*)
(* wherever power is lost, for any variables and any capacity.             *)
(***************************************************************************)
EXTENDS NvramStore_proofs

\* No flash operation fails and the firmware is not updated.
Reliable == MaxFaults = 0 /\ MaxReflash = 0

---------------------------------------------------------------------------
\* What the driver works towards.

\* What a call in progress may make of the store c (Effects of NvramAbstract).
EffectsOn(c) ==
    {[c EXCEPT ![op.var] = op.val],
     [v \in Var |-> IF v = op.var THEN op.val ELSE IF v \in Persistent THEN c[v] ELSE Absent]}

\* The store that a garbage collection moves to the other area.
Collecting == pc \in GcSteps \cup RepairSteps
Moving == Collecting /\ caller # "repair"
Moved(c) == IF caller = "set" THEN EffectsOn(c) ELSE {ResetImage(c)}

AllEmpty(f) == \A b \in Bank : f[b].vars = Empty
PreferredIn(f, b) ==
    Sound(f[b]) /\ (Sound(f[Other(b)]) => Dead(f[Other(b)]) /\ ~Dead(f[b]))

\* Without failures the mirror is never stale, a garbage collection leaves the
\* old area in charge until its last step, and has room for what it moves; two
\* areas of which none is valid have never held a variable.
Steady ==
    /\ pc \notin {"readd", "failed"}
    /\ pc \in {"idle", "check"} => Synced
    /\ pc = "idle" => op = NoOp
    /\ pc \in {"off", "init", "mark"} \/ (Collecting /\ caller # "set") =>
         op = NoOp /\ result = "none" /\ ctx = "boot"
    /\ Moving => /\ caller # "restore" /\ PreferredIn(flash, Other(active))
                 /\ temp \in Moved(flash[Other(active)].vars)
                 /\ Cardinality(Live(temp)) <= Capacity
    /\ pc = "copy" => caller # "repair" /\ mem.used = Cardinality(Live(mem.vars))
    /\ (Collecting /\ caller = "repair") \/ (\A b \in Bank : ~Sound(flash[b])) => AllEmpty(flash)

\* The store that a boot would find.
LEMMA StoreOf ==
  TypeOK /\ NoTieIn(flash) => \A b \in Bank : PreferredIn(flash, b) => Store = flash[b].vars
<1>1. SUFFICES ASSUME TypeOK, NoTieIn(flash), NEW b \in Bank, PreferredIn(flash, b)
               PROVE  Store = flash[b].vars
  OBVIOUS
<1>2. BootBank = b /\ Valid(b)
  BY <1>1, Chosen, Areas DEF BootBank, PreferredIn, Preferred, Bank
<1>3. QED
  BY <1>2 DEF Store

LEMMA StoreOfNext ==
  (TypeOK /\ NoTieIn(flash) => \A b \in Bank : PreferredIn(flash, b) => Store = flash[b].vars)'
  BY StoreOf, PTL

LEMMA StoreEmpty == AllEmpty(flash) => Store = Empty
  BY DEF AllEmpty, Store, BootBank, Selected, Bank, Other

LEMMA StoreEmptyNext == (AllEmpty(flash) => Store = Empty)'
  BY StoreEmpty, PTL

LEMMA StoreKept == flash' = flash => Store' = Store
  BY DEF Store, BootBank, Selected, Valid, State

LEMMA SyncedStore ==
  ASSUME TypeOK, NoTieIn(flash), Synced
  PROVE  active \in Bank /\ PreferredIn(flash, active) /\ Store = mem.vars /\ mem.hdr
<1>1. active \in Bank /\ PreferredIn(flash, active)
  BY Areas DEF Synced, Preferred, PreferredIn
<1>2. QED
  BY <1>1, StoreOf DEF Synced, PreferredIn, Sound

\* What makes a step one of the abstract store, or one that does not show.
LEMMA AbstractSteps ==
  /\ Store' = Store /\ op' = op /\ result' = result => [Abstract!Next]_(Abstract!vars)
  /\ op # NoOp /\ Store' \in EffectsOn(Store) /\ op' = NoOp /\ result' = "success" =>
       [Abstract!Next]_(Abstract!vars)
  /\ op # NoOp /\ Store' = Store /\ op' = NoOp /\ result' = "error" =>
       [Abstract!Next]_(Abstract!vars)
  /\ op = NoOp /\ result = "none" /\ Store' = ResetImage(Store) /\ op' = op /\ result' = result =>
       [Abstract!Next]_(Abstract!vars)
  BY DEF Abstract!Next, Abstract!vars, Abstract!Succeed, Abstract!Fail, Abstract!Reset,
     Abstract!Effects, Abstract!Defaulted, Abstract!NoOp, EffectsOn, ResetImage, NoOp

LEMMA AbstractLoss ==
  ASSUME op' = NoOp, result' = "none",
         \/ Store' = Store
         \/ op # NoOp /\ Store' \in EffectsOn(Store)
         \/ op = NoOp /\ result = "none" /\ Store' = ResetImage(Store)
  PROVE  [Abstract!Next]_(Abstract!vars)
  BY DEF Abstract!Next, Abstract!vars, Abstract!PowerLoss,
     Abstract!Effects, Abstract!Defaulted, Abstract!NoOp, EffectsOn, ResetImage, NoOp

LEMMA AbstractCall ==
  ASSUME DxeSetVariable, op = NoOp
  PROVE  [Abstract!Next]_(Abstract!vars)
<1>1. Store' = Store
  BY StoreKept DEF DxeSetVariable
<1>2. QED
  BY <1>1 DEF DxeSetVariable, Abstract!Next, Abstract!vars, Abstract!Call, Abstract!NoOp, NoOp

---------------------------------------------------------------------------
\* Room for what is moved.

LEMMA LiveFinite ==
  ASSUME NEW c \in Contents
  PROVE  Live(c) \in SUBSET Var /\ IsFiniteSet(Live(c)) /\ Cardinality(Live(c)) \in Nat
<1>1. Live(c) \in SUBSET Var
  BY DEF Live
<1>2. QED
  BY <1>1, BanksAssumption, FS_Subset, FS_CardinalityType

\* A store with room for one more variable has it for the new one.
LEMMA RoomForNew ==
  ASSUME TypeOK, op.var \in Var, NEW c \in Contents, HasRoom(c)
  PROVE  WithNew(c) \in Contents /\ Cardinality(Live(WithNew(c))) <= Capacity
<1>1. WithNew(c) \in Contents
  BY DEF WithNew, Contents, TypeOK, Calls
<1>2. Live(WithNew(c)) \subseteq Live(c) \cup {op.var}
  BY DEF WithNew, Contents, Live
<1>3. /\ IsFiniteSet(Live(c)) /\ Cardinality(Live(c)) \in Nat
      /\ IsFiniteSet(Live(WithNew(c))) /\ Cardinality(Live(WithNew(c))) \in Nat
  BY <1>1, LiveFinite
<1>4. /\ IsFiniteSet(Live(c) \cup {op.var})
      /\ Cardinality(Live(c) \cup {op.var}) <= Cardinality(Live(c)) + 1
      /\ Cardinality(Live(c) \cup {op.var}) \in Nat
  <2>1. /\ IsFiniteSet(Live(c) \cup {op.var})
        /\ Cardinality(Live(c) \cup {op.var})
             = IF op.var \in Live(c) THEN Cardinality(Live(c)) ELSE Cardinality(Live(c)) + 1
    BY <1>3, FS_AddElement
  <2>2. QED
    BY <1>3, <2>1
<1>5. Cardinality(Live(WithNew(c))) <= Cardinality(Live(c) \cup {op.var})
  BY <1>2, <1>4, FS_Subset
<1>6. QED
  BY <1>1, <1>3, <1>4, <1>5, BanksAssumption DEF HasRoom

\* A variable that is missing from the new area fits into it.
LEMMA RoomToCopy ==
  ASSUME TypeOK, Calling, pc = "copy", ~ Live(temp) \subseteq Live(mem.vars),
         Cardinality(Live(temp)) <= Capacity, mem.used = Cardinality(Live(mem.vars))
  PROVE  mem.used # Capacity
<1>1. mem.vars \in Contents /\ temp \in Contents
  BY Areas DEF Area
<1>2. Live(mem.vars) \subseteq Live(temp) /\ Live(mem.vars) # Live(temp)
  BY DEF Calling, Live
<1>3. /\ Cardinality(Live(mem.vars)) \in Nat /\ Cardinality(Live(temp)) \in Nat
      /\ IsFiniteSet(Live(temp))
  BY <1>1, LiveFinite
<1>4. Cardinality(Live(mem.vars)) < Cardinality(Live(temp))
  BY <1>2, <1>3, FS_Subset
<1>5. QED
  BY <1>3, <1>4, BanksAssumption

\* CheckStore finds nothing to do when the mirror is that of the area in charge.
LEMMA SyncedPasses ==
  ASSUME TypeOK, Synced
  PROVE  HybridInterfaceCheckStore = "SUCCESS"
<1>1. /\ active \in Bank /\ Other(active) \in Bank /\ mem = flash[active] /\ mem \in Area
      /\ flash[Other(active)] \in Area /\ Sound(mem)
      /\ Sound(flash[Other(active)]) => Dead(flash[Other(active)]) /\ ~Dead(mem)
  BY Areas, Bits DEF Synced, Preferred
<1>2. State(active) = GetNvramFfsFileState(mem) /\ StoreValid(State(active))
      /\ "DATA_VALID" \in GetNvramFfsFileState(mem)
  BY <1>1, SoundIsValid DEF State
<1>3. CheckNvramStoreState(State(active), State(Other(active)))
  BY <1>1, <1>2, SoundIsValid DEF CheckNvramStoreState, State, Dead
<1>4. QED
  BY <1>2, <1>3 DEF HybridInterfaceCheckStore

---------------------------------------------------------------------------
\* What power loss leaves.

\* The variables an interrupted operation leaves in the areas.
LEMMA PartialVars ==
  ASSUME TypeOK, NEW f \in Partial
  PROVE  /\ pc \notin {"delete", "eraseBody", "fixErase", "header", "fixHeader"} =>
              \A b \in Bank : f[b].vars = flash[b].vars
         /\ pc # "delete" => \A b \in Bank : f[b].vars \in {flash[b].vars, Empty}
         /\ pc = "delete" =>
              f[active].vars \in {flash[active].vars, [flash[active].vars EXCEPT ![op.var] = Absent]}
<1>1. active \in Bank /\ Other(active) \in Bank /\ Other(active) # active
      /\ flash \in [Bank -> Area] /\ flash[active] \in Area
  BY Areas, Bits
<1>2. CASE pc \in {"append", "readd", "copy"}
  <2>1. \A b \in Bank : f[b].vars = flash[b].vars
    BY <1>1, <1>2 DEF Partial, TornRecords, Area
  <2>2. QED
    BY <1>2, <2>1
<1>3. CASE pc \in {"off", "failed", "init", "idle", "check", "set", "recover"}
  BY <1>3 DEF Partial
<1>4. CASE pc \in {"erase", "eraseBody", "fixErase"}
  <2>1. \A b \in Bank : f[b].vars \in {flash[b].vars, Empty}
    BY <1>1, <1>4 DEF Partial, Area, Erased
  <2>2. pc = "erase" => \A b \in Bank : f[b].vars = flash[b].vars
    BY <1>1 DEF Partial, Area
  <2>3. QED
    BY <1>4, <2>1, <2>2
<1>5. CASE pc \in {"header", "fixHeader"}
  <2>1. \A s : FormattedArea(s).vars = Empty
    BY DEF FormattedArea, Erased
  <2>2. f = flash \/ \E s : f = [flash EXCEPT ![active] = FormattedArea(s)]
    BY <1>5 DEF Partial
  <2>3. \A b \in Bank : f[b].vars \in {flash[b].vars, Empty}
    BY <1>1, <2>1, <2>2
  <2>4. QED
    BY <1>5, <2>3
<1>6. CASE pc = "mark" \/ pc = "endOld" \/ pc = "endNew"
  <2>1. PICK c \in Bank, s \in SUBSET VALID_STATE_FLAGS : f = AddBits(c, s)
    BY <1>1, <1>6, PartialHeaders
  <2>2. \A b \in Bank : AddBits(c, s)[b].vars = flash[b].vars
    BY AddedBits
  <2>3. QED
    BY <1>6, <2>1, <2>2
<1>7. CASE pc = "delete"
  <2>1. f[active].vars \in {flash[active].vars, [flash[active].vars EXCEPT ![op.var] = Absent]}
    BY <1>1, <1>7 DEF Partial, Area
  <2>2. QED
    BY <1>7, <2>1
<1>8. QED
  BY <1>2, <1>3, <1>4, <1>5, <1>6, <1>7 DEF TypeOK, Steps, GcSteps, RepairSteps

\* Power loss leaves the store of before the call, or that of after it.
LEMMA LossOutcome ==
  ASSUME TypeOK, StoreGuard, Calling, Journal, Steady, pc # "off", NEW f \in Partial
  PROVE  \/ AllEmpty(flash) /\ AllEmpty(f)
         \/ \E b \in Bank : /\ PreferredIn(flash, b) /\ PreferredIn(f, b)
                            /\ f[b].vars = flash[b].vars
         \/ \E b, c \in Bank :
              /\ PreferredIn(flash, b) /\ PreferredIn(f, c)
              /\ \/ pc = "delete" /\ f[c].vars = [flash[b].vars EXCEPT ![op.var] = op.val]
                 \/ Moving /\ f[c].vars \in Moved(flash[b].vars)
<1>1. /\ active \in Bank /\ Other(active) \in Bank /\ Other(active) # active
      /\ Other(Other(active)) = active
      /\ flash \in [Bank -> Area] /\ flash[active] \in Area /\ NoTieIn(flash)
  BY Areas, Bits DEF Journal
<1>2. f \in [Bank -> Area]
  BY PartialType
<1>3. CASE pc \in {"init", "set", "recover", "idle", "check"}
  <2>1. f = flash /\ Synced
    BY <1>3, PartialHeaders DEF Steady, Journal
  <2>2. QED
    BY <1>1, <2>1, SyncedStore
<1>4. CASE pc \in {"append", "delete"}
  <2>1. SameHeaders(f) /\ Synced
    BY <1>4, PartialHeaders DEF Journal
  <2>2. PreferredIn(flash, active) /\ PreferredIn(f, active)
    BY <1>1, <1>2, <2>1, SyncedStore, HeadersKept DEF PreferredIn
  <2>3. \/ f[active].vars = flash[active].vars
        \/ pc = "delete" /\ f[active].vars = [flash[active].vars EXCEPT ![op.var] = op.val]
    BY <1>1, <1>4, PartialVars DEF Calling
  <2>4. QED
    BY <1>1, <2>2, <2>3
<1>5. CASE pc = "mark"
  <2>1. PICK s \in SUBSET VALID_STATE_FLAGS : s \subseteq {"MARKED_FOR_UPDATE"} /\ f = AddBits(active, s)
    BY <1>5, PartialHeaders
  <2>2. /\ AddBits(active, s)[Other(active)] = flash[Other(active)]
        /\ AddBits(active, s)[active].hdr = flash[active].hdr
        /\ AddBits(active, s)[active].state = flash[active].state \cup s
        /\ AddBits(active, s)[active].vars = flash[active].vars
    BY <1>1, AddedBits
  <2>3. PreferredIn(flash, active)
    BY <1>1, <1>5, SyncedStore DEF Journal
  <2>4. "DELETED" \notin s
    BY <2>1
  <2>5. PreferredIn(f, active)
    BY <1>1, <2>1, <2>2, <2>3, <2>4 DEF PreferredIn, Sound, Dead
  <2>6. QED
    BY <1>1, <2>1, <2>2, <2>3, <2>5
<1>6. CASE Collecting /\ caller = "repair"
  <2>1. pc # "delete" /\ AllEmpty(flash)
    BY <1>6 DEF Steady, Collecting, GcSteps, RepairSteps
  <2>2. \A b \in Bank : f[b].vars = Empty
    BY <2>1, PartialVars DEF AllEmpty
  <2>3. QED
    BY <2>1, <2>2 DEF AllEmpty
<1>7. CASE Moving
  <2>1. PreferredIn(flash, Other(active)) /\ temp \in Moved(flash[Other(active)].vars)
    BY <1>7 DEF Steady
  <2>2. CASE pc \in {"erase", "eraseBody", "header", "fixErase", "fixHeader"}
    <3>1. pc \in {"erase", "eraseBody", "header"}
      BY <1>7, <2>2 DEF Journal, Moving
    <3>2. f[Other(active)] = flash[Other(active)]
          /\ (f[active] = flash[active] \/ ~Sound(f[active]))
      BY <3>1, PartialHeaders
    <3>3. PreferredIn(f, Other(active))
      BY <1>1, <2>1, <3>2 DEF PreferredIn
    <3>4. QED
      BY <1>1, <2>1, <3>2, <3>3
  <2>3. CASE pc = "copy"
    <3>1. SameHeaders(f) /\ \A b \in Bank : f[b].vars = flash[b].vars
      BY <2>3, PartialHeaders, PartialVars
    <3>2. PreferredIn(f, Other(active))
      BY <1>1, <1>2, <2>1, <3>1, HeadersKept DEF PreferredIn
    <3>3. QED
      BY <1>1, <2>1, <3>1, <3>2
  <2>4. CASE pc = "endOld"
    <3>1. PICK s \in SUBSET VALID_STATE_FLAGS : s \subseteq OldAreaBits /\ f = AddBits(Other(active), s)
      BY <2>4, PartialHeaders
    <3>2. PICK o \in Bank : o = Other(active)
      BY <1>1
    <3>3. /\ AddBits(o, s)[active] = flash[active]
          /\ AddBits(o, s)[o].hdr = flash[o].hdr
          /\ AddBits(o, s)[o].state = flash[o].state \cup s
          /\ AddBits(o, s)[o].vars = flash[o].vars
      BY <1>1, <3>2, AddedBits
    <3>4. ~Sound(flash[active])
      BY <2>4, Bits DEF Journal, Sound
    <3>5. PreferredIn(f, o)
      BY <1>1, <2>1, <3>1, <3>2, <3>3, <3>4 DEF PreferredIn, Sound
    <3>6. QED
      BY <1>1, <2>1, <3>1, <3>2, <3>3, <3>5
  <2>5. CASE pc = "endNew"
    <3>1. PICK s \in SUBSET VALID_STATE_FLAGS : s \subseteq NewAreaBits /\ f = AddBits(active, s)
      BY <2>5, PartialHeaders
    <3>2. /\ AddBits(active, s)[Other(active)] = flash[Other(active)]
          /\ AddBits(active, s)[active].hdr = flash[active].hdr
          /\ AddBits(active, s)[active].state = flash[active].state \cup s
          /\ AddBits(active, s)[active].vars = flash[active].vars
      BY <1>1, AddedBits
    <3>3. /\ mem = flash[active] /\ flash[active].state = HeaderState
          /\ Dead(flash[Other(active)]) /\ mem.vars = temp
      BY <1>7, <2>5 DEF Journal, Calling, Moving
    <3>4. CASE Sound(f[active])
      <4>1. ~Dead(f[active])
        BY <3>1, <3>2, <3>3, Bits DEF Dead
      <4>2. PreferredIn(f, active)
        BY <3>1, <3>2, <3>3, <3>4, <4>1 DEF PreferredIn
      <4>3. f[active].vars = temp
        BY <3>1, <3>2, <3>3
      <4>4. QED
        BY <1>1, <1>7, <2>1, <4>2, <4>3
    <3>5. CASE ~Sound(f[active])
      BY <1>1, <2>1, <3>1, <3>2, <3>5 DEF PreferredIn
    <3>6. QED
      BY <3>4, <3>5
  <2>6. QED
    BY <1>7, <2>2, <2>3, <2>4, <2>5 DEF Moving, Collecting, GcSteps, RepairSteps
<1>8. QED
  BY <1>3, <1>4, <1>5, <1>6, <1>7
     DEF Steady, TypeOK, Steps, Moving, Collecting

---------------------------------------------------------------------------
\* The steps.

AbstractStep == [Abstract!Next]_(Abstract!vars)

\* Between the operations of a call on the area in charge.
LEMMA SteadyAtWork ==
  ASSUME pc' \in {"init", "mark", "idle", "check", "set", "append", "delete", "recover"},
         pc' \in {"idle", "check"} => Synced', pc' = "idle" => op' = NoOp,
         pc' \in {"init", "mark"} => op' = NoOp /\ result' = "none" /\ ctx' = "boot",
         (\A b \in Bank : ~Sound(flash'[b])) => AllEmpty(flash')
  PROVE  Steady'
  BY DEF Steady, Moving, Collecting, GcSteps, RepairSteps

LEMMA LossStep ==
  ASSUME TypeOK, TypeOK', StoreGuard, Calling, Journal, Journal', Steady, PowerLoss
  PROVE  Steady' /\ AbstractStep
<1>1. pc # "off" /\ flash' \in Partial /\ pc' = "off" /\ op' = NoOp /\ result' = "none"
      /\ ctx' = "boot" /\ NoTieIn(flash) /\ NoTieIn(flash')
  BY DEF PowerLoss, Journal
<1>2. ASSUME (\A b \in Bank : ~Sound(flash'[b])) => AllEmpty(flash')
      PROVE  Steady'
  BY <1>1, <1>2 DEF Steady, Moving, Collecting, GcSteps, RepairSteps
<1>3. ASSUME NEW b \in Bank, PreferredIn(flash', b)
      PROVE  ~(\A c \in Bank : ~Sound(flash'[c])) /\ Store' = flash'[b].vars
  BY <1>1, <1>3, StoreOfNext DEF PreferredIn
<1>4. CASE AllEmpty(flash) /\ AllEmpty(flash')
  <2>1. Store' = Store
    BY <1>4, StoreEmpty, StoreEmptyNext
  <2>2. QED
    BY <1>1, <1>2, <1>4, <2>1, AbstractLoss DEF AbstractStep
<1>5. CASE \E b \in Bank : /\ PreferredIn(flash, b) /\ PreferredIn(flash', b)
                           /\ flash'[b].vars = flash[b].vars
  <2>1. PICK b \in Bank : /\ PreferredIn(flash, b) /\ PreferredIn(flash', b)
                          /\ flash'[b].vars = flash[b].vars
    BY <1>5
  <2>2. Store = flash[b].vars /\ Store' = flash'[b].vars
    BY <1>1, <1>3, <2>1, StoreOf
  <2>3. QED
    BY <1>1, <1>2, <1>3, <2>1, <2>2, AbstractLoss DEF AbstractStep
<1>6. CASE \E b, c \in Bank :
             /\ PreferredIn(flash, b) /\ PreferredIn(flash', c)
             /\ \/ pc = "delete" /\ flash'[c].vars = [flash[b].vars EXCEPT ![op.var] = op.val]
                \/ Moving /\ flash'[c].vars \in Moved(flash[b].vars)
  <2>1. PICK b \in Bank, c \in Bank :
          /\ PreferredIn(flash, b) /\ PreferredIn(flash', c)
          /\ \/ pc = "delete" /\ flash'[c].vars = [flash[b].vars EXCEPT ![op.var] = op.val]
             \/ Moving /\ flash'[c].vars \in Moved(flash[b].vars)
    BY <1>6
  <2>2. Store = flash[b].vars /\ Store' = flash'[c].vars
    BY <1>1, <1>3, <2>1, StoreOf
  <2>3. CASE pc = "delete" \/ (Moving /\ caller = "set")
    <3>1. op.var \in Var
      BY <2>3 DEF Calling, Moving, Collecting, GcSteps, RepairSteps
    <3>2. op # NoOp
      BY <3>1, BanksAssumption DEF NoOp
    <3>3. Store' \in EffectsOn(Store)
      BY <2>1, <2>2, <2>3 DEF Moved, EffectsOn, Moving, Collecting, GcSteps, RepairSteps
    <3>4. QED
      BY <1>1, <1>2, <1>3, <2>1, <3>2, <3>3, AbstractLoss DEF AbstractStep
  <2>4. CASE Moving /\ caller # "set"
    <3>1. op = NoOp /\ result = "none"
      BY <2>4 DEF Steady, Moving
    <3>2. Store' = ResetImage(Store)
      BY <2>1, <2>2, <2>4 DEF Moved, Moving, Collecting, GcSteps, RepairSteps
    <3>3. QED
      BY <1>1, <1>2, <1>3, <2>1, <3>1, <3>2, AbstractLoss DEF AbstractStep
  <2>5. QED
    BY <2>1, <2>3, <2>4
<1>7. QED
  BY <1>1, <1>4, <1>5, <1>6, LossOutcome

\* The steps of a boot or a call that are not part of a garbage collection.
LEMMA CallsStep ==
  ASSUME TypeOK, TypeOK', Calling, Journal, Journal', Steady, Reliable,
         \/ Boot \/ InitNonVolatileVarStore \/ MarkForUpdate \/ CheckStore \/ RestoreVariable
         \/ RestoreDone \/ RestoreFails \/ Update \/ AppendRecord \/ DeleteVariable
         \/ ErrorRecovery \/ DxeSetVariable
  PROVE  Steady' /\ AbstractStep
<1>1. /\ active \in Bank /\ Other(active) \in Bank /\ Other(Other(active)) = active
      /\ flash \in [Bank -> Area] /\ flash[active] \in Area /\ mem \in Area
      /\ NoTieIn(flash) /\ NoTieIn(flash')
  BY Areas, Bits DEF Journal
\* The area in charge is not touched.
<1>2. ASSUME Synced, UNCHANGED <<flash, active, mem>>
      PROVE  /\ Synced' /\ Store' = Store
             /\ (\A b \in Bank : ~Sound(flash'[b])) => AllEmpty(flash')
  <2>1. Sound(flash'[active])
    BY <1>2 DEF Synced, Preferred
  <2>2. QED
    BY <1>1, <1>2, <2>1, StoreKept DEF Synced, Preferred
<1>3. ASSUME NEW buffer \in Area, buffer.hdr, Synced, flash' = flash,
             NEW content \in Contents, NEW who \in {"set", "reset"},
             BeginGarbageCollection(active, buffer, content, who),
             Cardinality(Live(content)) <= Capacity,
             \/ who = "set" /\ content \in EffectsOn(mem.vars) /\ op' = op
             \/ /\ who = "reset" /\ content = ResetImage(mem.vars)
                /\ op' = NoOp /\ result' = "none" /\ ctx' = "boot"
      PROVE  Steady' /\ Store' = Store
  <2>1. active' = Other(active) /\ pc' = "erase" /\ temp' = content /\ caller' = who
    BY <1>3 DEF BeginGarbageCollection
  <2>2. PreferredIn(flash', Other(active')) /\ flash'[Other(active')].vars = mem.vars
    BY <1>1, <1>3, <2>1, SyncedStore DEF Synced
  <2>3. temp' \in Moved(flash[Other(active)].vars)'
    BY <1>3, <2>1, <2>2 DEF Moved, EffectsOn, ResetImage
  <2>4. Sound(flash'[active])
    BY <1>3 DEF Synced, Preferred
  <2>5. Steady'
    BY <1>1, <1>3, <2>1, <2>2, <2>3, <2>4 DEF Steady, Moving, Collecting, GcSteps, RepairSteps
  <2>6. QED
    BY <1>3, <2>5, StoreKept
<1>4. CASE Boot
  <2>1. pc = "off" /\ ctx' = "boot" /\ flash' = flash /\ op' = op /\ result' = result
        /\ HybridInterfaceReinitialize(BootBank, Empty)
    BY <1>4 DEF Boot, HybridInterfaceReinitialize
  <2>2. op = NoOp /\ result = "none"
        /\ ((\A b \in Bank : ~Sound(flash[b])) => AllEmpty(flash))
    BY <2>1 DEF Steady
  <2>3. AbstractStep
    BY <2>1, StoreKept, AbstractSteps DEF AbstractStep
  <2>4. CASE Valid(Selected(BootBank))
    <3>1. pc' \in {"mark", "init"}
      BY <2>1, <2>4 DEF HybridInterfaceReinitialize
    <3>2. QED
      BY <2>1, <2>2, <2>3, <3>1, SteadyAtWork
  <2>5. CASE ~Valid(Selected(BootBank))
    <3>1. BootBank \in Bank
      BY <1>1, Chosen DEF BootBank, Bank
    <3>2. AllEmpty(flash')
      BY <1>1, <2>1, <2>2, <2>5, <3>1, Chosen DEF Bank
    <3>3. pc' \in {"erase", "fixErase"} /\ caller' = "repair"
      BY <2>1, <2>5 DEF HybridInterfaceReinitialize, BeginGarbageCollection
    <3>4. QED
      BY <2>1, <2>2, <2>3, <3>2, <3>3 DEF Steady, Moving, Collecting, GcSteps, RepairSteps
  <2>6. QED
    BY <2>4, <2>5
<1>5. CASE InitNonVolatileVarStore
  <2>1. /\ pc = "init" /\ Synced /\ op = NoOp /\ result = "none" /\ ctx = "boot"
        /\ UNCHANGED <<flash, op, result, ctx>> /\ mem.hdr
    BY <1>1, <1>5, SyncedStore DEF InitNonVolatileVarStore, Journal, Steady
  <2>2. CASE pc' = "idle" /\ UNCHANGED <<active, mem>>
    BY <1>2, <2>1, <2>2, SteadyAtWork, AbstractSteps DEF AbstractStep
  <2>3. CASE /\ BeginGarbageCollection(active, mem, ResetImage(mem.vars), "reset")
             /\ Cardinality(Live(ResetImage(mem.vars))) \in 1..Capacity
    <3>1. mem.vars \in Contents /\ ResetImage(mem.vars) \in Contents
      BY <1>1, BanksAssumption DEF Area, ResetImage, Contents
    <3>2. Cardinality(Live(ResetImage(mem.vars))) <= Capacity
      BY <2>3
    <3>3. Steady' /\ Store' = Store
      BY <1>1, <1>3, <2>1, <2>3, <3>1, <3>2
    <3>4. QED
      BY <2>1, <3>3, AbstractSteps DEF AbstractStep
  <2>4. QED
    BY <1>5, <2>2, <2>3 DEF InitNonVolatileVarStore
<1>6. CASE MarkForUpdate
  <2>1. /\ pc = "mark" /\ Synced /\ op = NoOp /\ result = "none" /\ ctx = "boot"
        /\ pc' = "init" /\ UNCHANGED <<active, op, result, ctx>>
        /\ mem' = [mem EXCEPT !.state = mem.state \cup {"MARKED_FOR_UPDATE"}]
    BY <1>6 DEF MarkForUpdate, Journal, Steady, ReinitializeDone
  <2>2. Synced' /\ mem'.vars = mem.vars
    BY <1>1, <2>1 DEF Journal, Area
  <2>3. PreferredIn(flash', active) /\ flash'[active].vars = mem.vars
    BY <2>1, <2>2 DEF Synced, Preferred, PreferredIn
  <2>4. Store' = Store
    BY <1>1, <2>1, <2>3, StoreOfNext, SyncedStore
  <2>5. ~(\A b \in Bank : ~Sound(flash'[b]))
    BY <1>1, <2>3 DEF PreferredIn
  <2>6. QED
    BY <2>1, <2>4, <2>5, SteadyAtWork, AbstractSteps DEF AbstractStep
<1>7. CASE CheckStore
  <2>1. /\ pc = "check" /\ Synced /\ op.var \in Var
    BY <1>7 DEF CheckStore, Steady, Calling
  <2>2. /\ UNCHANGED <<flash, active, mem>>
        /\ \/ pc' = "idle" /\ op' = NoOp /\ result' = "error"
           \/ pc' = "set" /\ op' = op /\ result' = result
    BY <1>7, <2>1, SyncedPasses DEF CheckStore, Finish
  <2>3. op # NoOp
    BY <2>1, BanksAssumption DEF NoOp
  <2>4. QED
    BY <1>2, <2>1, <2>2, <2>3, SteadyAtWork, AbstractSteps DEF AbstractStep
<1>8. CASE RestoreVariable \/ RestoreDone \/ RestoreFails
  BY <1>8 DEF RestoreVariable, RestoreDone, RestoreFails, Steady
<1>9. CASE Update
  <2>1. /\ Synced /\ op.var \in Var /\ UNCHANGED <<flash, active, mem>>
        /\ \/ pc' = "idle" /\ op' = NoOp /\ result' = "error"
           \/ pc' = "idle" /\ op' = NoOp /\ result' = "success" /\ mem.vars[op.var] = op.val
           \/ pc' \in {"delete", "append", "recover"} /\ op' = op /\ result' = result
    BY <1>9 DEF Update, Finish, Journal, Calling
  <2>2. op # NoOp
    BY <2>1, BanksAssumption DEF NoOp
  <2>3. Steady'
    BY <1>2, <2>1, SteadyAtWork
  <2>4. mem.vars[op.var] = op.val => Store' \in EffectsOn(Store)
    <3>1. mem.vars[op.var] = op.val => [mem.vars EXCEPT ![op.var] = op.val] = mem.vars
      BY <1>1 DEF Area, Contents
    <3>2. Store = mem.vars /\ Store' = Store
      BY <1>1, <1>2, <2>1, SyncedStore
    <3>3. QED
      BY <3>1, <3>2 DEF EffectsOn
  <2>5. QED
    BY <1>2, <2>1, <2>2, <2>3, <2>4, AbstractSteps DEF AbstractStep
<1>10. CASE AppendRecord \/ DeleteVariable
  <2>1. /\ op.var \in Var /\ mem'.vars = [mem.vars EXCEPT ![op.var] = op.val]
        /\ mem' = flash'[active'] /\ Preferred(active)' /\ Synced /\ active' = active
    BY <1>10, RecordWritten
  <2>2. pc' = "idle" /\ op' = NoOp /\ result' = "success"
    BY <1>10 DEF AppendRecord, DeleteVariable, Finish
  <2>3. PreferredIn(flash', active) /\ Synced'
    BY <2>1 DEF Preferred, PreferredIn, Synced
  <2>4. Store' = mem'.vars /\ Store = mem.vars
    BY <1>1, <2>1, <2>3, StoreOfNext, SyncedStore
  <2>5. Store' \in EffectsOn(Store) /\ op # NoOp
    BY <2>1, <2>4, BanksAssumption DEF EffectsOn, NoOp
  <2>6. ~(\A b \in Bank : ~Sound(flash'[b]))
    BY <1>1, <2>3 DEF PreferredIn
  <2>7. QED
    BY <2>2, <2>3, <2>5, <2>6, SteadyAtWork, AbstractSteps DEF AbstractStep
<1>11. CASE ErrorRecovery
  <2>1. /\ pc = "recover" /\ Synced /\ op.var \in Var /\ mem.hdr /\ mem.vars \in Contents
        /\ UNCHANGED <<flash, op, result>>
    BY <1>1, <1>11, SyncedStore DEF ErrorRecovery, Journal, Calling, Area
  <2>2. CASE pc' = "check" /\ UNCHANGED <<active, mem>>
    BY <1>2, <2>1, <2>2, SteadyAtWork, AbstractSteps DEF AbstractStep
  <2>3. Rest \in Contents /\ Only(Rest, Persistent) \in Contents
    BY <2>1 DEF Rest, Only, Contents
  <2>4. WithNew(Rest) = [mem.vars EXCEPT ![op.var] = op.val]
    BY <2>1 DEF WithNew, Rest, Contents
  <2>5. WithNew(Only(Rest, Persistent)) =
          [v \in Var |-> IF v = op.var THEN op.val
                         ELSE IF v \in Persistent THEN mem.vars[v] ELSE Absent]
    BY <2>1 DEF WithNew, Rest, Only, Contents
  <2>6. WithNew(Rest) \in EffectsOn(mem.vars) /\ WithNew(Only(Rest, Persistent)) \in EffectsOn(mem.vars)
    BY <2>4, <2>5 DEF EffectsOn
  <2>7. ASSUME NEW c \in Contents, HasRoom(c), WithNew(c) \in EffectsOn(mem.vars),
               BeginGarbageCollection(active, mem, WithNew(c), "set")
        PROVE  Steady' /\ AbstractStep
    <3>1. WithNew(c) \in Contents /\ Cardinality(Live(WithNew(c))) <= Capacity
      BY <2>1, <2>7, RoomForNew
    <3>2. Steady' /\ Store' = Store
      BY <1>1, <1>3, <2>1, <2>7, <3>1
    <3>3. QED
      BY <2>1, <3>2, AbstractSteps DEF AbstractStep
  <2>8. QED
    BY <1>11, <2>2, <2>3, <2>6, <2>7 DEF ErrorRecovery
<1>12. CASE DxeSetVariable
  <2>1. pc = "idle" /\ op = NoOp /\ Synced /\ pc' = "check" /\ UNCHANGED <<flash, active, mem>>
    BY <1>12 DEF DxeSetVariable, Steady
  <2>2. QED
    BY <1>2, <1>12, <2>1, SteadyAtWork, AbstractCall DEF AbstractStep
<1>13. QED
  BY <1>4, <1>5, <1>6, <1>7, <1>8, <1>9, <1>10, <1>11, <1>12

\* A garbage collection that repairs: nothing is lost, nothing is there.
LEMMA RepairStep ==
  ASSUME TypeOK, Journal, Steady, caller = "repair",
         \/ FixErase \/ FixHeader \/ EraseHeader \/ EraseBody \/ ProgramHeader
         \/ CopyVariable \/ CopyDone \/ EndOldArea
  PROVE  Steady' /\ AbstractStep
<1>1. /\ active \in Bank /\ Other(active) \in Bank /\ Other(active) # active
      /\ flash \in [Bank -> Area] /\ flash[active] \in Area /\ mem \in Area
  BY Areas, Bits
<1>2. /\ Collecting /\ pc' \in GcSteps \cup RepairSteps /\ pc' # "copy"
      /\ UNCHANGED <<caller, ctx, op, result>>
  BY DEF FixErase, FixHeader, EraseHeader, EraseBody, ProgramHeader, CopyVariable, CopyDone,
     EndOldArea, Steady, Collecting, GcSteps, RepairSteps
<1>3. AllEmpty(flash) /\ op = NoOp /\ result = "none" /\ ctx = "boot"
  BY <1>2 DEF Steady
<1>4. AllEmpty(flash')
  <2>1. CASE FixErase \/ FixHeader \/ EraseHeader \/ EraseBody \/ ProgramHeader
    <3>1. \A s : FormattedArea(s).vars = Empty
      BY DEF FormattedArea, Erased
    <3>2. Erased.vars = Empty
      BY DEF Erased
    <3>3. \/ \E s : flash' = [flash EXCEPT ![active] = FormattedArea(s)]
          \/ flash' = [flash EXCEPT ![active] = Erased]
          \/ flash' = [flash EXCEPT ![active].hdr = FALSE, ![active].state = {}]
      BY <2>1 DEF FixErase, FixHeader, EraseHeader, EraseBody, ProgramHeader
    <3>4. QED
      BY <1>1, <1>3, <3>1, <3>2, <3>3 DEF AllEmpty, Area
  <2>2. CASE CopyVariable \/ CopyDone
    BY <2>2 DEF CopyVariable, CopyDone, Steady
  <2>3. CASE EndOldArea
    <3>1. PICK o \in Bank, s \in SUBSET VALID_STATE_FLAGS : flash' = AddBits(o, s)
      <4>1. mem.state \cup OldAreaBits \in SUBSET VALID_STATE_FLAGS
        BY <1>1, Bits DEF Area
      <4>2. QED
        BY <1>1, <2>3, <4>1 DEF EndOldArea
    <3>2. \A b \in Bank : AddBits(o, s)[b].vars = flash[b].vars
      BY AddedBits
    <3>3. QED
      BY <1>3, <3>1, <3>2 DEF AllEmpty
  <2>4. QED
    BY <2>1, <2>2, <2>3
<1>5. Store' = Store
  BY <1>3, <1>4, StoreEmpty, StoreEmptyNext
<1>6. Steady'
  BY <1>2, <1>3, <1>4 DEF Steady, Moving, Collecting, GcSteps, RepairSteps
<1>7. QED
  BY <1>2, <1>5, <1>6, AbstractSteps DEF AbstractStep

\* A garbage collection that moves the store: the old area stays in charge.
LEMMA MoveStep ==
  ASSUME TypeOK, TypeOK', Calling, Journal, Journal', Steady, caller # "repair",
         \/ FixErase \/ FixHeader \/ EraseHeader \/ EraseBody \/ ProgramHeader
         \/ CopyVariable \/ CopyDone \/ EndOldArea
  PROVE  Steady' /\ AbstractStep
<1>1. /\ active \in Bank /\ Other(active) \in Bank /\ Other(active) # active
      /\ Other(Other(active)) = active
      /\ flash \in [Bank -> Area] /\ flash[active] \in Area /\ mem \in Area
      /\ NoTieIn(flash) /\ NoTieIn(flash')
  BY Areas, Bits DEF Journal
<1>2. /\ Collecting /\ pc' \in GcSteps /\ pc \in GcSteps
      /\ UNCHANGED <<active, temp, caller, ctx, op, result>>
  BY DEF FixErase, FixHeader, EraseHeader, EraseBody, ProgramHeader, CopyVariable, CopyDone,
     EndOldArea, Journal, Collecting, GcSteps, RepairSteps
<1>3. Moving /\ PreferredIn(flash, Other(active)) /\ temp \in Moved(flash[Other(active)].vars)
      /\ Cardinality(Live(temp)) <= Capacity /\ caller # "restore"
  BY <1>2 DEF Steady, Moving
\* It is enough that the old area stays in charge and keeps its variables.
<1>4. ASSUME PreferredIn(flash', Other(active)),
             flash'[Other(active)].vars = flash[Other(active)].vars,
             pc' = "copy" => mem'.used = Cardinality(Live(mem'.vars))
      PROVE  Steady' /\ AbstractStep
  <2>1. Store' = Store
    BY <1>1, <1>3, <1>4, StoreOf, StoreOfNext
  <2>2. temp' \in Moved(flash[Other(active)].vars)'
    BY <1>2, <1>3, <1>4 DEF Moved, EffectsOn, ResetImage
  <2>3. ~(\A b \in Bank : ~Sound(flash'[b]))
    BY <1>1, <1>4 DEF PreferredIn
  <2>4. Steady'
    BY <1>1, <1>2, <1>3, <1>4, <2>2, <2>3, Bits
       DEF Steady, Moving, Collecting, GcSteps, RepairSteps
  <2>5. QED
    BY <1>2, <2>1, <2>4, AbstractSteps DEF AbstractStep
<1>5. ASSUME NEW area \in Area, flash' = [flash EXCEPT ![active] = area], ~Sound(area)
      PROVE  PreferredIn(flash', Other(active))
             /\ flash'[Other(active)].vars = flash[Other(active)].vars
  BY <1>1, <1>3, <1>5 DEF PreferredIn
<1>6. CASE FixErase \/ FixHeader
  BY <1>2, <1>6 DEF FixErase, FixHeader, GcSteps
<1>7. CASE EraseHeader
  <2>1. [flash[active] EXCEPT !.hdr = FALSE, !.state = {}] \in Area
        /\ ~Sound([flash[active] EXCEPT !.hdr = FALSE, !.state = {}])
    BY <1>1 DEF Area, Sound
  <2>2. flash' = [flash EXCEPT ![active] = [flash[active] EXCEPT !.hdr = FALSE, !.state = {}]]
    BY <1>1, <1>7 DEF EraseHeader
  <2>3. QED
    BY <1>4, <1>5, <1>7, <2>1, <2>2 DEF EraseHeader
<1>8. CASE EraseBody
  <2>1. Erased \in Area /\ ~Sound(Erased)
    BY ImageType DEF Sound, Erased
  <2>2. QED
    BY <1>4, <1>5, <1>8, <2>1 DEF EraseBody
<1>9. CASE ProgramHeader
  <2>1. mem.state = HeaderState /\ FormattedArea(mem.state) \in Area
    BY <1>1, <1>9, AreaOperations DEF ProgramHeader, Journal, Area
  <2>2. ~Sound(FormattedArea(mem.state)) /\ FormattedArea(mem.state).used = 0
        /\ FormattedArea(mem.state).vars = Empty
    BY <2>1, Bits DEF FormattedArea, Sound, Erased
  <2>3. Live(Empty) = {}
    BY DEF Live, Empty
  <2>4. mem'.used = Cardinality(Live(mem'.vars))
    BY <1>9, <2>2, <2>3, FS_EmptySet DEF ProgramHeader
  <2>5. QED
    BY <1>4, <1>5, <1>9, <2>1, <2>2, <2>4 DEF ProgramHeader
<1>10. CASE CopyVariable
  <2>1. PICK v \in Live(temp) \ Live(mem.vars) :
           flash' = Append(v, temp[v]) /\ mem' = Write(mem, v, temp[v])
    BY <1>10 DEF CopyVariable
  <2>2. /\ pc = "copy" /\ mem = flash[active] /\ mem.state = HeaderState
        /\ mem.used = Cardinality(Live(mem.vars)) /\ mem.vars \in Contents
        /\ temp \in Contents /\ v \in Var /\ temp[v] # Absent
    BY <1>1, <1>10, <2>1, Areas DEF CopyVariable, Journal, Steady, Area, Live
  <2>3. Write(mem, v, temp[v]).state = HeaderState /\ Write(mem, v, temp[v]) \in Area
        /\ Write(mem, v, temp[v]).used = mem.used + 1
        /\ Write(mem, v, temp[v]).vars = [mem.vars EXCEPT ![v] = temp[v]]
    <3>1. temp[v] \in Val \cup {Absent}
      BY <2>2 DEF Contents
    <3>2. Write(mem, v, temp[v]) \in Area
      BY <1>1, <2>2, <3>1, AreaOperations
    <3>3. QED
      BY <1>1, <2>2, <3>2 DEF Write, Area
  <2>4. Live(mem'.vars) = Live(mem.vars) \cup {v}
    BY <2>1, <2>2, <2>3 DEF Live, Contents
  <2>5. Cardinality(Live(mem.vars) \cup {v}) = Cardinality(Live(mem.vars)) + 1
    <3>1. IsFiniteSet(Live(mem.vars)) /\ v \notin Live(mem.vars)
      BY <2>1, <2>2, LiveFinite
    <3>2. QED
      BY <3>1, FS_AddElement
  <2>6. mem'.used = Cardinality(Live(mem'.vars))
    BY <2>1, <2>2, <2>3, <2>4, <2>5
  <2>7. ~Sound(Write(mem, v, temp[v]))
    BY <2>3, Bits DEF Sound
  <2>8. flash' = [flash EXCEPT ![active] = Write(mem, v, temp[v])]
    BY <2>1, <2>2 DEF Append
  <2>9. QED
    BY <1>4, <1>5, <2>3, <2>6, <2>7, <2>8
<1>11. CASE CopyDone
  BY <1>3, <1>4, <1>11 DEF CopyDone
<1>12. CASE EndOldArea
  <2>1. PICK o \in Bank : o = Other(active)
    BY <1>1
  <2>2. mem = flash[active] /\ mem.state = HeaderState /\ pc' = "endNew"
        /\ flash' = AddBits(o, HeaderState \cup OldAreaBits)
    BY <1>12, <2>1 DEF EndOldArea, Journal
  <2>3. HeaderState \cup OldAreaBits \in SUBSET VALID_STATE_FLAGS
    BY Bits
  <2>4. /\ AddBits(o, HeaderState \cup OldAreaBits)[active] = flash[active]
        /\ AddBits(o, HeaderState \cup OldAreaBits)[o].hdr = flash[o].hdr
        /\ AddBits(o, HeaderState \cup OldAreaBits)[o].state
             = flash[o].state \cup (HeaderState \cup OldAreaBits)
        /\ AddBits(o, HeaderState \cup OldAreaBits)[o].vars = flash[o].vars
    BY <1>1, <2>1, <2>3, AddedBits
  <2>5. ~Sound(flash'[active])
    BY <2>2, <2>4, Bits DEF Sound
  <2>6. PreferredIn(flash', Other(active)) /\ flash'[Other(active)].vars = flash[Other(active)].vars
    BY <1>1, <1>3, <2>1, <2>2, <2>4, <2>5 DEF PreferredIn, Sound
  <2>7. QED
    BY <1>4, <2>2, <2>6
<1>13. QED
  BY <1>6, <1>7, <1>8, <1>9, <1>10, <1>11, <1>12

\* The last step of a garbage collection: the new area takes over.
LEMMA EndStep ==
  ASSUME TypeOK, TypeOK', StoreGuard, Calling, Journal, Journal', Steady, EndNewArea
  PROVE  Steady' /\ AbstractStep
<1>1. /\ active \in Bank /\ Other(active) \in Bank /\ mem \in Area
      /\ NoTieIn(flash) /\ NoTieIn(flash')
  BY Areas, Bits DEF Journal
<1>2. /\ mem' = flash'[active'] /\ Preferred(active)' /\ active' = active /\ pc = "endNew"
      /\ Collecting /\ UNCHANGED caller
  BY NewAreaPreferred DEF EndNewArea, Collecting, GcSteps
<1>3. PreferredIn(flash', active) /\ Synced'
  BY <1>2 DEF PreferredIn, Preferred, Synced
<1>4. mem'.vars = mem.vars /\ mem = flash[active]
  BY <1>1, <1>2 DEF EndNewArea, Area, Journal
<1>5. Store' = mem.vars
  BY <1>1, <1>2, <1>3, <1>4, StoreOfNext
<1>6. ~(\A b \in Bank : ~Sound(flash'[b]))
  BY <1>1, <1>3 DEF PreferredIn
<1>7. CASE caller = "repair"
  <2>1. /\ AllEmpty(flash) /\ op = NoOp /\ result = "none" /\ ctx = "boot"
        /\ pc' = "init" /\ UNCHANGED <<op, result, ctx>>
    BY <1>2, <1>7 DEF Steady, EndNewArea, ReinitializeDone
  <2>2. Store' = Store
    BY <1>1, <1>4, <1>5, <2>1, StoreEmpty DEF AllEmpty
  <2>3. QED
    BY <1>6, <2>1, <2>2, SteadyAtWork, AbstractSteps DEF AbstractStep
<1>8. CASE caller # "repair"
  <2>1. /\ PreferredIn(flash, Other(active)) /\ temp \in Moved(flash[Other(active)].vars)
        /\ caller # "restore" /\ mem.vars = temp
    BY <1>2, <1>8 DEF Steady, Moving, Calling
  <2>2. Store' \in Moved(Store)
    BY <1>1, <1>5, <2>1, StoreOf
  <2>3. CASE caller = "set"
    <3>1. pc' = "idle" /\ op' = NoOp /\ result' = "success" /\ op.var \in Var
      BY <1>2, <2>3 DEF EndNewArea, Finish, Calling, GcSteps
    <3>2. op # NoOp
      BY <3>1, BanksAssumption DEF NoOp
    <3>3. Store' \in EffectsOn(Store)
      BY <2>2, <2>3 DEF Moved
    <3>4. QED
      BY <1>3, <1>6, <3>1, <3>2, <3>3, SteadyAtWork, AbstractSteps DEF AbstractStep
  <2>4. CASE caller = "reset"
    <3>1. /\ pc' = "idle" /\ UNCHANGED <<op, result>> /\ op = NoOp /\ result = "none"
      BY <1>2, <2>4 DEF EndNewArea, Steady
    <3>2. Store' = ResetImage(Store)
      BY <2>2, <2>4 DEF Moved
    <3>3. QED
      BY <1>3, <1>6, <3>1, <3>2, SteadyAtWork, AbstractSteps DEF AbstractStep
  <2>5. QED
    BY <1>8, <2>1, <2>3, <2>4 DEF TypeOK, Callers
<1>9. QED
  BY <1>7, <1>8

LEMMA AtomicStep ==
  Reliable /\ TypeOK /\ TypeOK' /\ StoreGuard /\ Calling /\ Journal /\ Steady /\ [Next]_vars
    => Steady' /\ AbstractStep
<1> SUFFICES ASSUME Reliable, TypeOK, TypeOK', StoreGuard, Calling, Journal, Steady, [Next]_vars
             PROVE  Steady' /\ AbstractStep
  OBVIOUS
<1>1. Journal'
  BY JournalStep DEF Reliable, NotReflashed
<1>2. ~Fault
  BY DEF Fault, TypeOK, Reliable
<1>3. CASE \/ FixErase \/ FixHeader \/ EraseHeader \/ EraseBody \/ ProgramHeader
           \/ CopyVariable \/ CopyDone \/ EndOldArea
  BY <1>1, <1>3, RepairStep, MoveStep
<1>4. CASE MarkFails \/ AppendFails \/ DeleteFails \/ EraseFails \/ HeaderFails \/ EndFails
  BY <1>2, <1>4 DEF MarkFails, AppendFails, DeleteFails, EraseFails, HeaderFails, EndFails
<1>5. CASE CopyFails
  <2>1. /\ pc = "copy" /\ ~ Live(temp) \subseteq Live(mem.vars) /\ mem.used = Capacity
    BY <1>2, <1>5 DEF CopyFails
  <2>2. mem.used = Cardinality(Live(mem.vars)) /\ Cardinality(Live(temp)) <= Capacity
    BY <2>1 DEF Steady, Moving, Collecting, GcSteps
  <2>3. QED
    BY <2>1, <2>2, RoomToCopy
<1>6. CASE Reflash
  BY <1>6 DEF Reflash, TypeOK, Reliable
<1>7. CASE UNCHANGED vars
  <2>1. Store' = Store /\ op' = op /\ result' = result
    BY <1>7, StoreKept DEF vars
  <2>2. Steady'
    BY <1>7 DEF vars, Steady, Synced, Preferred, PreferredIn, Moving, Moved, EffectsOn, ResetImage,
       Collecting, AllEmpty
  <2>3. QED
    BY <2>1, <2>2, AbstractSteps DEF AbstractStep
<1>8. QED
  BY <1>1, <1>3, <1>4, <1>5, <1>6, <1>7, CallsStep, EndStep, LossStep DEF Next, Driver

LEMMA AtomicInit == Init => Steady /\ Abstract!Init
<1> SUFFICES ASSUME Init
             PROVE  Steady /\ Abstract!Init
  OBVIOUS
<1>1. TypeOK
  BY TypeInit
<1>2. pc = "off" /\ op = NoOp /\ result = "none" /\ ctx = "boot" /\ caller = "set"
  BY DEF Init
<1>3. CASE flash = [b \in Bank |-> Erased]
  <2>1. AllEmpty(flash)
    BY <1>3 DEF AllEmpty, Erased
  <2>2. Steady
    BY <1>2, <2>1 DEF Steady, Moving, Collecting, GcSteps, RepairSteps
  <2>3. Store = [v \in Var |-> Absent]
    BY <2>1, StoreEmpty DEF Empty
  <2>4. QED
    BY <1>2, <2>2, <2>3 DEF Abstract!Init, Abstract!NoOp, NoOp
<1>4. CASE flash = [b \in Bank |-> IF b = 0 THEN BuildImage ELSE Erased]
  <2>1. flash[0] = BuildImage /\ flash[1] = Erased /\ 0 \in Bank /\ 1 \in Bank /\ Other(0) = 1
    BY <1>4 DEF Bank, Other
  <2>2. Sound(BuildImage) /\ ~Sound(Erased) /\ BuildImage.vars = Default
    BY DEF Sound, BuildImage, Erased, BuildState
  <2>3. NoTieIn(flash) /\ PreferredIn(flash, 0)
    BY <2>1, <2>2 DEF NoTieIn, PreferredIn
  <2>4. Store = Default
    BY <1>1, <2>1, <2>2, <2>3, StoreOf
  <2>5. Steady
    BY <1>2, <2>1, <2>2 DEF Steady, Moving, Collecting, GcSteps, RepairSteps
  <2>6. QED
    BY <1>2, <2>4, <2>5 DEF Abstract!Init, Abstract!NoOp, NoOp
<1>5. QED
  BY <1>3, <1>4 DEF Init

\* As long as flash operations work and the firmware is not updated, SetVariable,
\* garbage collection, configuration reset and boot make the two areas an atomic
\* and durable map, wherever power is lost.
THEOREM AtomicAndDurable == Reliable => (Spec => ImplementsAbstract)
<1>1. SUFFICES ASSUME Reliable
               PROVE  Spec => ImplementsAbstract
  OBVIOUS
<1>2. TypeOK /\ TypeOK' /\ StoreGuard /\ Calling /\ Journal /\ Steady /\ [Next]_vars
        => Steady' /\ [Abstract!Next]_(Abstract!vars)
  BY <1>1, AtomicStep DEF AbstractStep
<1>3. Spec => []Journal
  BY <1>1, JournalCorrect DEF Reliable, NotReflashed
<1>4. Spec => Abstract!Init /\ [][Abstract!Next]_(Abstract!vars)
  BY <1>2, <1>3, AtomicInit, TypeCorrect, GuardCorrect, CallingCorrect, PTL DEF Spec
<1>5. QED
  BY <1>4 DEF ImplementsAbstract, Abstract!Spec
=============================================================================
