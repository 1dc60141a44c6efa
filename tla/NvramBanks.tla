---------------------------- MODULE NvramBanks ----------------------------
(***************************************************************************)
(* The non-volatile variable store of the AMI NVRAM driver: two flash      *)
(* areas, a memory mirror of the active one, SetVariable, the garbage      *)
(* collection that moves the store to the other area, the consistency      *)
(* check of CheckStore, and boot.  Every flash operation is a step of its  *)
(* own, so that power may be lost between any two of them and inside each, *)
(* and each of them may fail (at most MaxFaults times).                    *)
(***************************************************************************)
EXTENDS NvramState, Naturals, FiniteSets

CONSTANTS Var,          \* the variable names (name and GUID)
          Val,          \* the variable values
          Absent,       \* no such variable
          Capacity,     \* how many records one area holds
          Persistent,   \* the variables the update, cleanup and reset filters keep
          Default,      \* the variables of the NVRAM image a build contains
          MaxFaults,    \* how many flash operations may fail
          MaxReflash    \* how many times a firmware update rewrites the areas

Bank == {0, 1}          \* 0 is the ROM area GetNvramLocation calls main
Other(b) == 1 - b
Contents == [Var -> Val \cup {Absent}]
Empty == [v \in Var |-> Absent]
Live(c) == {v \in Var : c[v] # Absent}
Only(c, kept) == [v \in Var |-> IF v \in kept THEN c[v] ELSE Absent]
NoOp == [var |-> Absent, val |-> Absent]

ASSUME BanksAssumption ==
    /\ Absent \notin Val /\ Absent \notin Var
    /\ Capacity \in Nat /\ MaxFaults \in Nat /\ MaxReflash \in Nat
    /\ Persistent \subseteq Var
    /\ Default \in Contents
    /\ IsFiniteSet(Var) /\ Cardinality(Live(Default)) <= Capacity

VARIABLES flash,     \* the two areas
          active,    \* the area NvramFlashAddress points to; BackupAddress is the other
          mem,       \* the memory mirror of the active area
          temp,      \* the variables of the temporary store NewInfo
          pc,        \* the flash operation or decision the driver is at
          caller,    \* who called UpdateVarstore: "set", "restore", "reset" or "repair"
          ctx,       \* who called Reinitialize or CheckStore: "boot", "first", "second", "final"
          media,     \* CheckStore's MediaChanged
          op,        \* the SetVariable call in progress
          result,    \* how the last SetVariable call ended
          faults,    \* how many flash operations have failed
          reflashes  \* how many firmware updates have happened

vars == <<flash, active, mem, temp, pc, caller, ctx, media, op, result,
          faults, reflashes>>

\* A flash area, or the mirror of one: the firmware volume header, the state
\* byte of the FFS file, the variables its records spell, the space the
\* records take, and whether the space behind them is clean (IsStoreOk).
Area == [hdr : BOOLEAN, state : SUBSET VALID_STATE_FLAGS,
         vars : Contents, used : Nat, clean : BOOLEAN]

Erased == [hdr |-> FALSE, state |-> {}, vars |-> Empty, used |-> 0, clean |-> TRUE]
BuildImage == [hdr |-> TRUE, state |-> BuildState, vars |-> Default,
               used |-> Cardinality(Live(Default)), clean |-> TRUE]

State(b) == GetNvramFfsFileState(flash[b])
Valid(b) == StoreValid(State(b))

\* The area Reinitialize settles on when b is the one it calls main, and
\* the area the next boot starts from: GetNvramLocation always calls 0 main.
Selected(b) == IF UseBackup(State(b), State(Other(b))) THEN Other(b) ELSE b
BootBank == Selected(0)

GcSteps == {"erase", "eraseBody", "header", "copy", "endOld", "endNew"}
RepairSteps == {"fixErase", "fixHeader"}
Steps == GcSteps \cup RepairSteps \cup
         {"off", "failed", "init", "idle", "check", "mark", "readd", "set",
          "append", "delete", "recover"}

Callers == {"set", "restore", "reset", "repair"}
Contexts == {"boot", "first", "second", "final"}
Calls == [var : Var \cup {Absent}, val : Val \cup {Absent}]
Results == {"none", "success", "error"}

TypeOK ==
    /\ flash \in [Bank -> Area]
    /\ active \in Bank
    /\ mem \in Area
    /\ temp \in Contents
    /\ pc \in Steps
    /\ caller \in Callers
    /\ ctx \in Contexts
    /\ media \in BOOLEAN
    /\ op \in Calls
    /\ result \in Results
    /\ faults \in 0..MaxFaults
    /\ reflashes \in 0..MaxReflash

\* The part starts with a freshly flashed image, or blank.
Init ==
    /\ flash \in {[b \in Bank |-> IF b = 0 THEN BuildImage ELSE Erased],
                  [b \in Bank |-> Erased]}
    /\ active = 0 /\ mem = Erased /\ temp = Empty
    /\ pc = "off" /\ caller = "set" /\ ctx = "boot" /\ media = FALSE
    /\ op = NoOp /\ result = "none" /\ faults = 0 /\ reflashes = 0


---------------------------------------------------------------------------
\* What one flash operation leaves behind.

\* Mutant: the new value of the state byte is not masked with the old one.
AddBitsUnmasked(b, bits) == [flash EXCEPT ![b].state = @ \cup bits \cup HEADER_INVALID]
AddBits(b, bits) == [flash EXCEPT ![b].state = @ \cup bits]
Write(area, v, d) == [area EXCEPT !.vars[v] = d, !.used = @ + 1]
FormattedArea(state) == [Erased EXCEPT !.hdr = TRUE, !.state = state]
Append(v, d) == [flash EXCEPT ![active] = Write(flash[active], v, d)]

\* A record that was not completed: nothing programmed, no usable size (the
\* space behind the records is dirty), or a record that is skipped by its size.
TornRecords ==
    {flash, [flash EXCEPT ![active].clean = FALSE]} \cup
    (IF flash[active].used < Capacity
     THEN {[flash EXCEPT ![active].used = @ + 1]} ELSE {})

\* The flash contents an interrupted or a failed operation may leave.
Partial ==
    CASE pc \in {"append", "readd", "copy"} -> TornRecords
      [] pc = "delete"    -> {flash, [flash EXCEPT ![active].vars[op.var] = Absent]}
      [] pc = "mark"      -> {flash, AddBits(active, {"MARKED_FOR_UPDATE"})}
      [] pc = "erase"     -> {flash, [flash EXCEPT ![active].hdr = FALSE,
                                                   ![active].state = {}]}
      [] pc = "eraseBody" -> {flash, [flash EXCEPT ![active] = Erased]}
      [] pc = "fixErase"  -> {flash, [flash EXCEPT ![active] = Erased]}
      [] pc = "header"    -> {flash} \cup
            {[flash EXCEPT ![active] = FormattedArea(s)] : s \in SUBSET HeaderState}
      [] pc = "fixHeader" -> {flash} \cup
            {[flash EXCEPT ![active] = FormattedArea(s)] :
                s \in SUBSET (BuildState \cup {"MARKED_FOR_UPDATE"})}
      [] pc = "endOld"    -> {AddBits(Other(active), s) : s \in SUBSET OldAreaBits}
      [] pc = "endNew"    -> {AddBits(active, s) : s \in SUBSET NewAreaBits}
      [] OTHER            -> {flash}

---------------------------------------------------------------------------
\* How the calls return.

\* DxeSetVariable returns.
Finish(r) == pc' = "idle" /\ op' = NoOp /\ result' = r

\* Mutant: the status of the last CheckStore replaces the error of SetVariable.
CheckStoreDoneStatusLost ==
    \/ /\ ctx = "first" /\ ctx' = "second" /\ pc' = "check"
       /\ UNCHANGED <<op, result>>
    \/ ctx = "second" /\ Finish("error") /\ UNCHANGED ctx
    \/ ctx = "final" /\ Finish("success") /\ UNCHANGED ctx

\* CheckStore returns a warning: the first time DxeSetVariable starts over,
\* the second time it gives up, and after error recovery it was the last step.
CheckStoreDone ==
    \/ /\ ctx = "first" /\ ctx' = "second" /\ pc' = "check"
       /\ UNCHANGED <<op, result>>
    \/ /\ ctx \in {"second", "final"} /\ Finish("error") /\ UNCHANGED ctx

\* Reinitialize returns a success or a warning.
ReinitializeDone ==
    /\ pc' = IF ctx = "boot" THEN "init" ELSE "readd"
    /\ UNCHANGED <<op, result, ctx>>

\* Reinitialize returns an error: the driver does not load, or CheckStore fails.
ReinitializeFailed ==
    \/ ctx = "boot" /\ pc' = "failed" /\ UNCHANGED <<op, result>>
    \/ ctx # "boot" /\ Finish("error")

\* DxeSetVariable restores the flag of the variable it had hidden, at the old
\* address, in a buffer that was read again: another record may be dropped.
Flip(buffer) ==
    {buffer} \cup
    (IF op.var \in Var /\ flash[BootBank].vars[op.var] # Absent
     THEN {[buffer EXCEPT !.vars[v] = Absent] : v \in Var} ELSE {})

\* UpdateVarstore (or the garbage collection of Reinitialize) returns an error
\* after the mirror has become buffer; kept: its records are still the old ones.
UpdateFailed(buffer, kept) ==
    \/ /\ caller = "set" /\ pc' = "check" /\ ctx' = "final"
       /\ mem' \in IF kept THEN {buffer} ELSE Flip(buffer)
       /\ UNCHANGED <<op, result>>
    \/ /\ caller = "restore" /\ mem' = buffer /\ Finish("error") /\ UNCHANGED ctx
    \/ /\ caller = "reset" /\ mem' = buffer /\ pc' = "idle"
       /\ UNCHANGED <<op, result, ctx>>
    \/ /\ caller = "repair" /\ mem' = buffer /\ ReinitializeFailed /\ UNCHANGED ctx

Fault == faults < MaxFaults /\ faults' = faults + 1 /\ flash' \in Partial

---------------------------------------------------------------------------
\* Garbage collection.

\* Mutant: the area that holds the store is erased instead of the backup area.
BeginGarbageCollectionInPlace(b, buffer, content, who) ==
    /\ temp' = content /\ caller' = who
    /\ active' = b /\ pc' = "erase" /\ mem' = [buffer EXCEPT !.hdr = TRUE, !.state = HeaderState]

\* BeginGarbageCollection up to its first flash operation.  A buffer without a
\* header first gets one, and the area it mirrors is formatted.
BeginGarbageCollection(b, buffer, content, who) ==
    /\ temp' = content /\ caller' = who
    /\ IF buffer.hdr
       THEN /\ active' = Other(b) /\ pc' = "erase"
            /\ mem' = [buffer EXCEPT !.state = HeaderState]
       ELSE /\ active' = b /\ pc' = "fixErase"
            /\ mem' = [buffer EXCEPT !.hdr = TRUE,
                                     !.state = BuildState \cup {"MARKED_FOR_UPDATE"}]

\* The bad area is erased and formatted as a valid, empty store.
FixErase ==
    /\ pc = "fixErase" /\ pc' = "fixHeader"
    /\ flash' = [flash EXCEPT ![active] = Erased]
    /\ UNCHANGED <<active, mem, temp, caller, ctx, media, op, result, faults, reflashes>>

FixHeader ==
    /\ pc = "fixHeader" /\ pc' = "erase"
    /\ flash' = [flash EXCEPT ![active] = FormattedArea(mem.state)]
    /\ active' = Other(active) /\ mem' = [mem EXCEPT !.state = HeaderState]
    /\ UNCHANGED <<temp, caller, ctx, media, op, result, faults, reflashes>>

\* FlashDriverErase goes up the blocks: the first one holds the headers.
EraseHeader ==
    /\ pc = "erase" /\ pc' = "eraseBody"
    /\ flash' = [flash EXCEPT ![active].hdr = FALSE, ![active].state = {}]
    /\ UNCHANGED <<active, mem, temp, caller, ctx, media, op, result, faults, reflashes>>

EraseBody ==
    /\ pc = "eraseBody" /\ pc' = "header"
    /\ flash' = [flash EXCEPT ![active] = Erased]
    /\ UNCHANGED <<active, mem, temp, caller, ctx, media, op, result, faults, reflashes>>

\* The header is programmed and the mirror becomes an empty store.
ProgramHeader ==
    /\ pc = "header" /\ pc' = IF caller = "repair" THEN "endOld" ELSE "copy"
    /\ flash' = [flash EXCEPT ![active] = FormattedArea(mem.state)]
    /\ mem' = FormattedArea(mem.state)
    /\ UNCHANGED <<active, temp, caller, ctx, media, op, result, faults, reflashes>>

\* CopyVariables from the temporary store, one variable at a time.
CopyVariable ==
    /\ pc = "copy" /\ mem.used < Capacity
    /\ \E v \in Live(temp) \ Live(mem.vars) :
          /\ flash' = Append(v, temp[v]) /\ mem' = Write(mem, v, temp[v])
    /\ UNCHANGED <<active, temp, pc, caller, ctx, media, op, result, faults, reflashes>>

CopyDone ==
    /\ pc = "copy" /\ Live(temp) \subseteq Live(mem.vars) /\ pc' = "endOld"
    /\ UNCHANGED <<flash, active, mem, temp, caller, ctx, media, op, result, faults, reflashes>>

\* Mutant: the old area is marked only when the new one has become valid.
EndOldAreaLast ==
    /\ pc = "endOld" /\ pc' = "endNew"
    /\ flash' = AddBits(active, NewAreaBits)
    /\ UNCHANGED <<active, mem, temp, caller, ctx, media, op, result, faults, reflashes>>

\* EndGarbageCollection: the old area is marked DELETED first...
EndOldArea ==
    /\ pc = "endOld" /\ pc' = "endNew"
    /\ flash' = AddBits(Other(active), mem.state \cup OldAreaBits)
    /\ UNCHANGED <<active, mem, temp, caller, ctx, media, op, result, faults, reflashes>>

\* ...and then the new one DATA_VALID, through the mirror.
EndNewArea ==
    /\ pc = "endNew"
    /\ flash' = AddBits(active, NewAreaBits)
    /\ mem' = [mem EXCEPT !.state = @ \cup NewAreaBits]
    /\ media' = (media /\ caller # "repair")
    /\ \/ caller = "set" /\ Finish("success") /\ UNCHANGED ctx
       \/ caller = "restore" /\ CheckStoreDone
       \/ caller = "reset" /\ pc' = "idle" /\ UNCHANGED <<op, result, ctx>>
       \/ caller = "repair" /\ ReinitializeDone
    /\ UNCHANGED <<active, temp, caller, faults, reflashes>>

\* The erase fails: the whole buffer is read again, from the area being erased.
EraseFails ==
    /\ pc \in {"fixErase", "erase", "eraseBody"} /\ Fault
    /\ UpdateFailed(flash'[active], FALSE)
    /\ active' = IF caller = "repair" THEN Other(active) ELSE active
    /\ UNCHANGED <<temp, caller, media, reflashes>>

\* The header program fails: only the header is read again.
HeaderFails ==
    /\ pc \in {"fixHeader", "header"} /\ Fault
    /\ UpdateFailed([mem EXCEPT !.hdr = flash'[active].hdr,
                                !.state = flash'[active].state], TRUE)
    /\ active' = IF caller = "repair" THEN Other(active) ELSE active
    /\ UNCHANGED <<temp, caller, media, reflashes>>

\* A copy fails: EndGarbageCollection(ErrorsFound) goes back to the old area.
CopyFails ==
    /\ pc = "copy" /\ ~ Live(temp) \subseteq Live(mem.vars)
    /\ \/ Fault
       \/ mem.used = Capacity /\ UNCHANGED <<flash, faults>>
    /\ UpdateFailed(flash'[active], FALSE)
    /\ active' = Other(active)
    /\ UNCHANGED <<temp, caller, media, reflashes>>

\* A state byte fails: UpdateVarstore goes back to the old area, Reinitialize
\* does not.  Only the byte of the new area has a mirror to read again.
EndFails ==
    /\ pc \in {"endOld", "endNew"} /\ Fault
    /\ UpdateFailed([mem EXCEPT !.state = flash'[active].state], FALSE)
    /\ active' = IF caller = "repair" THEN active ELSE Other(active)
    /\ UNCHANGED <<temp, caller, media, reflashes>>
---------------------------------------------------------------------------
\* Reinitialize, boot and CheckStore.

\* HybridInterfaceReinitialize with b as the main area and content as the
\* temporary store of its caller.
HybridInterfaceReinitialize(b, content) ==
    LET s == Selected(b) IN
    IF Valid(s)
    THEN /\ active' = s /\ mem' = flash[s] /\ temp' = content /\ UNCHANGED caller
         /\ IF State(s) = BuildState
            THEN pc' = "mark" /\ UNCHANGED <<op, result>>
            ELSE pc' = (IF ctx' = "boot" THEN "init" ELSE "readd") /\ UNCHANGED <<op, result>>
    ELSE /\ BeginGarbageCollection(s, flash[s], content, "repair")
         /\ UNCHANGED <<op, result>>

\* The freshly built store is marked as one the driver manages.
MarkForUpdate ==
    /\ pc = "mark" /\ ReinitializeDone
    /\ flash' = AddBits(active, {"MARKED_FOR_UPDATE"})
    /\ mem' = [mem EXCEPT !.state = @ \cup {"MARKED_FOR_UPDATE"}]
    /\ UNCHANGED <<active, temp, caller, media, faults, reflashes>>

MarkFails ==
    /\ pc = "mark" /\ Fault /\ ReinitializeFailed
    /\ mem' = [mem EXCEPT !.state = flash'[active].state]
    /\ UNCHANGED <<active, temp, caller, ctx, media, reflashes>>

\* PeiInitNvram chooses the main area and passes both addresses in a HOB;
\* NvramInitialize hands them to Reinitialize.
Boot ==
    /\ pc = "off" /\ ctx' = "boot"
    /\ HybridInterfaceReinitialize(BootBank, Empty)
    /\ UNCHANGED <<flash, media, faults, reflashes>>

\* What a configuration reset keeps: persistent variables and those that have
\* no default; the others go back to the default.
ResetImage(c) ==
    [v \in Var |-> IF Default[v] # Absent /\ (v \notin Persistent \/ c[v] = Absent)
                   THEN Default[v] ELSE c[v]]

\* The end of InitNonVolatileVarStore: a store without defaults, or a request to
\* reset the configuration, replaces the variables.
InitNonVolatileVarStore ==
    /\ pc = "init"
    /\ \/ /\ mem.used # 0
          /\ pc' = "idle" /\ UNCHANGED <<active, mem, temp, caller>>
       \/ LET image == ResetImage(mem.vars)
              size  == Cardinality(Live(image)) IN
          IF size \in 1..Capacity
          THEN BeginGarbageCollection(active, mem, image, "reset")
          ELSE pc' = "idle" /\ UNCHANGED <<active, mem, temp, caller>>
    /\ UNCHANGED <<flash, ctx, media, op, result, faults, reflashes>>

\* Mutant: the state of the area is not compared with the state of the buffer.
HybridInterfaceCheckStoreUncompared ==
    IF "DATA_VALID" \notin GetNvramFfsFileState(mem) THEN "INVALID_PARAMETER"
    ELSE IF CheckNvramStoreState(State(active), State(Other(active))) THEN "SUCCESS"
    ELSE IF BuildState = State(Other(active)) THEN "MEDIA_CHANGED" ELSE "VOLUME_CORRUPTED"

HybridInterfaceCheckStore ==
    LET buffer == GetNvramFfsFileState(mem)
        main   == State(active)
        backup == State(Other(active)) IN
    IF "DATA_VALID" \notin buffer THEN "INVALID_PARAMETER"
    ELSE IF main = buffer /\ (backup = HEADER_INVALID \/ CheckNvramStoreState(main, backup))
    THEN "SUCCESS"
    ELSE IF BuildState \in {main, backup} THEN "MEDIA_CHANGED" ELSE "VOLUME_CORRUPTED"

\* CheckStore up to the end of Reinitialize; the variables of the buffer are
\* saved first.
CheckStore ==
    /\ pc = "check"
    /\ IF HybridInterfaceCheckStore = "SUCCESS"
       THEN /\ \/ ctx = "final" /\ Finish("error")
               \/ ctx # "final" /\ pc' = "set" /\ UNCHANGED <<op, result>>
            /\ UNCHANGED <<active, mem, temp, caller, ctx, media>>
       ELSE /\ media' = (HybridInterfaceCheckStore = "MEDIA_CHANGED")
            /\ UNCHANGED ctx
            /\ HybridInterfaceReinitialize(active, mem.vars)
    /\ UNCHANGED <<flash, faults, reflashes>>

\* Mutant: the update filter is inverted.
MissingInverted == {v \in Live(temp) \ Live(mem.vars) : media => v \notin Persistent}

\* CopyVariables of CheckStore: saved variables the store does not have.
Missing == {v \in Live(temp) \ Live(mem.vars) : media => v \in Persistent}

RestoreVariable ==
    /\ pc = "readd" /\ mem.used < Capacity /\ mem.clean
    /\ \E v \in Missing :
          /\ flash' = Append(v, temp[v]) /\ mem' = Write(mem, v, temp[v])
    /\ UNCHANGED <<active, temp, pc, caller, ctx, media, op, result, faults, reflashes>>

RestoreDone ==
    /\ pc = "readd" /\ Missing = {} /\ CheckStoreDone
    /\ UNCHANGED <<flash, active, mem, temp, caller, media, faults, reflashes>>

\* A variable cannot be added: the whole saved image replaces the store.
RestoreFails ==
    /\ pc = "readd" /\ Missing # {}
    /\ \/ Fault
       \/ (mem.used = Capacity \/ ~mem.clean) /\ UNCHANGED <<flash, faults>>
    /\ BeginGarbageCollection(active, flash'[active], temp, "restore")
    /\ UNCHANGED <<ctx, media, op, result, reflashes>>

---------------------------------------------------------------------------
\* SetVariable.

\* Mutant: the call does not begin with CheckStore.
DxeSetVariableUnchecked ==
    /\ pc = "idle" /\ pc' = "set" /\ ctx' = "first"
    /\ \E v \in Var, d \in Val \cup {Absent} : op' = [var |-> v, val |-> d]
    /\ UNCHANGED <<flash, active, mem, temp, caller, media, result, faults, reflashes>>

\* A call comes in; Absent as the value deletes the variable.
DxeSetVariable ==
    /\ pc = "idle" /\ pc' = "check" /\ ctx' = "first"
    /\ \E v \in Var, d \in Val \cup {Absent} : op' = [var |-> v, val |-> d]
    /\ UNCHANGED <<flash, active, mem, temp, caller, media, result, faults, reflashes>>

\* The call's own part, once CheckStore has found the store in order.
Update ==
    /\ pc = "set"
    /\ \/ /\ op.val = Absent /\ mem.vars[op.var] = Absent /\ Finish("error")
       \/ /\ op.val = Absent /\ mem.vars[op.var] # Absent
          /\ pc' = "delete" /\ UNCHANGED <<op, result>>
       \/ /\ op.val # Absent /\ mem.clean /\ mem.vars[op.var] = op.val /\ Finish("success")
       \/ /\ op.val # Absent /\ mem.clean /\ mem.vars[op.var] # op.val
          /\ pc' = (IF mem.used < Capacity THEN "append" ELSE "recover")
          /\ UNCHANGED <<op, result>>
       \/ /\ op.val # Absent /\ ~mem.clean
          /\ pc' = "recover" /\ UNCHANGED <<op, result>>
    /\ UNCHANGED <<flash, active, mem, temp, caller, ctx, media, faults, reflashes>>

\* CreateVariable or UpdateVariable completes its record.
AppendRecord ==
    /\ pc = "append" /\ Finish("success")
    /\ flash' = Append(op.var, op.val) /\ mem' = Write(mem, op.var, op.val)
    /\ UNCHANGED <<active, temp, caller, ctx, media, faults, reflashes>>

\* A record is not completed: RecoverFromFlashUpdateFailure leaves a skipped
\* record, or a store that is not OK, which error recovery replaces.
AppendFails ==
    /\ pc = "append" /\ Fault /\ mem' = flash'[active]
    /\ \/ mem'.clean /\ Finish("error")
       \/ /\ ~mem'.clean \/ (mem'.used # mem.used /\ mem.vars[op.var] # Absent)
          /\ pc' = "recover" /\ UNCHANGED <<op, result>>
    /\ UNCHANGED <<active, temp, caller, ctx, media, reflashes>>

DeleteVariable ==
    /\ pc = "delete" /\ Finish("success")
    /\ flash' = [flash EXCEPT ![active].vars[op.var] = Absent]
    /\ mem' = [mem EXCEPT !.vars[op.var] = Absent]
    /\ UNCHANGED <<active, temp, caller, ctx, media, faults, reflashes>>

DeleteFails ==
    /\ pc = "delete" /\ Fault /\ mem' = flash'[active] /\ Finish("error")
    /\ UNCHANGED <<active, temp, caller, ctx, media, reflashes>>

\* Error recovery: the other variables and the new one, or when they do not fit
\* those the cleanup filter keeps and the new one, go to the other area.
Rest == [mem.vars EXCEPT ![op.var] = Absent]
HasRoom(c) == Cardinality(Live(c)) < Capacity
\* Mutant: the new variable is not added to the temporary store.
WithNewForgotten(c) == c
WithNew(c) == [c EXCEPT ![op.var] = op.val]

\* Mutant: the loop over the two filters starts over when neither helps.
ErrorRecoveryEndless ==
    /\ pc = "recover"
    /\ IF HasRoom(Rest)
       THEN BeginGarbageCollection(active, mem, WithNew(Rest), "set")
       ELSE UNCHANGED <<active, mem, temp, caller, pc>>
    /\ UNCHANGED <<flash, ctx, media, op, result, faults, reflashes>>

ErrorRecovery ==
    /\ pc = "recover"
    /\ \/ /\ HasRoom(Rest)
          /\ BeginGarbageCollection(active, mem, WithNew(Rest), "set") /\ UNCHANGED ctx
       \/ /\ ~HasRoom(Rest) /\ HasRoom(Only(Rest, Persistent))
          /\ BeginGarbageCollection(active, mem, WithNew(Only(Rest, Persistent)), "set")
          /\ UNCHANGED ctx
       \/ /\ ~HasRoom(Rest) /\ pc' = "check" /\ ctx' = "final"
          /\ UNCHANGED <<active, mem, temp, caller>>
    /\ UNCHANGED <<flash, media, op, result, faults, reflashes>>

---------------------------------------------------------------------------
\* The environment.

\* Power is lost, or the platform is reset, inside or between flash operations.
PowerLoss ==
    /\ pc # "off" /\ pc' = "off"
    /\ flash' \in Partial
    /\ active' = 0 /\ mem' = Erased /\ temp' = Empty
    /\ caller' = "set" /\ ctx' = "boot" /\ media' = FALSE
    /\ op' = NoOp /\ result' = "none"
    /\ UNCHANGED <<faults, reflashes>>

\* A firmware update rewrites the NVRAM areas, or only the main one, behind
\* the driver's back.
Reflash ==
    /\ pc = "idle" /\ reflashes < MaxReflash /\ reflashes' = reflashes + 1
    /\ flash' \in {[b \in Bank |-> IF b = 0 THEN BuildImage ELSE Erased],
                   [flash EXCEPT ![0] = BuildImage]}
    /\ UNCHANGED <<active, mem, temp, pc, caller, ctx, media, op, result, faults>>

Driver ==
    \/ Boot \/ InitNonVolatileVarStore \/ MarkForUpdate
    \/ CheckStore \/ RestoreVariable \/ RestoreDone \/ RestoreFails
    \/ Update \/ AppendRecord \/ DeleteVariable \/ ErrorRecovery
    \/ FixErase \/ FixHeader \/ EraseHeader \/ EraseBody \/ ProgramHeader
    \/ CopyVariable \/ CopyDone \/ EndOldArea \/ EndNewArea
    \/ MarkFails \/ AppendFails \/ DeleteFails
    \/ EraseFails \/ HeaderFails \/ CopyFails \/ EndFails

Next == Driver \/ DxeSetVariable \/ PowerLoss \/ Reflash

Spec == Init /\ [][Next]_vars

\* The driver runs to the end of a call unless power is lost.
FairSpec == Spec /\ WF_vars(Driver)
---------------------------------------------------------------------------
\* Properties.

\* The variables the next boot would find.
Store == IF Valid(BootBank) THEN flash[BootBank].vars ELSE Empty

\* Whatever is interrupted or fails, and wherever, once the store has been
\* built it is never lost: BeginGarbageCollection erases only the area that is
\* not the store, and EndGarbageCollection leaves a valid one at every step.
StoreNeverLost == [][Valid(BootBank) => Valid(BootBank)']_vars

\* Why it is never lost, in an inductive form: the driver works on a valid area,
\* and it erases or formats an area that is not valid, or not the only one.
StoreGuard ==
    /\ pc \in {"init", "mark", "set", "append", "delete", "recover", "readd"} =>
            Valid(active) /\ mem.hdr
    /\ pc \in {"erase", "eraseBody"} /\ Valid(active) => Valid(Other(active))
    /\ pc \in {"header", "fixErase", "fixHeader"} => ~Valid(active)
    /\ pc \in {"fixErase", "fixHeader"} => ~Valid(Other(active))
    /\ pc \in GcSteps \cup RepairSteps => mem.hdr
    /\ pc \in {"copy", "endOld", "endNew"} => flash[active].hdr

\* The two areas only go through the rows of the table in the comment of
\* CheckNvramStoreState, in its order and one at a time, and the next boot takes
\* the area the row names: whatever operation of a garbage collection fails, or
\* is cut short by a power loss, and whatever the driver then does about it.
Row == [main |-> Stage(State(0)), backup |-> Stage(State(1)), use |-> BootBank]
NextRow(was, is) ==
    IF was.main = "none" /\ was.backup = "none"
    THEN is.main # "none" \/ is.backup # "none" => is \in {Transitions[1], Transitions[2]}
    ELSE \E i \in DOMAIN Transitions :
             was = Transitions[i] /\ is \in {was, Transitions[Following(i)]}
DocumentedTransitions == [][NextRow(Row, Row')]_flash

\* When both areas are valid, the two orders in which PEI, DXE and SMM may call
\* them main and backup lead CheckNvramStoreState to the same area.
SelectionUnambiguous ==
    Valid(0) /\ Valid(1) =>
        (UseBackup(State(0), State(1)) <=> ~UseBackup(State(1), State(0)))

\* Variables are only ever changed through a mirror that equals the area the
\* next boot would take: CheckStore never lets SetVariable, error recovery or
\* the restoring of variables go on with a buffer an earlier failure left behind.
SyncedWhenUsed ==
    pc \in {"init", "mark", "set", "append", "delete", "recover", "readd"} =>
        active = BootBank /\ Valid(active) /\ mem = flash[active]

\* A SetVariable call that returns success is in the flash, where the next boot
\* finds it, even after flash failures and error recovery during the call.
SuccessIsDurable ==
    [][op # NoOp /\ op' = NoOp /\ result' = "success" => Store'[op.var] = op.val]_vars

\* A SetVariable call never gives another variable that exists a value it had
\* before: when the buffer cannot be merged into the store, CheckStore says it
\* is "Trying to restore original NVRAM image".
OthersNotRolledBack ==
    [][op # NoOp => \A v \in Var \ {op.var} :
          Store[v] # Absent => Store'[v] \in {Store[v], Absent}]_vars

\* After a firmware update has rewritten the store, a persistent variable that
\* the new image does not define keeps its value when SetVariable goes on.
\* (the EFI_MEDIA_CHANGED path of CheckStore)
PersistentCarriedOver ==
    pc = "set" /\ ctx = "second" /\ media =>
        \A v \in Persistent : temp[v] # Absent /\ Default[v] = Absent => mem.vars[v] = temp[v]

\* Without flash failures and firmware updates the store is an atomic, durable
\* map: every step is a step of NvramAbstract or does not show.
Abstract == INSTANCE NvramAbstract WITH store <- Store
ImplementsAbstract == Abstract!Spec

\* Every call of the driver, and every boot, comes to an end.
CallReturns == pc \notin {"idle", "off", "failed"} ~> pc \in {"idle", "off", "failed"}

===========================================================================
