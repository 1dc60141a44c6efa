------------------------- MODULE NvramBanks_proofs -------------------------
(***************************************************************************)
(* Type correctness of NvramBanks, and the proof that the store is never   *)
(* lost, for any variables, capacity, number of flash failures and number  *)
(* of firmware updates.                                                    *)
(***************************************************************************)
EXTENDS NvramBanks, FiniteSetTheorems, TLAPS

\* The build's image and an erased area are areas.
LEMMA ImageType == BuildImage \in Area /\ Erased \in Area
<1>1. IsFiniteSet(Live(Default))
  <2>1. Live(Default) \subseteq Var
    BY DEF Live
  <2>2. QED
    BY <2>1, BanksAssumption, FS_Subset
<1>2. Cardinality(Live(Default)) \in Nat
  BY <1>1, FS_CardinalityType
<1>3. Empty \in Contents
  BY DEF Empty, Contents
<1>4. QED
  BY <1>2, <1>3, BanksAssumption
     DEF Area, BuildImage, Erased, BuildState, VALID_STATE_FLAGS

\* A boot finds a valid store exactly when one of the areas is valid.
LEMMA BootBankValid == Valid(BootBank) <=> Valid(0) \/ Valid(1)
  BY DEF BootBank, Selected, UseBackup, CheckNvramStoreState, Valid, Other

LEMMA BootBankValidNext == (Valid(BootBank) <=> Valid(0) \/ Valid(1))'
  BY DEF BootBank, Selected, UseBackup, CheckNvramStoreState, Valid, Other, State

---------------------------------------------------------------------------
\* Type correctness.

\* What flash operations do to an area, and to the pair of areas.
LEMMA AreaOperations ==
  ASSUME TypeOK
  PROVE  /\ \A area \in Area, v \in Var, d \in Val \cup {Absent} : Write(area, v, d) \in Area
         /\ \A state \in SUBSET VALID_STATE_FLAGS : FormattedArea(state) \in Area
         /\ \A area \in Area : [flash EXCEPT ![active] = area] \in [Bank -> Area]
         /\ \A b \in Bank, bits \in SUBSET VALID_STATE_FLAGS : AddBits(b, bits) \in [Bank -> Area]
         /\ \A b \in Bank : flash[b] \in Area /\ Other(b) \in Bank
<1>1. Empty \in Contents
  BY DEF Empty, Contents
<1>2. ASSUME NEW area \in Area, NEW v \in Var, NEW d \in Val \cup {Absent}
      PROVE  Write(area, v, d) \in Area
  <2>1. [area.vars EXCEPT ![v] = d] \in Contents
    BY DEF Area, Contents
  <2>2. area.used + 1 \in Nat
    BY DEF Area
  <2>3. QED
    BY <2>1, <2>2 DEF Write, Area
<1>3. \A state \in SUBSET VALID_STATE_FLAGS : FormattedArea(state) \in Area
  BY <1>1 DEF FormattedArea, Area, Erased
<1>4. \A area \in Area : [flash EXCEPT ![active] = area] \in [Bank -> Area]
  BY DEF TypeOK
<1>5. \A b \in Bank : flash[b] \in Area /\ Other(b) \in Bank
  BY DEF TypeOK, Bank, Other
<1>6. \A b \in Bank, bits \in SUBSET VALID_STATE_FLAGS : AddBits(b, bits) \in [Bank -> Area]
  BY DEF TypeOK, AddBits, Area
<1>7. QED
  BY <1>2, <1>3, <1>4, <1>5, <1>6

\* An interrupted or failed operation leaves areas behind.
LEMMA PartialType ==
  ASSUME TypeOK
  PROVE  Partial \subseteq [Bank -> Area]
<1>1. flash \in [Bank -> Area] /\ active \in Bank /\ flash[active] \in Area
  BY DEF TypeOK
<1>2. TornRecords \subseteq [Bank -> Area]
  <2>1. [flash EXCEPT ![active].clean = FALSE] \in [Bank -> Area]
    BY <1>1 DEF Area
  <2>2. [flash EXCEPT ![active].used = @ + 1] \in [Bank -> Area]
    BY <1>1 DEF Area
  <2>3. QED
    BY <1>1, <2>1, <2>2 DEF TornRecords
<1>3. [flash EXCEPT ![active].vars[op.var] = Absent] \in [Bank -> Area]
  BY <1>1 DEF Area, Contents
<1>4. [flash EXCEPT ![active].hdr = FALSE, ![active].state = {}] \in [Bank -> Area]
  BY <1>1 DEF Area
<1>5. [flash EXCEPT ![active] = Erased] \in [Bank -> Area]
  BY <1>1, ImageType
<1>6. /\ {"MARKED_FOR_UPDATE"} \subseteq VALID_STATE_FLAGS
      /\ HeaderState \subseteq VALID_STATE_FLAGS
      /\ BuildState \cup {"MARKED_FOR_UPDATE"} \subseteq VALID_STATE_FLAGS
      /\ OldAreaBits \subseteq VALID_STATE_FLAGS
      /\ NewAreaBits \subseteq VALID_STATE_FLAGS
  BY DEF HeaderState, BuildState, OldAreaBits, NewAreaBits, VALID_STATE_FLAGS
<1>7. \A s \in SUBSET VALID_STATE_FLAGS :
         /\ AddBits(active, s) \in [Bank -> Area]
         /\ AddBits(Other(active), s) \in [Bank -> Area]
         /\ [flash EXCEPT ![active] = FormattedArea(s)] \in [Bank -> Area]
  BY <1>1, AreaOperations
<1>8. SUFFICES ASSUME NEW f \in Partial
               PROVE  f \in [Bank -> Area]
  OBVIOUS
<1>9. CASE pc \in {"append", "readd", "copy"}
  BY <1>2, <1>8, <1>9 DEF Partial
<1>10. CASE pc = "delete"
  BY <1>1, <1>3, <1>8, <1>10 DEF Partial
<1>11. CASE pc = "mark"
  BY <1>1, <1>6, <1>7, <1>8, <1>11 DEF Partial
<1>12. CASE pc = "erase"
  BY <1>1, <1>4, <1>8, <1>12 DEF Partial
<1>13. CASE pc \in {"eraseBody", "fixErase"}
  BY <1>1, <1>5, <1>8, <1>13 DEF Partial
<1>14. CASE pc = "header"
  BY <1>1, <1>6, <1>7, <1>8, <1>14 DEF Partial
<1>15. CASE pc = "fixHeader"
  BY <1>1, <1>6, <1>7, <1>8, <1>15 DEF Partial
<1>16. CASE pc = "endOld"
  BY <1>1, <1>6, <1>7, <1>8, <1>16 DEF Partial
<1>17. CASE pc = "endNew"
  BY <1>1, <1>6, <1>7, <1>8, <1>17 DEF Partial
<1>18. CASE pc \in {"off", "failed", "init", "idle", "check", "set", "recover"}
  BY <1>1, <1>8, <1>18 DEF Partial
<1>19. QED
  BY <1>9, <1>10, <1>11, <1>12, <1>13, <1>14, <1>15, <1>16, <1>17, <1>18
     DEF TypeOK, Steps, GcSteps, RepairSteps
---------------------------------------------------------------------------
\* The types of what the shared parts of the actions assign.

LEMMA ReturnTypes ==
  ASSUME TypeOK
  PROVE  /\ \A r \in Results : Finish(r) => pc' \in Steps /\ op' \in Calls /\ result' \in Results
         /\ CheckStoreDone =>
              pc' \in Steps /\ op' \in Calls /\ result' \in Results /\ ctx' \in Contexts
         /\ ReinitializeDone =>
              pc' \in Steps /\ op' \in Calls /\ result' \in Results /\ ctx' \in Contexts
         /\ ReinitializeFailed => pc' \in Steps /\ op' \in Calls /\ result' \in Results
<1>1. \A r \in Results : Finish(r) => pc' \in Steps /\ op' \in Calls /\ result' \in Results
  BY DEF Finish, NoOp, Steps, Calls
<1>2. "error" \in Results
  BY DEF Results
<1>3. QED
  BY <1>1, <1>2
     DEF TypeOK, CheckStoreDone, ReinitializeDone, ReinitializeFailed, Steps, Contexts

LEMMA FlipType ==
  ASSUME TypeOK, NEW buffer \in Area
  PROVE  Flip(buffer) \subseteq Area
<1>1. ASSUME NEW v \in Var
      PROVE  [buffer EXCEPT !.vars[v] = Absent] \in Area
  <2>1. [buffer.vars EXCEPT ![v] = Absent] \in Contents
    BY DEF Area, Contents
  <2>2. QED
    BY <2>1 DEF Area
<1>2. QED
  BY <1>1 DEF Flip

LEMMA UpdateFailedType ==
  ASSUME TypeOK, NEW buffer \in Area, NEW kept \in BOOLEAN, UpdateFailed(buffer, kept)
  PROVE  /\ mem' \in Area /\ pc' \in Steps /\ ctx' \in Contexts
         /\ op' \in Calls /\ result' \in Results
<1>1. "error" \in Results
  BY DEF Results
<1>2. QED
  BY <1>1, FlipType, ReturnTypes DEF UpdateFailed, TypeOK, Steps, Contexts

LEMMA BeginType ==
  ASSUME TypeOK, NEW b \in Bank, NEW buffer \in Area, NEW content \in Contents,
         NEW who \in Callers, BeginGarbageCollection(b, buffer, content, who)
  PROVE  /\ temp' \in Contents /\ caller' \in Callers /\ active' \in Bank
         /\ pc' \in Steps /\ mem' \in Area
<1>1. HeaderState \in SUBSET VALID_STATE_FLAGS
  BY DEF HeaderState, VALID_STATE_FLAGS
<1>2. BuildState \cup {"MARKED_FOR_UPDATE"} \in SUBSET VALID_STATE_FLAGS
  BY DEF BuildState, VALID_STATE_FLAGS
<1>3. [buffer EXCEPT !.state = HeaderState] \in Area
  BY <1>1 DEF Area
<1>4. [buffer EXCEPT !.hdr = TRUE, !.state = BuildState \cup {"MARKED_FOR_UPDATE"}] \in Area
  BY <1>2 DEF Area
<1>5. QED
  BY <1>3, <1>4
     DEF BeginGarbageCollection, Bank, Other, Steps, GcSteps, RepairSteps

LEMMA ReinitializeType ==
  ASSUME TypeOK, NEW b \in Bank, NEW content \in Contents,
         HybridInterfaceReinitialize(b, content)
  PROVE  /\ temp' \in Contents /\ caller' \in Callers /\ active' \in Bank
         /\ pc' \in Steps /\ mem' \in Area /\ op' \in Calls /\ result' \in Results
<1>1. Selected(b) \in Bank /\ flash[Selected(b)] \in Area
  BY DEF Selected, Bank, Other, TypeOK
<1>2. CASE Valid(Selected(b))
  BY <1>1, <1>2 DEF HybridInterfaceReinitialize, TypeOK, Steps
<1>3. CASE ~Valid(Selected(b))
  <2>1. BeginGarbageCollection(Selected(b), flash[Selected(b)], content, "repair")
    BY <1>3 DEF HybridInterfaceReinitialize
  <2>2. "repair" \in Callers
    BY DEF Callers
  <2>3. op' \in Calls /\ result' \in Results
    BY <1>3 DEF HybridInterfaceReinitialize, TypeOK
  <2>4. QED
    BY <1>1, <2>1, <2>2, <2>3, BeginType
<1>4. QED
  BY <1>2, <1>3
---------------------------------------------------------------------------

LEMMA TypeInit == Init => TypeOK
<1>1. ASSUME Init PROVE TypeOK
  <2>1. Empty \in Contents
    BY DEF Empty, Contents
  <2>2. flash \in [Bank -> Area] /\ mem \in Area
    BY <1>1, ImageType DEF Init
  <2>3. faults \in 0..MaxFaults /\ reflashes \in 0..MaxReflash
    BY <1>1, BanksAssumption DEF Init
  <2>4. QED
    BY <1>1, <2>1, <2>2, <2>3
       DEF Init, TypeOK, Bank, Steps, Callers, Contexts, Calls, Results, NoOp
<1>2. QED
  BY <1>1

\* The part of a failure that all failing operations share.
LEMMA FaultType ==
  ASSUME TypeOK, Fault
  PROVE  flash' \in [Bank -> Area] /\ faults' \in 0..MaxFaults
<1>1. faults' \in 0..MaxFaults
  BY BanksAssumption DEF Fault, TypeOK
<1>2. QED
  BY <1>1, PartialType DEF Fault

LEMMA TypeStep == TypeOK /\ [Next]_vars => TypeOK'
<1> SUFFICES ASSUME TypeOK, [Next]_vars
             PROVE  TypeOK'
  OBVIOUS
<1> USE DEF Bank, Other
<1>a. /\ active \in Bank /\ mem \in Area /\ flash[active] \in Area
      /\ flash[Other(active)] \in Area /\ Other(active) \in Bank
  BY DEF TypeOK
<1>b. /\ mem.state \in SUBSET VALID_STATE_FLAGS /\ mem.vars \in Contents
      /\ flash[active].hdr \in BOOLEAN
      /\ flash[active].state \in SUBSET VALID_STATE_FLAGS
  BY <1>a DEF Area
<1>c. /\ "success" \in Results /\ "error" \in Results
      /\ "set" \in Callers /\ "restore" \in Callers /\ "reset" \in Callers
      /\ Empty \in Contents /\ NoOp \in Calls
  BY DEF Results, Callers, Empty, Contents, NoOp, Calls
<1>d. /\ HeaderState \in SUBSET VALID_STATE_FLAGS
      /\ NewAreaBits \in SUBSET VALID_STATE_FLAGS
      /\ OldAreaBits \in SUBSET VALID_STATE_FLAGS
      /\ {"MARKED_FOR_UPDATE"} \in SUBSET VALID_STATE_FLAGS
  BY DEF HeaderState, NewAreaBits, OldAreaBits, VALID_STATE_FLAGS
<1>e. \A s \in SUBSET VALID_STATE_FLAGS : [mem EXCEPT !.state = s] \in Area
  BY <1>a DEF Area
\* The buffer of which the header is read again.
<1>f. ASSUME NEW f \in [Bank -> Area]
      PROVE  /\ [mem EXCEPT !.hdr = f[active].hdr, !.state = f[active].state] \in Area
             /\ [mem EXCEPT !.state = f[active].state] \in Area
             /\ f[active] \in Area
  BY <1>a DEF Area
<1>1. CASE Boot
  BY <1>1, <1>c, ReinitializeType
     DEF Boot, TypeOK, BootBank, Selected, Contexts
<1>2. CASE InitNonVolatileVarStore
  <2>1. ResetImage(mem.vars) \in Contents
    BY <1>b, BanksAssumption DEF ResetImage, Contents
  <2>2. /\ temp' \in Contents /\ caller' \in Callers /\ active' \in Bank
        /\ pc' \in Steps /\ mem' \in Area
    BY <1>2, <1>a, <1>c, <2>1, BeginType DEF InitNonVolatileVarStore, TypeOK, Steps
  <2>3. QED
    BY <1>2, <2>2 DEF InitNonVolatileVarStore, TypeOK
<1>3. CASE MarkForUpdate
  BY <1>3, <1>a, <1>b, <1>d, <1>e, AreaOperations, ReturnTypes DEF MarkForUpdate, TypeOK
<1>4. CASE CheckStore
  <2>1. CASE HybridInterfaceCheckStore = "SUCCESS"
    BY <1>4, <1>c, <2>1, ReturnTypes DEF CheckStore, TypeOK, Steps
  <2>2. CASE HybridInterfaceCheckStore # "SUCCESS"
    BY <1>4, <1>a, <1>b, <2>2, ReinitializeType DEF CheckStore, TypeOK
  <2>3. QED
    BY <2>1, <2>2
<1>5. CASE RestoreVariable
  <2>1. PICK v \in Missing : flash' = Append(v, temp[v]) /\ mem' = Write(mem, v, temp[v])
    BY <1>5 DEF RestoreVariable
  <2>2. v \in Var /\ temp[v] \in Val \cup {Absent}
    BY DEF Missing, Live, TypeOK, Contents
  <2>3. QED
    BY <1>5, <1>a, <2>1, <2>2, AreaOperations DEF RestoreVariable, Append, TypeOK
<1>6. CASE RestoreDone
  BY <1>6, ReturnTypes DEF RestoreDone, TypeOK
<1>7. CASE RestoreFails
  <2>1. flash' \in [Bank -> Area] /\ faults' \in 0..MaxFaults
    BY <1>7, FaultType DEF RestoreFails, TypeOK
  <2>2. flash'[active] \in Area /\ temp \in Contents
    BY <1>a, <2>1 DEF TypeOK
  <2>3. QED
    BY <1>7, <1>a, <1>c, <2>1, <2>2, BeginType DEF RestoreFails, TypeOK
<1>8. CASE Update
  BY <1>8, <1>c, ReturnTypes DEF Update, TypeOK, Steps
<1>9. CASE AppendRecord
  <2>1. op.val \in Val \cup {Absent}
    BY DEF TypeOK, Calls
  <2>2. ASSUME NEW area \in Area
        PROVE  Write(area, op.var, op.val) \in Area
    <3>1. [area.vars EXCEPT ![op.var] = op.val] \in Contents
      BY <2>1 DEF Area, Contents
    <3>2. area.used + 1 \in Nat
      BY DEF Area
    <3>3. QED
      BY <3>1, <3>2 DEF Write, Area
  <2>3. QED
    BY <1>9, <1>a, <1>c, <2>2, AreaOperations, ReturnTypes DEF AppendRecord, Append, TypeOK
<1>10. CASE DeleteVariable
  <2>1. ASSUME NEW area \in Area
        PROVE  [area EXCEPT !.vars[op.var] = Absent] \in Area
    <3>1. [area.vars EXCEPT ![op.var] = Absent] \in Contents
      BY DEF Area, Contents
    <3>2. QED
      BY <3>1 DEF Area
  <2>2. [flash EXCEPT ![active].vars[op.var] = Absent] \in [Bank -> Area]
    BY <1>a, <2>1 DEF TypeOK
  <2>3. QED
    BY <1>10, <1>a, <1>c, <2>1, <2>2, ReturnTypes DEF DeleteVariable, TypeOK
<1>11. CASE ErrorRecovery
  <2>1. /\ Rest \in Contents
        /\ \A c \in Contents : WithNew(c) \in Contents /\ Only(c, Persistent) \in Contents
    BY <1>b DEF Rest, WithNew, Only, Contents, TypeOK, Calls
  <2>2. /\ temp' \in Contents /\ caller' \in Callers /\ active' \in Bank
        /\ pc' \in Steps /\ mem' \in Area /\ ctx' \in Contexts
    BY <1>11, <1>a, <1>c, <2>1, BeginType DEF ErrorRecovery, TypeOK, Steps, Contexts
  <2>3. QED
    BY <1>11, <2>2 DEF ErrorRecovery, TypeOK
<1>12. CASE FixErase
  BY <1>12, <1>a, ImageType, AreaOperations DEF FixErase, TypeOK, Steps, RepairSteps
<1>13. CASE FixHeader
  BY <1>13, <1>a, <1>b, <1>d, <1>e, AreaOperations DEF FixHeader, TypeOK, Steps, GcSteps
<1>14. CASE EraseHeader
  <2>1. [flash EXCEPT ![active].hdr = FALSE, ![active].state = {}] \in [Bank -> Area]
    BY <1>a DEF TypeOK, Area
  <2>2. QED
    BY <1>14, <2>1 DEF EraseHeader, TypeOK, Steps, GcSteps
<1>15. CASE EraseBody
  BY <1>15, <1>a, ImageType, AreaOperations DEF EraseBody, TypeOK, Steps, GcSteps
<1>16. CASE ProgramHeader
  BY <1>16, <1>a, <1>b, AreaOperations DEF ProgramHeader, TypeOK, Steps, GcSteps
<1>17. CASE CopyVariable
  <2>1. PICK v \in Live(temp) \ Live(mem.vars) :
            flash' = Append(v, temp[v]) /\ mem' = Write(mem, v, temp[v])
    BY <1>17 DEF CopyVariable
  <2>2. v \in Var /\ temp[v] \in Val \cup {Absent}
    BY DEF Live, TypeOK, Contents
  <2>3. QED
    BY <1>17, <1>a, <2>1, <2>2, AreaOperations DEF CopyVariable, Append, TypeOK
<1>18. CASE CopyDone
  BY <1>18 DEF CopyDone, TypeOK, Steps, GcSteps
<1>19. CASE EndOldArea
  BY <1>19, <1>a, <1>b, <1>d, AreaOperations DEF EndOldArea, TypeOK, Steps, GcSteps
<1>20. CASE EndNewArea
  <2>1. flash' \in [Bank -> Area] /\ mem' \in Area
    BY <1>20, <1>a, <1>b, <1>d, <1>e, AreaOperations DEF EndNewArea
  <2>2. pc' \in Steps /\ op' \in Calls /\ result' \in Results /\ ctx' \in Contexts
    BY <1>20, <1>c, ReturnTypes DEF EndNewArea, TypeOK, Steps
  <2>3. QED
    BY <1>20, <2>1, <2>2 DEF EndNewArea, TypeOK
<1>21. CASE MarkFails
  BY <1>21, <1>f, FaultType, ReturnTypes DEF MarkFails, TypeOK
<1>22. CASE AppendFails
  BY <1>22, <1>c, <1>f, FaultType, ReturnTypes DEF AppendFails, TypeOK, Steps
<1>23. CASE DeleteFails
  BY <1>23, <1>c, <1>f, FaultType, ReturnTypes DEF DeleteFails, TypeOK
<1>24. CASE EraseFails
  BY <1>24, <1>a, <1>f, FaultType, UpdateFailedType DEF EraseFails, TypeOK
<1>25. CASE HeaderFails
  BY <1>25, <1>a, <1>f, FaultType, UpdateFailedType DEF HeaderFails, TypeOK
<1>26. CASE CopyFails
  <2>1. flash' \in [Bank -> Area] /\ faults' \in 0..MaxFaults
    BY <1>26, FaultType DEF CopyFails, TypeOK
  <2>2. QED
    BY <1>26, <1>a, <1>f, <2>1, UpdateFailedType DEF CopyFails, TypeOK
<1>27. CASE EndFails
  BY <1>27, <1>a, <1>f, FaultType, UpdateFailedType DEF EndFails, TypeOK
<1>28. CASE DxeSetVariable
  BY <1>28 DEF DxeSetVariable, TypeOK, Steps, Contexts, Calls
<1>29. CASE PowerLoss
  BY <1>29, <1>c, PartialType, ImageType
     DEF PowerLoss, TypeOK, Steps, Callers, Contexts, Results
<1>30. CASE Reflash
  <2>1. reflashes' \in 0..MaxReflash
    BY <1>30, BanksAssumption DEF Reflash, TypeOK
  <2>2. flash' \in [Bank -> Area]
    BY <1>30, ImageType DEF Reflash, TypeOK
  <2>3. QED
    BY <1>30, <2>1, <2>2 DEF Reflash, TypeOK
<1>31. CASE UNCHANGED vars
  BY <1>31 DEF vars, TypeOK
<1>32. QED
  BY <1>1, <1>2, <1>3, <1>4, <1>5, <1>6, <1>7, <1>8, <1>9, <1>10, <1>11, <1>12,
     <1>13, <1>14, <1>15, <1>16, <1>17, <1>18, <1>19, <1>20, <1>21, <1>22, <1>23,
     <1>24, <1>25, <1>26, <1>27, <1>28, <1>29, <1>30, <1>31 DEF Next, Driver

\* The state of the driver and of the flash always has its type.
THEOREM TypeCorrect == Spec => []TypeOK
<1>1. QED
  BY TypeInit, TypeStep, PTL DEF Spec
---------------------------------------------------------------------------
\* The store is never lost.

ValidIn(f, b) == StoreValid(GetNvramFfsFileState(f[b]))
AnyValid == Valid(0) \/ Valid(1)

\* Validity only depends on the headers, and programming bits never destroys it.
LEMMA HeaderFacts ==
  ASSUME TypeOK
  PROVE  /\ \A b \in Bank : Valid(b) <=> ValidIn(flash, b)
         /\ \A b \in Bank : Valid(b) => flash[b].hdr
         /\ \A b \in Bank, f \in [Bank -> Area] :
               f[b].hdr = flash[b].hdr /\ f[b].state = flash[b].state
               => (Valid(b) <=> ValidIn(f, b))
         /\ \A b, c \in Bank, bits \in SUBSET VALID_STATE_FLAGS :
               Valid(b) => ValidIn(AddBits(c, bits), b)
<1>1. \A b \in Bank : Valid(b) <=> ValidIn(flash, b)
  BY DEF Valid, ValidIn, State
<1>2. \A b \in Bank : Valid(b) => flash[b].hdr
  BY DEF Valid, State, StoreValid, GetNvramFfsFileState, HEADER_INVALID
<1>3. \A b \in Bank, f \in [Bank -> Area] :
         f[b].hdr = flash[b].hdr /\ f[b].state = flash[b].state
         => (Valid(b) <=> ValidIn(f, b))
  BY DEF Valid, State, ValidIn, GetNvramFfsFileState
<1>4. ASSUME NEW b \in Bank, NEW c \in Bank, NEW bits \in SUBSET VALID_STATE_FLAGS, Valid(b)
      PROVE  ValidIn(AddBits(c, bits), b)
  <2>1. flash[b] \in Area /\ flash[c] \in Area
    BY DEF TypeOK
  <2>2. /\ flash[b].hdr /\ "DATA_VALID" \in flash[b].state
        /\ flash[b].state \subseteq VALID_STATE_FLAGS
    BY <1>2, <1>4, <2>1
       DEF Valid, State, StoreValid, GetNvramFfsFileState, HEADER_INVALID, Area
  <2>3. /\ AddBits(c, bits)[b].hdr = flash[b].hdr
        /\ AddBits(c, bits)[b].state \in {flash[b].state, flash[b].state \cup bits}
    BY <2>1 DEF AddBits, TypeOK, Area
  <2>4. QED
    BY <2>2, <2>3 DEF ValidIn, StoreValid, GetNvramFfsFileState
<1>5. QED
  BY <1>1, <1>2, <1>3, <1>4

\* Operations on records keep the headers.
LEMMA RecordsKeepHeaders ==
  ASSUME TypeOK, NEW b \in Bank
  PROVE  /\ \A f \in TornRecords : f[b].hdr = flash[b].hdr /\ f[b].state = flash[b].state
         /\ \A v \in Var, d \in Val \cup {Absent} :
               /\ Append(v, d)[b].hdr = flash[b].hdr
               /\ Append(v, d)[b].state = flash[b].state
         /\ LET f == [flash EXCEPT ![active].vars[op.var] = Absent]
            IN f[b].hdr = flash[b].hdr /\ f[b].state = flash[b].state
<1>1. active \in Bank /\ flash \in [Bank -> Area] /\ flash[active] \in Area /\ flash[b] \in Area
  BY DEF TypeOK
<1>2. QED
  BY <1>1 DEF TornRecords, Append, Write, Area

\* Whatever a flash operation of the driver leaves behind when it is interrupted,
\* there is still a valid area if there was one.
LEMMA PartialKeepsStore ==
  ASSUME TypeOK, StoreGuard, AnyValid, NEW f \in Partial
  PROVE  \E b \in Bank : ValidIn(f, b)
<1> USE DEF Bank, Other
<1>1. active \in Bank /\ Other(active) \in Bank /\ f \in [Bank -> Area]
  BY PartialType DEF TypeOK
<1>2. PICK b \in Bank : Valid(b)
  BY DEF AnyValid
<1>3. ASSUME \A c \in Bank : f[c].hdr = flash[c].hdr /\ f[c].state = flash[c].state
      PROVE  ValidIn(f, b)
  BY <1>1, <1>2, <1>3, HeaderFacts
<1>4. ASSUME f[Other(active)] = flash[Other(active)], Valid(Other(active))
      PROVE  ValidIn(f, Other(active))
  BY <1>1, <1>4, HeaderFacts
<1>5. ASSUME NEW bits \in SUBSET VALID_STATE_FLAGS, NEW c \in Bank, f = AddBits(c, bits)
      PROVE  ValidIn(f, b)
  BY <1>2, <1>5, HeaderFacts
<1>6. ~Valid(active) => Valid(Other(active))
  BY <1>1, <1>2
<1>7. CASE pc \in {"append", "readd", "copy", "delete"}
  BY <1>3, <1>7, RecordsKeepHeaders DEF Partial
<1>8. CASE pc = "mark"
  BY <1>1, <1>3, <1>5, <1>8 DEF Partial, VALID_STATE_FLAGS
<1>9. CASE pc \in {"erase", "eraseBody"}
  <2>1. Valid(Other(active))
    BY <1>6, <1>9 DEF StoreGuard
  <2>2. f[Other(active)] = flash[Other(active)]
    BY <1>1, <1>9 DEF Partial, TypeOK
  <2>3. QED
    BY <1>1, <1>4, <2>1, <2>2
<1>10. CASE pc \in {"header", "fixErase", "fixHeader"}
  <2>1. Valid(Other(active))
    BY <1>6, <1>10 DEF StoreGuard
  <2>2. f[Other(active)] = flash[Other(active)]
    BY <1>1, <1>10 DEF Partial, TypeOK
  <2>3. QED
    BY <1>1, <1>4, <2>1, <2>2
<1>11. CASE pc = "endOld"
  BY <1>1, <1>5, <1>11 DEF Partial, OldAreaBits, VALID_STATE_FLAGS
<1>12. CASE pc = "endNew"
  BY <1>1, <1>5, <1>12 DEF Partial, NewAreaBits, VALID_STATE_FLAGS
<1>13. CASE pc \in {"off", "failed", "init", "idle", "check", "set", "recover"}
  BY <1>3, <1>13 DEF Partial
<1>14. QED
  BY <1>7, <1>8, <1>9, <1>10, <1>11, <1>12, <1>13
     DEF TypeOK, Steps, GcSteps, RepairSteps

\* Garbage collection starts with the valid area out of its way, or with none.
LEMMA BeginGuard ==
  ASSUME TypeOK, NEW b \in Bank, NEW buffer \in Area, NEW content, NEW who,
         BeginGarbageCollection(b, buffer, content, who),
         \A c \in Bank : Valid(c)' <=> Valid(c),
         \/ Valid(b) /\ buffer.hdr
         \/ ~Valid(0) /\ ~Valid(1)
  PROVE  StoreGuard'
<1>0. mem'.hdr
  BY DEF BeginGarbageCollection, Area
<1>1. CASE Valid(b) /\ buffer.hdr
  BY <1>0, <1>1 DEF BeginGarbageCollection, StoreGuard, Bank, Other
<1>2. CASE ~Valid(0) /\ ~Valid(1)
  BY <1>0, <1>2 DEF BeginGarbageCollection, StoreGuard, Bank, Other
<1>3. QED
  BY <1>1, <1>2

\* Reinitialize ends up on a valid area, or starts to repair when there is none.
LEMMA ReinitializeGuard ==
  ASSUME TypeOK, NEW b \in Bank, NEW content, HybridInterfaceReinitialize(b, content),
         flash' = flash
  PROVE  StoreGuard'
<1>1. \A c \in Bank : Valid(c)' <=> Valid(c)
  BY DEF Valid, State
<1>2. Selected(b) \in Bank /\ flash[Selected(b)] \in Area
  BY DEF Selected, Bank, Other, TypeOK
<1>3. CASE Valid(Selected(b))
  BY <1>1, <1>2, <1>3, HeaderFacts
     DEF HybridInterfaceReinitialize, StoreGuard, GcSteps, RepairSteps
<1>4. CASE ~Valid(Selected(b))
  <2>1. ~Valid(0) /\ ~Valid(1)
    BY <1>4 DEF Selected, UseBackup, CheckNvramStoreState, Valid, Bank, Other
  <2>2. QED
    BY <1>1, <1>2, <1>4, <2>1, BeginGuard DEF HybridInterfaceReinitialize
<1>5. QED
  BY <1>3, <1>4

\* After a failure the driver is between operations.
LEMMA FailedSteps ==
  /\ \A buffer, kept : UpdateFailed(buffer, kept) => pc' \in {"check", "idle", "failed"}
  /\ ReinitializeFailed => pc' \in {"idle", "failed"}
  /\ \A r : Finish(r) => pc' = "idle"
  /\ CheckStoreDone => pc' \in {"check", "idle"}
  BY DEF UpdateFailed, ReinitializeFailed, CheckStoreDone, Finish

LEMMA GuardStep ==
  TypeOK /\ TypeOK' /\ StoreGuard /\ [Next]_vars => StoreGuard' /\ (AnyValid => AnyValid')
<1> SUFFICES ASSUME TypeOK, TypeOK', StoreGuard, [Next]_vars
             PROVE  StoreGuard' /\ (AnyValid => AnyValid')
  OBVIOUS
<1>a. active \in Bank /\ Other(active) \in Bank /\ flash \in [Bank -> Area]
      /\ flash' \in [Bank -> Area] /\ mem \in Area
  BY DEF TypeOK, Bank, Other
<1>b. \A b \in Bank : Valid(b)' <=> ValidIn(flash', b)
  BY DEF Valid, ValidIn, State
<1>c. AnyValid <=> \E b \in Bank : Valid(b)
  BY DEF AnyValid, Bank
<1>d. AnyValid' <=> \E b \in Bank : ValidIn(flash', b)
  BY <1>b DEF AnyValid, Bank
\* Steps that leave the headers alone.
<1>e. ASSUME \A b \in Bank : flash'[b].hdr = flash[b].hdr /\ flash'[b].state = flash[b].state
      PROVE  (\A b \in Bank : Valid(b)' <=> Valid(b)) /\ (AnyValid => AnyValid')
  BY <1>a, <1>b, <1>c, <1>d, <1>e, HeaderFacts
<1>f. flash' = flash => /\ \A b \in Bank : Valid(b)' <=> Valid(b)
                        /\ AnyValid => AnyValid'
  BY <1>e
\* Failures and power loss.
<1>g. ASSUME flash' \in Partial
      PROVE  AnyValid => AnyValid'
  BY <1>d, <1>g, PartialKeepsStore
\* Steps that program bits.
<1>h. ASSUME NEW c \in Bank, NEW bits \in SUBSET VALID_STATE_FLAGS, flash' = AddBits(c, bits)
      PROVE  (\A b \in Bank : Valid(b) => Valid(b)') /\ (AnyValid => AnyValid')
  BY <1>b, <1>c, <1>d, <1>h, HeaderFacts
<1>i. /\ NewAreaBits \in SUBSET VALID_STATE_FLAGS
      /\ {"MARKED_FOR_UPDATE"} \in SUBSET VALID_STATE_FLAGS
      /\ mem.state \cup OldAreaBits \in SUBSET VALID_STATE_FLAGS
  BY <1>a DEF NewAreaBits, OldAreaBits, VALID_STATE_FLAGS, Area
\* Steps that rewrite the area that is erased or formatted.
<1>j. ASSUME pc \in {"erase", "eraseBody", "header", "fixErase", "fixHeader"},
             flash'[Other(active)] = flash[Other(active)]
      PROVE  /\ ValidIn(flash', Other(active)) <=> Valid(Other(active))
             /\ AnyValid => AnyValid'
  <2>1. ValidIn(flash', Other(active)) <=> Valid(Other(active))
    BY <1>a, <1>j, HeaderFacts
  <2>2. Valid(active) => Valid(Other(active))
    BY <1>j DEF StoreGuard
  <2>3. QED
    BY <1>a, <1>c, <1>d, <2>1, <2>2 DEF Bank, Other
<1>1. CASE Boot
  <2>1. BootBank \in Bank
    BY DEF BootBank, Selected, Bank, Other
  <2>2. QED
    BY <1>1, <1>f, <2>1, ReinitializeGuard DEF Boot
<1>2. CASE InitNonVolatileVarStore
  <2>1. Valid(active) /\ mem.hdr /\ flash' = flash
    BY <1>2 DEF InitNonVolatileVarStore, StoreGuard
  <2>2. CASE pc' = "idle"
    BY <1>f, <2>1, <2>2 DEF StoreGuard, GcSteps, RepairSteps
  <2>3. CASE pc' # "idle"
    BY <1>2, <1>a, <1>f, <2>1, <2>3, BeginGuard DEF InitNonVolatileVarStore
  <2>4. QED
    BY <2>2, <2>3
<1>3. CASE MarkForUpdate
  <2>1. Valid(active)' /\ mem'.hdr
    BY <1>3, <1>a, <1>h, <1>i DEF MarkForUpdate, StoreGuard, Area
  <2>2. QED
    BY <1>3, <1>a, <1>h, <1>i, <2>1 DEF MarkForUpdate, ReinitializeDone, StoreGuard
<1>4. CASE CheckStore
  <2>1. flash' = flash
    BY <1>4 DEF CheckStore
  <2>2. CASE HybridInterfaceCheckStore = "SUCCESS"
    <3>1. "DATA_VALID" \in GetNvramFfsFileState(mem) /\ State(active) = GetNvramFfsFileState(mem)
      BY <2>2 DEF HybridInterfaceCheckStore
    <3>2. Valid(active) /\ mem.hdr
      BY <1>a, <3>1
         DEF Valid, StoreValid, GetNvramFfsFileState, HEADER_INVALID, Area
    <3>3. QED
      BY <1>4, <1>a, <1>f, <2>1, <2>2, <3>2 DEF CheckStore, Finish, StoreGuard
  <2>3. CASE HybridInterfaceCheckStore # "SUCCESS"
    BY <1>4, <1>a, <1>f, <2>1, <2>3, ReinitializeGuard DEF CheckStore
  <2>4. QED
    BY <2>2, <2>3
<1>5. CASE RestoreVariable
  <2>1. PICK v \in Missing : flash' = Append(v, temp[v]) /\ mem' = Write(mem, v, temp[v])
    BY <1>5 DEF RestoreVariable
  <2>2. v \in Var /\ temp[v] \in Val \cup {Absent}
    BY DEF Missing, Live, TypeOK, Contents
  <2>3. \A b \in Bank : flash'[b].hdr = flash[b].hdr /\ flash'[b].state = flash[b].state
    BY <2>1, <2>2, RecordsKeepHeaders
  <2>4. mem'.hdr = mem.hdr
    BY <1>a, <2>1 DEF Write, Area
  <2>5. QED
    BY <1>5, <1>a, <1>e, <2>3, <2>4 DEF RestoreVariable, StoreGuard
<1>6. CASE RestoreDone
  BY <1>6, <1>f, FailedSteps DEF RestoreDone, StoreGuard
<1>7. CASE RestoreFails
  <2>1. flash' \in TornRecords
    BY <1>7 DEF RestoreFails, Fault, Partial, TornRecords
  <2>2. \A b \in Bank : flash'[b].hdr = flash[b].hdr /\ flash'[b].state = flash[b].state
    BY <2>1, RecordsKeepHeaders
  <2>3. Valid(active) /\ flash'[active].hdr
    BY <1>7, <1>a, <2>2, HeaderFacts DEF RestoreFails, StoreGuard
  <2>4. StoreGuard'
    BY <1>7, <1>a, <1>e, <2>2, <2>3, BeginGuard DEF RestoreFails
  <2>5. QED
    BY <1>e, <2>2, <2>4
<1>8. CASE Update
  <2>1. flash' = flash /\ active' = active /\ mem' = mem
    BY <1>8 DEF Update
  <2>2. pc' \in {"idle", "delete", "append", "recover"}
    BY <1>8, FailedSteps DEF Update
  <2>3. Valid(active) /\ mem.hdr
    BY <1>8 DEF Update, StoreGuard
  <2>4. QED
    BY <1>a, <1>f, <2>1, <2>2, <2>3 DEF StoreGuard, GcSteps, RepairSteps
<1>9. CASE AppendRecord
  <2>1. flash' = Append(op.var, op.val) /\ pc' = "idle"
    BY <1>9, FailedSteps DEF AppendRecord
  <2>2. \A b \in Bank : flash'[b].hdr = flash[b].hdr /\ flash'[b].state = flash[b].state
    BY <1>a, <2>1 DEF Append, Write, Area
  <2>3. QED
    BY <1>e, <2>1, <2>2 DEF StoreGuard, GcSteps, RepairSteps
<1>10. CASE DeleteVariable
  <2>1. flash' = [flash EXCEPT ![active].vars[op.var] = Absent] /\ pc' = "idle"
    BY <1>10, FailedSteps DEF DeleteVariable
  <2>2. \A b \in Bank : flash'[b].hdr = flash[b].hdr /\ flash'[b].state = flash[b].state
    BY <1>a, <2>1 DEF Area
  <2>3. QED
    BY <1>e, <2>1, <2>2 DEF StoreGuard, GcSteps, RepairSteps
<1>11. CASE ErrorRecovery
  <2>1. Valid(active) /\ mem.hdr /\ flash' = flash
    BY <1>11 DEF ErrorRecovery, StoreGuard
  <2>2. CASE pc' = "check"
    BY <1>f, <2>1, <2>2 DEF StoreGuard, GcSteps, RepairSteps
  <2>3. CASE pc' # "check"
    BY <1>11, <1>a, <1>f, <2>1, <2>3, BeginGuard DEF ErrorRecovery
  <2>4. QED
    BY <2>2, <2>3
<1>12. CASE FixErase
  <2>1. /\ flash'[Other(active)] = flash[Other(active)] /\ flash'[active] = Erased
        /\ active' = active /\ mem' = mem
    BY <1>12, <1>a DEF FixErase, Bank, Other
  <2>2. ~ValidIn(flash', active)
    BY <2>1 DEF ValidIn, Erased, StoreValid, GetNvramFfsFileState, HEADER_INVALID
  <2>3. pc = "fixErase" /\ pc' = "fixHeader" /\ mem.hdr /\ ~Valid(Other(active))
    BY <1>12 DEF FixErase, StoreGuard, RepairSteps
  <2>4. ~Valid(active)' /\ ~Valid(Other(active))'
    BY <1>j, <2>1, <2>2, <2>3 DEF Valid, ValidIn, State
  <2>5. QED
    BY <1>j, <2>1, <2>3, <2>4 DEF StoreGuard
<1>13. CASE FixHeader
  <2>1. flash'[Other(active)] = flash[Other(active)]
    BY <1>13, <1>a DEF FixHeader, Bank, Other
  <2>2. ~Valid(Other(active)) /\ mem.hdr
    BY <1>13 DEF FixHeader, StoreGuard, RepairSteps
  <2>3. ~ValidIn(flash', Other(active))
    BY <1>a, <2>1, <2>2, HeaderFacts
  <2>4. active' = Other(active) /\ pc' = "erase" /\ mem'.hdr
    BY <1>13, <1>a, <2>2 DEF FixHeader, Area
  <2>5. ~Valid(active)'
    BY <2>3, <2>4 DEF Valid, ValidIn, State
  <2>6. QED
    BY <1>13, <1>j, <2>1, <2>4, <2>5 DEF FixHeader, StoreGuard
<1>14. CASE EraseHeader
  <2>1. flash'[Other(active)] = flash[Other(active)] /\ active' = active /\ mem' = mem
    BY <1>14, <1>a DEF EraseHeader, Bank, Other
  <2>2. ~ValidIn(flash', active)
    BY <1>14, <1>a
       DEF EraseHeader, ValidIn, StoreValid, GetNvramFfsFileState, HEADER_INVALID, Area
  <2>3. pc = "erase" /\ pc' = "eraseBody" /\ mem.hdr
    BY <1>14 DEF EraseHeader, StoreGuard, GcSteps
  <2>4. ~Valid(active)'
    BY <2>1, <2>2 DEF Valid, ValidIn, State
  <2>5. QED
    BY <1>j, <2>1, <2>3, <2>4 DEF StoreGuard
<1>15. CASE EraseBody
  <2>1. /\ flash'[Other(active)] = flash[Other(active)] /\ flash'[active] = Erased
        /\ active' = active /\ mem' = mem
    BY <1>15, <1>a DEF EraseBody, Bank, Other
  <2>2. ~ValidIn(flash', active)
    BY <2>1 DEF ValidIn, Erased, StoreValid, GetNvramFfsFileState, HEADER_INVALID
  <2>3. pc = "eraseBody" /\ pc' = "header" /\ mem.hdr
    BY <1>15 DEF EraseBody, StoreGuard, GcSteps
  <2>4. ~Valid(active)'
    BY <2>1, <2>2 DEF Valid, ValidIn, State
  <2>5. QED
    BY <1>j, <2>1, <2>3, <2>4 DEF StoreGuard
<1>16. CASE ProgramHeader
  <2>1. /\ flash'[Other(active)] = flash[Other(active)] /\ flash'[active].hdr
        /\ active' = active /\ mem'.hdr
    BY <1>16, <1>a DEF ProgramHeader, FormattedArea, Erased, Bank, Other
  <2>2. pc = "header" /\ pc' \in {"endOld", "copy"}
    BY <1>16 DEF ProgramHeader
  <2>3. QED
    BY <1>j, <2>1, <2>2 DEF StoreGuard
<1>17. CASE CopyVariable
  <2>1. PICK v \in Live(temp) \ Live(mem.vars) :
            flash' = Append(v, temp[v]) /\ mem' = Write(mem, v, temp[v])
    BY <1>17 DEF CopyVariable
  <2>2. v \in Var /\ temp[v] \in Val \cup {Absent}
    BY DEF Live, TypeOK, Contents
  <2>3. \A b \in Bank : flash'[b].hdr = flash[b].hdr /\ flash'[b].state = flash[b].state
    BY <2>1, <2>2, RecordsKeepHeaders
  <2>4. mem'.hdr = mem.hdr
    BY <1>a, <2>1 DEF Write, Area
  <2>5. pc = "copy" /\ pc' = "copy" /\ active' = active
    BY <1>17 DEF CopyVariable
  <2>6. QED
    BY <1>a, <1>e, <2>3, <2>4, <2>5 DEF StoreGuard, GcSteps
<1>18. CASE CopyDone
  BY <1>18, <1>f DEF CopyDone, StoreGuard, GcSteps
\* Adding bits to the state of either area keeps the header of the new one.
<1>k. ASSUME NEW c \in Bank, NEW bits \in SUBSET VALID_STATE_FLAGS, flash' = AddBits(c, bits)
      PROVE  flash'[active].hdr = flash[active].hdr
  BY <1>a, <1>k DEF AddBits, Area
<1>19. CASE EndOldArea
  <2>1. flash' = AddBits(Other(active), mem.state \cup OldAreaBits)
    BY <1>19 DEF EndOldArea
  <2>2. flash'[active].hdr = flash[active].hdr
    BY <1>a, <1>i, <1>k, <2>1
  <2>3. QED
    BY <1>19, <1>a, <1>h, <1>i, <2>1, <2>2 DEF EndOldArea, StoreGuard, GcSteps
<1>20. CASE EndNewArea
  <2>1. flash' = AddBits(active, NewAreaBits) /\ active' = active
    BY <1>20 DEF EndNewArea
  <2>2. flash[active].hdr /\ mem.hdr /\ mem'.hdr
    BY <1>20, <1>a DEF EndNewArea, StoreGuard, GcSteps, Area
  <2>3. flash[active] \in Area
    BY <1>a
  <2>4. flash'[active].hdr /\ flash'[active].state = flash[active].state \cup NewAreaBits
    BY <1>a, <2>1, <2>2, <2>3 DEF AddBits, Area
  <2>5. ValidIn(flash', active)
    BY <1>i, <2>3, <2>4 DEF ValidIn, StoreValid, GetNvramFfsFileState, NewAreaBits, Area
  <2>6. Valid(active)'
    BY <2>1, <2>5 DEF Valid, ValidIn, State
  <2>7. pc' \in {"idle", "check", "init", "readd"}
    BY <1>20, FailedSteps DEF EndNewArea, ReinitializeDone
  <2>8. QED
    BY <1>a, <1>h, <1>i, <2>1, <2>2, <2>6, <2>7 DEF StoreGuard, GcSteps, RepairSteps
\* A failed operation: the guard has nothing to say between operations.
<1>l. ASSUME flash' \in Partial, pc' \in {"idle", "check", "failed", "off"}
      PROVE  StoreGuard' /\ (AnyValid => AnyValid')
  BY <1>g, <1>l DEF StoreGuard, GcSteps, RepairSteps
<1>21. CASE MarkFails
  BY <1>21, <1>l, FailedSteps DEF MarkFails, Fault
<1>22. CASE AppendFails
  <2>1. flash' \in TornRecords /\ flash' \in Partial /\ active' = active /\ pc = "append"
    BY <1>22 DEF AppendFails, Fault, Partial
  <2>2. CASE pc' = "idle"
    BY <1>l, <2>1, <2>2
  <2>3. CASE pc' = "recover"
    <3>1. \A b \in Bank : flash'[b].hdr = flash[b].hdr /\ flash'[b].state = flash[b].state
      BY <2>1, RecordsKeepHeaders
    <3>2. Valid(active) /\ flash[active].hdr
      BY <1>a, <2>1, HeaderFacts DEF StoreGuard
    <3>3. mem'.hdr
      BY <1>22, <1>a, <3>1, <3>2 DEF AppendFails
    <3>4. QED
      BY <1>a, <1>e, <2>1, <2>3, <3>1, <3>2, <3>3 DEF StoreGuard, GcSteps, RepairSteps
  <2>4. QED
    BY <1>22, <2>2, <2>3, FailedSteps DEF AppendFails
<1>23. CASE DeleteFails
  BY <1>23, <1>l, FailedSteps DEF DeleteFails, Fault
<1>24. CASE EraseFails
  BY <1>24, <1>l, FailedSteps DEF EraseFails, Fault
<1>25. CASE HeaderFails
  BY <1>25, <1>l, FailedSteps DEF HeaderFails, Fault
<1>26. CASE CopyFails
  <2>1. flash' \in Partial
    BY <1>26 DEF CopyFails, Fault, Partial, TornRecords
  <2>2. QED
    BY <1>26, <1>l, <2>1, FailedSteps DEF CopyFails
<1>27. CASE EndFails
  BY <1>27, <1>l, FailedSteps DEF EndFails, Fault
<1>28. CASE DxeSetVariable
  BY <1>28, <1>f DEF DxeSetVariable, StoreGuard, GcSteps, RepairSteps
<1>29. CASE PowerLoss
  BY <1>29, <1>l DEF PowerLoss
<1>30. CASE Reflash
  <2>1. flash'[0] = BuildImage /\ pc' = "idle"
    BY <1>30, <1>a DEF Reflash, Bank
  <2>2. ValidIn(flash', 0)
    BY <2>1 DEF ValidIn, BuildImage, BuildState, VALID_STATE_FLAGS, StoreValid,
                GetNvramFfsFileState
  <2>3. QED
    BY <1>d, <2>1, <2>2 DEF StoreGuard, Bank, GcSteps, RepairSteps
<1>31. CASE UNCHANGED vars
  <2>1. flash' = flash /\ active' = active /\ mem' = mem /\ pc' = pc
    BY <1>31 DEF vars
  <2>2. QED
    BY <1>a, <1>f, <2>1 DEF StoreGuard, GcSteps, RepairSteps
<1>32. QED
  BY <1>1, <1>2, <1>3, <1>4, <1>5, <1>6, <1>7, <1>8, <1>9, <1>10, <1>11, <1>12,
     <1>13, <1>14, <1>15, <1>16, <1>17, <1>18, <1>19, <1>20, <1>21, <1>22, <1>23,
     <1>24, <1>25, <1>26, <1>27, <1>28, <1>29, <1>30, <1>31 DEF Next, Driver

LEMMA GuardInit == Init => StoreGuard
  BY DEF Init, StoreGuard, GcSteps, RepairSteps

\* The driver only erases or formats what is not the store: for any variables,
\* values, capacity, and any number of flash failures and firmware updates.
THEOREM GuardCorrect == Spec => []StoreGuard
<1>1. QED
  BY TypeInit, TypeStep, GuardInit, GuardStep, PTL DEF Spec

\* Once there is a valid store, every step, be it an interrupted or failed flash
\* operation of a garbage collection, leaves one for the next boot.
THEOREM NeverLost == Spec => StoreNeverLost
<1>1. /\ TypeOK /\ TypeOK' /\ StoreGuard /\ [Next]_vars
      => [Valid(BootBank) => Valid(BootBank)']_vars
  BY GuardStep, BootBankValid, BootBankValidNext DEF AnyValid
<1>2. QED
  BY <1>1, TypeCorrect, GuardCorrect, PTL DEF Spec, StoreNeverLost

===========================================================================
