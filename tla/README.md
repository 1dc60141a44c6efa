# A TLA+ model of the Aptio V firmware for HewittLake

The repository is the source of an AMI Aptio V BIOS for a Broadwell-DE (Grantley /
Grangeville) server board: 9647 files, most of them vendored UEFI packages. This
directory models the parts of it whose correctness depends on the order in which things
happen, model-checks them with TLC, and proves the most important properties for all
values of the constants with TLAPS.

- [1. The system](#1-the-system)
- [2. The modules](#2-the-modules)
- [3. NVRAM areas: NvramState, NvramBanks, NvramAbstract](#3-nvram-areas)
- [4. NVRAM records: NvramLog](#4-nvram-records)
- [5. NVRAM in DXE and SMM: NvramSync](#5-nvram-in-dxe-and-smm)
- [6. The SMM rendezvous: SmmRendezvous](#6-the-smm-rendezvous)
- [7. The DXE multiprocessor services: MpService](#7-the-dxe-multiprocessor-services)
- [8. Runs, bounds, fairness](#8-runs-bounds-fairness)
- [9. Theorems](#9-theorems)
- [10. Findings, and behaviours set apart by a constant](#10-findings-and-behaviours-set-apart-by-a-constant)
- [11. What is not modelled, and the plan](#11-what-is-not-modelled-and-the-plan)

## 1. The system

`P` stands for `src/GrantleyPkg/Override/Restricted/IA32FamilyCpuPkg/PiSmmCpuDxeSmm`,
`N` for `src/AmiModulePkg/NVRAM`, `C` for
`src/GrantleySocketPkg/Override/IA32FamilyCpuPkg/CpuMpDxe`.

| Component | State it keeps | Operations | Interacts with | What is hard | What makes it correct |
|---|---|---|---|---|---|
| NVRAM areas (`N/NvramDxeCommon.c`, `NvramRead.c`, `NvramPei.c`) | two flash areas with a state byte as journal, a memory mirror of the active one, the addresses | SetVariable, GetVariable, garbage collection, CheckStore, boot, configuration reset | Flash driver; firmware update tools rewrite the areas | power loss and failure inside any flash operation; a mirror that is stale; a full store | a boot always finds the last complete store; SetVariable is atomic and durable; the mirror equals the flash whenever it is used |
| NVRAM records (`N/NvramDxeCommon.c`, `NvramRead.c`) | the records of an area and the links between them, the GUID table, pFirstVar, pEndOfVars, NextGuid, LastVarSize, the index | create, update, delete, enumerate, find, recover from a failed program operation | the areas, which garbage collection fills | a power loss or a failure between any two fields; three ways to find a variable that must agree | a variable has its old or its new value, whoever looks; only blank flash is programmed |
| NVRAM DXE/SMM synchronisation (`N/NvramDxe.c`, `NvramSmm.c`, `NvramSmi.c`) | StoreMask and ShutDown in shared memory, the buffers SMM copies over those of DXE, the index of DXE, MOR lock and key, monotonic counter | forward SetVariable to SMM, re-enumerate, announce, hand over, shut down, guard the MOR request | NVRAM records, SMI | an SMI between two statements of DXE code; SMM that stops announcing; wrong keys | DXE reads a value the variable has had during the call; the lock, its key and its variable agree |
| Flash driver (`src/AmiModulePkg/FlashDriver/Flash.c`) | the device's command state | erase, program, read, write enable | NVRAM, ReFlash, SmiFlash | interrupted operations, read-modify-write of shared blocks | programs only clear bits; neighbours of an erased range survive |
| SMM processor rendezvous (`P/MpService.c`) | `mSmmMpSyncData`: Counter, InsideSmm, AllCpusInSync, BspIndex, EffectiveSyncMode, and Run, Busy, Present per processor | SmiRendezvous, BSPHandler, APHandler, SmmStartupThisAp, SmmSyncSetModeWorker | local APICs, chipset, SMM core, sync timer | every processor runs it at once; timeouts on both sides; late and spurious SMIs | one BSP; nobody runs normal code beside the handlers; all leave; no semaphore token is left over |
| SMM sync timer (`P/SyncTimer.c`) | none | StartSyncTimer, IsSyncTimerTimeout | performance counter | counter roll-over, both directions | never early, always eventually |
| SMM CPU driver (`P/PiSmmCpuDxeSmm.c`, `CpuService.c`) | SMBASE table, save states, page tables | relocate, hot add and remove, switch BSP | rendezvous | a processor added or removed between SMIs | the arrays and the number of processors agree |
| DXE multiprocessor services (`C/MpService.c`, `MpCommon.c`) | state, procedure and lock per AP, the pending non-blocking calls with their clocks, CpuList, `mApFunction` | StartupAllAPs, StartupThisAP, SwitchBSP, EnableDisableAP, the timer | APs, timer events | completion racing the timeout; an AP aborted by INIT in any state; single-thread mode; one function pointer for all APs | every call ends; success means that all have returned; an idle or disabled AP runs nothing |
| Recovery / ReFlash, SmiFlash, SecureFlash | image in memory, block being written | write blocks, verify | Flash driver, NVRAM (preserving it) | power loss between blocks | a boot block always remains |
| Secure boot, authenticated variables | PK/KEK/db, modes | mode transitions, append | NVRAM | order of the mode variables' updates | mode follows from the keys |
| GPNV event log, IPMI KCS, PCH SMI dispatcher, xHCI | rings, handshakes | | | full logs, lost handshakes, a status set while being cleared | |
| Device drivers, BDS, setup, console, MRC, RAS, TXT, CSM, Super I/O | hardware registers, large tables | | | sequential code | |
| Vendored packages (MdePkg, MdeModulePkg, UefiCpuPkg, OpenSSL, network, debugger) | | | | third-party code | |

`PROJECT.json` lists them all with their sources and status, and lists the hazards of the
code with the line at which each bites.

How the modelled parts meet: PEI picks the NVRAM area to read from and hands both
addresses to DXE in a HOB; the DXE/SMM driver selects again, mirrors the area in memory
and answers SetVariable; each SMI brings all processors into `SmiRendezvous`, and
SetVariable at run time is one of the handlers the BSP then runs. NVRAM code runs on one
processor at a time *because* of the rendezvous, and the rendezvous does not depend on what a
handler does beyond the procedures it starts; so the two are separate models.

NVRAM itself is modelled at three levels, each of which relies on what the others show.
`NvramBanks` takes an area as a map that grows by a record, or by a part of one, at a time;
`NvramLog` models how such a map is spelled, and takes from `NvramBanks` that garbage
collection is atomic. `NvramLog` states its atomicity with the operators of `NvramAbstract`,
the specification `NvramBanks` implements: a call changes the one variable it names, in one
step. `NvramSync` takes a store as a sequence of records, and a call of SetVariable inside SMM
as one step, since nothing in DXE runs while the processors are in SMM.
The DXE multiprocessor services use neither: before the end of DXE they are what lets the boot
processor run code on the others.

## 2. The modules

| Module | What it is |
|---|---|
| `NvramState` | The FFS state byte as a journal: `CheckNvramStoreState` and the states garbage collection writes. Pure operators. |
| `NvramBanks` | The two areas, the mirror, SetVariable, garbage collection, error recovery, CheckStore, boot; one flash operation a step. |
| `NvramAbstract` | What the store promises: an atomic, durable map. `NvramBanks` implements it. |
| `MCNvramBanks` | Values for TLC. |
| `NvramBanks_proofs` | Type correctness, the inductive invariant `StoreGuard`, and that the store is never lost. |
| `NvramStore_proofs` | The choice between the areas is never ambiguous; the mirror is synchronised whenever it is used and success is in flash, with any number of failures or of firmware updates; updates keep persistent variables. |
| `NvramAtomic_proofs` | `NvramBanks` implements `NvramAbstract`. |
| `NvramLog` | The records inside one area: one program operation a step, with power losses and failures; the walks, the index, the repair after a failure. |
| `MCNvramLog` | Values for TLC. |
| `NvramLog_proofs` | The bounds of every link and search, blank flash under every program operation, the distance between the log and the GUID table; atomic and durable calls, and searches that agree. |
| `NvramSync` | The stores of DXE and of SMM, the mailbox between them, GetVariable and QueryVariableInfo statement by statement under SMIs, the MOR lock. |
| `MCNvramSync` | Values for TLC. |
| `NvramSync_proofs` | The MOR lock, and that DXE reads what SMM holds. |
| `Ordering` | The members of a set of positions in increasing order: a loop over the records of a buffer. |
| `NatOrder` | Lemmas about it, and about the least and the greatest of a set. |
| `SmmRendezvous` | SmiRendezvous, BSPHandler and APHandler on any set of processors; one shared access a step. |
| `MCSmmRendezvous` | Values for TLC. |
| `SmmRendezvous_proofs` | The inductive invariant of the rendezvous and its safety properties, for any number of processors. |
| `MpService` | The DXE multiprocessor services and what the APs execute; one access under a CpuDataLock a step. TLC runs it as it is. |
| `MpService_proofs` | The pending calls and what the APs execute, for any number of processors. |

An operator named `<Definition><Something>` under a comment that begins with "Mutant" is a
deliberately wrong variant of the definition after it. No specification uses it; it is there
to show which mistake in the code the properties notice.

## 3. NVRAM areas

### State and its counterpart in the code

| `NvramBanks` | Code |
|---|---|
| `flash[b]` | one NVRAM area: is its FV header sound (`hdr`), the FFS state byte as a set of bits (`state`), the variables its records spell (`vars`), the space the records take (`used`), is the space behind them erased (`clean`, `IsStoreOk`) |
| `active` | `Interface->NvramFlashAddress`; the other area is `BackupAddress` |
| `mem` | the memory image at `Info->NvramAddress` |
| `temp` | the temporary store `NewInfo` of CheckStore and of error recovery |
| `pc` | the next flash operation or decision |
| `caller`, `ctx`, `media` | who called UpdateVarstore, who called CheckStore or Reinitialize, and CheckStore's `MediaChanged` |
| `op`, `result` | the SetVariable call in progress and how the last one ended |
| `faults`, `reflashes` | counters that bound the environment |

A state byte is a set of bits and erase polarity is abstracted: programming adds bits,
erasing removes them. Records are abstracted to a map with a count of the records written:
a new record for a variable takes one unit of `Capacity`, and only garbage collection gives
units back. That is all that the code above the record level looks at: which variables are there, whether
another record fits (`IsEnoughSpace`), whether the free space is clean.

### Actions

- **Boot**: `Boot` (GetNvramLocation in PEI, then HybridInterfaceReinitialize), `MarkForUpdate`
  when the image is a fresh build, or garbage collection when no area is valid;
  `InitNonVolatileVarStore` when the store is empty or the configuration is to be reset.
- **SetVariable**: `DxeSetVariable` (the call arrives), `CheckStore` (up to twice), `Update`
  (which of delete, append, no change or recovery), `AppendRecord`, `DeleteVariable`,
  `ErrorRecovery` (first all other variables, then only those the cleanup filter keeps).
- **Garbage collection**: `FixErase`, `FixHeader` (a buffer without a header first gets one),
  `EraseHeader`, `EraseBody`, `ProgramHeader`, `CopyVariable`, `CopyDone`, `EndOldArea`,
  `EndNewArea`.
- **CheckStore's repair**: `HybridInterfaceReinitialize`, then `RestoreVariable`, `RestoreDone`,
  or `RestoreFails`, which writes the whole saved image.
- **Failures**: for each flash operation an action in which it fails (`EraseFails`,
  `HeaderFails`, `CopyFails`, `EndFails`, `MarkFails`, `AppendFails`, `DeleteFails`), with the
  code's error path: what is read again, which address is restored, who gets the error.
- **Environment**: `PowerLoss` in any state, inside or between operations (`Partial` gives every
  outcome of an interrupted or failed operation); `Reflash`, a firmware update that rewrites
  both areas or only the main one while the driver runs, as the update tools do.

### Properties

- `ImplementsAbstract`: with no failures and no firmware update every behaviour is one of
  `NvramAbstract`: SetVariable takes effect in a single step, for good, wherever power is lost.
- `StoreNeverLost`: no step takes the NVRAM from having a valid store to having none, with
  failures and updates too. `StoreGuard` is its inductive form.
- `SyncedWhenUsed`: whenever the driver changes variables, its mirror equals the area that the
  next boot would take.
- `SuccessIsDurable`: success is reported only when the value is in that area.
- `SelectionUnambiguous`: PEI, DXE and SMM, which pass the areas in different orders, pick the
  same one.
- `DocumentedTransitions`: an action property. The two areas only go through the rows of the table
  in the comment of CheckNvramStoreState and EndGarbageCollection, in its order and one row at a
  time, and the next boot takes the area the row names, whatever fails and wherever power is lost.
  A row is compared by stages: no DATA_VALID, a store, a store that is DELETED. The mark
  MARKED_FOR_UPDATE is left out because a boot whose mark fails goes on with a store that
  does not have it. A part without any store enters the cycle at row 0, or at row 3 when the first
  boot that formats it is interrupted.
- `PersistentCarriedOver`: after a firmware update, a persistent variable that the new image does
  not define has its old value again before SetVariable goes on.
- `CallReturns`: CheckStore, error recovery and garbage collection never send each other round
  for ever.
- `OthersNotRolledBack` is violated: see the findings.

## 4. NVRAM records

### State and its counterpart in the code

| `NvramLog` | Code |
|---|---|
| `log` | the records from the start of the area: is the size programmed, the flags VALID and DATA_ONLY, the signature that makes it a variable, name, index of the GUID, data, the `next` link |
| `guids` | the GUID table, which grows down from the end of the area |
| `first`, `end`, `nextGuid`, `last` | `pFirstVar`, `pEndOfVars`, `NextGuid`, `LastVarSize` of NVRAM_INFO |
| `index`, `indexOn` | the variable index, kept until ExitBootServices |
| `pc`, `op`, `rec` | the next program operation of the call, its arguments, the record found |
| `result`, `faults` | how the last call ended; bounds the failures |
| `store` | history: what the next boot would find, recomputed from flash in every step that changes it |

A record takes one cell of the area and a GUID one, so that the two grow towards each other; the
end of the area keeps two more free, as IsEnoughSpace does. A torn byte appears where the code can tell it: an unusable
size, a GUID that is neither blank nor known, a link that points too far.

### Actions

`Boot` enumerates (EnumerateStore) and indexes; `ExitBootServices` gives the index up.
`SetVariable` is DxeSetVariable up to its first program operation: find the record (index first,
then the walk), delete, create or update, nothing to do, or garbage collection because the store
is not clean or full. `ProgramHeader`, `ProgramGuid`, `ProgramBody`, `ProgramSignature`,
`ProgramLink` and `Delete` are the program operations of CreateVariableEx, UpdateVariable and
DeleteVariable in their order. `WriteFails` is any of them reporting an error, with
RecoverFromFlashUpdateFailure behind it; `Crash` is a loss of power before, in the middle of, or after any
of them. `Recover` is the error recovery: copy all variables, or those the cleanup
filter keeps.

### Properties

- `Atomic`: whatever happens in between, the store the next boot finds changes in one step
  from the old value of the variable being set to the new one, and in no other way.
- `SuccessIsDurable`: success is reported only if that step has happened.
- `FoundAlike`: between calls the index, the walk and the walk of the next boot agree on every
  variable. This is the property that RecoverFromFlashUpdateFailure exists for: what it decides to
  skip at run time must be what the walk of a boot skips.
- `ProgramsBlankFlash`: the cell a header or a GUID is programmed to is blank, although the
  bookkeeping of it was done before the failures.
- `NoOverlap`, `FailsOnlyWhenFull`: the two ends of the area stay apart, and no room is
  refused that garbage collection could have found.

## 5. NVRAM in DXE and SMM

### State and its counterpart in the code

| `NvramSync` | Code |
|---|---|
| `smm`, `dxe` | the non-volatile and the volatile store: SMM's, and the buffers of DXE it copies them to. The last record of a variable has its value |
| `end`, `index` | how far DXE has enumerated each store, and its index |
| `mask`, `shutDown` | `UpdateInfo.StoreMask`, `UpdateInfo.ShutDown` |
| `up`, `stopped`, `migrated` | NvramSmmInit has succeeded; UpdateInfo is no longer written; MigrateNvram has changed the stores of SMM |
| `active`, `viaSmm` | `NvramSmmIsActive`, `GetVariableSmmActive` |
| `morLock`, `morKey`, `morActive` | `gMorLock`, `gMorKey`, `MorLockCheckIsActive` |
| `pc`, `arg`, `pos`, `got` | where GetVariable and QueryVariableInfo are, and their local variables |
| `seen`, `missed`, `moved` | history: the values the variable has had during the call, and two windows of `ReadsCurrent` |

### Actions

Before the hand-over: `DxeSetVariable`; then `NvramSmmInit` (SMM takes over), or `DxeReadyToLock`
(it was not there to do so). SMM: `SmmSetVariable` (for DXE, or for an SMM driver at any moment),
`MorLockKey` (the lock variable with a key), `SmmReadyToLock` (ResetMorVariables, two writes of which either
may fail), `MigrateNvram`. All that change a store end in `Announce`, which compares the sizes, marks the store and copies
the buffers, or shuts the mailbox down. DXE: `GetVariable` and `QueryVariableInfo` both run
ReenumerateVarStore: `Check`, `EnumerateNv`, `EnumerateMem`, `ClearMask`, `IndexReset`; GetVariable then
takes `Search` and `CopyData`, or `ReadInSmm`. Any action of SMM can fall between two of them. A
GetVariable in an event can run inside QueryVariableInfo, which is in no critical section, and not
the other way round.

### Properties

- `CopyFollows`: until the mailbox is shut down, the buffers of DXE hold the values of SMM:
  deletions, which do not say where the variable was, and garbage collections included.
- `ReadsCurrent`: a GetVariable returns a value the variable had while the call ran. It names
  the three windows in which the code does not achieve this:
  a change that SMM announces after the re-read of its store and before StoreMask is cleared
  (`N/NvramDxe.c:180`) is not enumerated until the next change of that store (`missed`);
  SMM's garbage collection moves the records after this call has enumerated them (`moved`);
  and the call interrupts a QueryVariableInfo between ClearMask and IndexReset (`N/NvramDxe.c:181`).
  Outside these it holds, across the hand-over and the shutdown.
- `LockAgrees`, `MorGuarded`: `gMorLock`, the key and the lock variable tell the same, and while the
  variable reads locked nobody changes the MOR request, whatever order of locking, unlocking,
  wrong keys and deletions. Both are restricted to runs in which no write has failed, since `gMorLock`
  changes before the variable is written.

## 6. The SMM rendezvous

### State and its counterpart in the code

`counter`, `insideSmm`, `allCpusInSync`, `bspIndex`, `mode` (EffectiveSyncMode) and `nextMode`
(SyncModeToBeSet) are the fields of `mSmmMpSyncData`; `run`, `present`, `busy` its `CpuData`.
`pc`, `at`, `my`, `bsp`, `apCount` are a processor's program counter and its local variables.
`pending` is the SMI latched in each processor, `smiStatus` the chipset's status bit;
`unserved` is a history variable for `SmiServed`.

BSPHandler and APHandler branch only on the sync mode and on whether MTRRs are to be
configured, and otherwise run a fixed sequence of shared accesses. The sequences are written
down once, `BspProgram(mode)` and `ApProgram(mode)`; `at` is the index in them, and the
actions are named for the steps. The only jump is the AP's wait for procedures (`ApLook` to
`Procedure` and back to `ApAwait`).

Steps that merge several accesses, each because nobody can tell the difference: an AP's
`Present` does not rise between the BSP's lockdown and the release of the APs, so
`ReleaseAllAPs` is one step (`PresentIsCounted` checks this); only its owner takes from a
semaphore, so `WaitForAllAPs` is; `Busy` only falls once the core has returned, so the scan in
`BspDrain` is; nobody looks at the lock of a processor that is not present, so
`InitializeSpinLock` belongs to `CheckIn`; and `BspIndex` cannot change again while a counted
processor is in SMM, so the exchange and comparison of `Elect` are one step. The two reads of
`Counter` and of `Present` in AllCpusInSmmWithExceptions are one step as well; an answer
computed across two states can only end the wait later.

A timeout is nondeterministic: a wait may time out whenever its condition does not hold. The
*second* timeouts (an AP giving up on the BSP, the BSP going on without APs) are each enabled
by a constant, because they mean that a processor stays away for a whole sync timeout (10 ms in
this build), and the properties that hold differ.

### Configuration

Of this build: `Election = FALSE` (PcdCpuSmmEnableBspElection, GrantleyPkg.sdl),
`Blocking = TRUE` (PcdCpuSmmBlockStartupThisAp, HewittLake.sdl), `StatusHook = FALSE` (the null
platform hook library always finds the SMI valid), `Mtrrs = FALSE` (NeedConfigureMtrrs is false
for this processor family), mode traditional until SmmSyncSetModeWorker is called. The other
values are code paths of the same file and are checked as well.

### Properties

`NoNormalCode` (the contract of SmmWaitForApArrival), `PresentIsCounted`, `SameMode`,
`ProcedureInside`, `LeaveTogether`, `OneBsp`, `CounterInRange`, `MtrrsInStep`, `RunConsumed`,
`EveryoneLeaves`, `SmiServed`; each is stated and explained in the module. Several are ASSERTs of
MpService.c, which a release build does not evaluate.

## 7. The DXE multiprocessor services

### State and its counterpart in the code

| `MpService` | Code |
|---|---|
| `bsp` | `mCpuConfigContextBuffer.BspNumber` |
| `state`, `procedure`, `locked` | `CpuData[n].State`, `.Procedure`, and a `CpuDataLock` that an aborted AP has left held |
| `this` | `CpuData[n].WaitEvent`, `ExpectedTime`, `TotalTime` |
| `all`, `cpuList` | the same of StartupAllAPs with StartCount, FinishCount, SingleThread, and `CpuList` |
| `mApFunction` | what an AP that comes out of reset calls: ApProcWrapper, or nothing |
| `ap` | where each AP is: halted, on its way up, at the start, in, or at the end of ApProcWrapper |
| `pc`, `call`, `at` | where the boot processor is, the arguments of its call, its loop index |
| `asked`, `done` | history: the APs the last StartupAllAPs started, and those that have returned |

The build lets APs halt between two procedures (`ApInHltLoop`, PcdCpuApLoopMode = 1 in
GrantleySocketPkg/SocketPkg.dec), so that an AP is woken by INIT-SIPI-SIPI, exactly as it is aborted.
Each access under a `CpuDataLock` is one step; the accesses of BSP and APs interleave freely.
Time is what the boot processor counts when it looks: each reading of the clock adds one.

### Actions

Every call begins with CheckAndUpdateAPsStatus, as the timer does (`CheckAPsStatus`): `CheckAllAPs`,
`AllChecked` and `AbortAll` for a pending StartupAllAPs; `CheckThisAP`, `AbortThis` and `AllUpdated`
for each AP with a call of its own. Then `StartupAllAPs` or `StartupThisAP` refuses or starts, and
waits in the loop through the same steps when it blocks. `SwitchBSP`, `AsmExchangeRole`, `BspSwitched` are the exchange of
roles, `EnableDisableAP` its own step. An AP takes `ApProcEntry`, `ApBusy`, `ApReturns`,
`ApFinished`; a procedure may also hang, if its call has a time limit.

### Properties

- `AllAccounted`: at any moment of a StartupAllAPs each AP it started is either still in CpuList, in
  a working state, or counted, and then it has returned from the procedure. The finish count is right in
  both modes, so that success means what the PI specification says.
- `IdleIsHalted`: an AP the boot processor believes idle or disabled executes nothing - after an
  abort that races its completion, after a switch of roles, after it has been disabled and enabled.
- `CallsEnd`: every blocking call returns and every pending one is closed. Deadlock is checked too.

## 8. Runs, bounds, fairness

| Run | Asks | Bounds | Distinct states |
|---|---|---|---|
| `crash` | is the store an atomic durable map under power loss, also when it overflows | 3 variables, 2 values, room for 2 records | 0.56 M |
| `faults` | store safety when one flash operation fails | 2 variables, 2 values, 2 records, 1 failure | 1.9 M |
| `update` | firmware updates under a running driver | 2 variables, 2 values, 2 records, 2 updates | 1.6 M |
| `live` | does every call end, and do the areas only go round the documented cycle | 2 variables, 1 value, 1 record, 2 failures | 0.29 M |
| `rollback` | violation, see the findings | 2 variables, 2 values, 2 records, 1 failure | |
| `nvram_log` | is a record written atomically, and found alike, at every point of failure | 4 variables, 2 values, 7 cells, 1 failure | 1.0 M |
| `nvram_sync` | does DXE read current values; the MOR lock | 3 variables, stores of 2 records, keys 0 and 7, 3 calls of SetVariable, 1 failure | 2.1 M |
| `mp_service` | do calls account for the APs and end | 3 processors, time limits none and 1, 3 calls | 0.59 M |
| `smm_late` | fixed BSP, late APs, mode switches, non-blocking procedures | 3 processors, 2 SMIs | 0.4 M |
| `smm_election` | election, status hook, MTRRs, APs that give up | 3 processors, 2 SMIs | 22 k |
| `smm_live` | everyone leaves, every SMI is served | 3 processors, 2 SMIs | 21 k |
| `smm_give_up` | violation, see the findings | 3 processors, 1 SMI | |

**Why these are enough.** NVRAM: two variables are needed for one call to disturb another
variable, a third for a store that overflows while one variable is kept and one is shed;
two values to tell an old record from a new one; a capacity of two so that the store is full
after an update in place and garbage collection runs, twice and more in a behaviour (the number
of SetVariable calls, power losses and boots is not bounded at all). One failure reaches every
error path; power may also be lost in each. With a capacity of one, in `live`, every update is
a garbage collection, so that the rows go round and round, and a second failure meets what the first left. The proofs of section 9 need none of these
bounds. In `crash` the two variables that are not in the build's image are symmetric.

Records: the four variables are two names with each of two GUIDs, so that a search by either alone
would find the wrong one and a GUID already in the table is used again. Seven cells hold three
variables with their GUIDs, and only just after a garbage collection, so that updates fill the area,
the fourth variable does not fit, and the cleanup filter (which keeps those of one GUID) makes room
for it. Power losses and calls are not bounded. The values are symmetric, and so are the names; the
view leaves out `result`, on which no step depends.

DXE and SMM: three calls of SetVariable reach a store of two records that is garbage collected
(two values of the MOR request, and the lock) while a GetVariable and a QueryVariableInfo are at any of
their statements. GetVariable is called for one variable of each store. Key 0 is kept apart
because the code takes a zero key for "no key": it locks until reset. The view leaves out `got`.

Multiprocessor services: three processors make two APs, of which one finishes and one hangs, one is
next in single-thread mode, or one is switched to while the other works. With a limit of one tick a
timeout happens at the second look. Three calls are a call, the one that races it, and the one that meets what they left.

Rendezvous: three processors are a BSP, an AP that arrives and an AP that does not. The second SMI
is the one that meets what the first left over; the SMIs that processors send each other are
not counted by `MaxSmi`, so there may be many more SMM runs than two. `CounterSize` is 2^32 in
the code; 8 leaves room for more processors than there are, so that a counter out of range
is seen as such. With election there is no default processor, and the processors are
symmetric. Deadlock is checked except where an AP may give up: a BSP that has counted it then waits for it for ever,
which is the second half of a finding. `Idle` stands for the operating system at the end of a
bounded run, so that stopping there is no deadlock.

**Fairness.** `NvramBanks!FairSpec` is weak fairness of the driver as a whole: it is
sequential code that runs to the end of its call unless power is lost. Nothing is assumed of
the environment: no call needs to arrive, power need not fail.
`MpService!Fairness` is weak fairness of the boot processor, of each AP, and of the timer, which
fires between two calls: processors execute, and nothing is assumed of callers or of a procedure that hangs.
`NvramLog` and `NvramSync` state no liveness.
`SmmRendezvous!FairSpec` is weak fairness of each processor (processors execute, spin loops
look again, timers expire) and strong fairness of `SmmCoreEntry`: SMI handlers
return, however often they start procedures on APs before. Liveness is
checked with `BspTimesOut` and `ApGivesUp` false. With `ApGivesUp` it is false (see the
findings). With `BspTimesOut` a processor at its exit could find the next run under way each
time it looks at `AllCpusInSync`, since the SMIs sent to missing processors may start one run after the other;
weak fairness does not exclude this, and the window between two runs is far longer than a
turn of the spin loop.

## 9. Theorems

Each component's theorems are in a module of their own. They hold for every value of the constants
that satisfies the assumption of its module (`BanksAssumption`, `LogAssumption`, `SyncAssumption`,
`RendezvousAssumption`, `MpAssumption`): any sets of variables, values and keys, any capacity, any number of
processors, failures and power losses. Where a property needs more, the theorem has a
hypothesis on the constants, `Hypothesis => (Spec => ...)`: the same choice a run makes in its cfg, and one that
TLC showed to be needed.

### NVRAM areas: `NvramBanks_proofs`

- `TypeCorrect`: `Spec => []TypeOK`. The type of the areas' contents is preserved by what
  each flash operation does, completed, interrupted or failed (lemmas `AreaOperations`,
  `PartialType`), and by each way a call returns (`ReturnTypes`, `UpdateFailedType`).
- `GuardCorrect`: `Spec => []StoreGuard`. `StoreNeverLost` is an action property, and is not
  provable from the step alone: one must know that an area being erased is not the only valid
  one, and an area being formatted not valid at all. `StoreGuard` says this for each value
  of `pc`, together with why it stays so: the driver only starts a garbage collection from a
  valid area, or when there is none; and the area being filled has a header, so that its state byte counts
  once DATA_VALID is set. With `TypeOK` it is inductive. The proof goes action by action; power
  loss and the failures share the lemma `PartialKeepsStore` (no partial outcome of an operation
  invalidates the last valid area), and the many ways an operation can begin or fail
  are lemmas of their own.
- `NeverLost`: `Spec => StoreNeverLost`, from the two invariants and the same lemmas.

### NVRAM areas: `NvramStore_proofs`

- `SelectionNeverAmbiguous`, `SyncedWhenever` and `SuccessIsInFlash` (properties
  `SelectionUnambiguous`, `SyncedWhenUsed`, `SuccessIsDurable`) hold for any number of failures under
  `NotReflashed`, no firmware update: TLC finds that an update after a failed
  operation leaves both areas with the state byte the driver expects (hazards of PROJECT.json).
  The inductive invariant is `Journal`. Of two valid areas exactly one is
  marked DELETED (`NoTieIn`), which is what all three properties rest on; it lasts because the area being erased, or the old
  one when the new one becomes valid, is marked already; the mirror equals the main area, and that is the
  area a boot prefers, in the states that use it (`Synced`) and whenever CheckStore
  lets a call pass (`Passes`); and the mirror a garbage collection writes has no state bits but
  those of a new header, except in the repair of a single damaged area. `Calling`, which needs no hypothesis, says at which
  `pc` a call is in progress; the durability of success needs it.
- `SyncedAfterUpdates`, `SuccessAfterUpdates` and `PersistentIsCarried` (`SyncedWhenUsed`,
  `SuccessIsDurable`, `PersistentCarriedOver`) are the other half: any number of firmware updates, at any
  moment, under `Faultless`, no operation fails. The area a boot takes is now `Elected`, since an update may leave
  a ready-made image beside a managed area. What CheckStore has is the state byte, and the inductive
  invariant `Updates` shows that it is enough: only the build leaves a store that is not marked for
  update (a backup area whose last byte was torn is marked before it is used, `Torn`), so that a mirror which passes for
  a store carries the mark and the new image does not; when the driver is at work its mirror is the elected area (`InUse`), and between
  calls it is, or the main area has been rewritten since (`Rewritten`). `SameElection` is why writing records does
  not move the choice, `MarkUpdates` why marking a store does not. `Restoring` follows the variables from the saved buffer into the new image,
  up to the state in which the interrupted SetVariable goes on.
  The hypothesis is needed: with two failed operations and one update TLC finds that a failed last state byte leaves the new area like a
  build's, the update makes the main one so too, and after another failure and a boot CheckStore takes the leftover for
  a new image, whose old value wins over the persistent variable (`N/NvramDxeCommon.c:692`, a hazard of PROJECT.json).
- `TransitionsAsDocumented`: `NotReflashed => (Spec => DocumentedTransitions)`, for any number of failures and power
  losses. `Turn` lists the ways a step may change the kinds of the two areas: not at all, the first store of a blank
  part, or one of the three moves of a garbage collection. `TurnStep` shows of each action, interrupted and failed ones
  too, that it is one of these, and `TurnsTheRow` that such a turn leads from a row to the same or the next one. It needs
  `Journal` (two stores are never both unmarked), `StoreGuard` (an area erased is not the only store), and
  `Repairing`: the area a garbage collection leaves has a header, and is a store from the moment it is marked
  DELETED; and only the first boot of a blank part works without a store, on the areas in their order. A firmware
  update starts the table again from any row, hence the hypothesis.

### NVRAM areas: `NvramAtomic_proofs`

- `AtomicAndDurable`: `Reliable => (Spec => ImplementsAbstract)`, the refinement of `NvramAbstract`
  without failures (and updates), for any number of power losses; with failures it does not hold (`rollback` in section 10).
  A step of the driver is shown to be a step of the abstract store, or
  one that does not show, in `AtomicStep`, action by action. A power loss is the hard case: it
  may leave any partial outcome of the operation in progress, and this must be the old store or
  the whole effect of the call (`LossOutcome`). The invariant `Steady` adds to `Journal` what
  the absence of failures gives: the mirror is never stale between calls, a garbage collection
  leaves the old area in charge until its last operation and carries the effect of its call
  (`Moved`), which fits into an area (`RoomToCopy`), and the repair of a damaged store only happens when there is nothing in it.

### NVRAM records: `NvramLog_proofs`

- `TypeCorrect`: `Spec => []TypeOK`, without any hypothesis: every combination of torn links, lost GUIDs, failures and
  power losses is covered. The invariant is `IInv`: the type, `Good(log)` (links lead forward, a signed record
  has a name unless it only holds data, and the first record does not only hold data), and `Phase`, which says
  for each value of `pc` how far the record being written is and why there is room for it. The
  code follows links in a loop, the model with a recursive function; `ChainsEnd` proves that
  this function exists and stays inside the log, because links lead forward: it takes the least position from which
  on there is such a function. All program operations, whether they complete or not, share the lemmas on their
  outcomes (`Outcomes` and those it cites), and the way a record is entered into a log (`EntryProgrammed`).
- `BlankFlashProgrammed`: `Spec => []ProgramsBlankFlash`, from `Phase`: a call only starts to program what IsStoreOk
  has looked at, and nothing comes in between.
- `TableApart`: `~LostGuids => (Spec => []NoOverlap)`. IsEnoughSpace compares `pEndOfVars` with `NextGuid`, and
  neither of them is the flash: both are recomputed at a boot from the records that were completed. The
  invariant `TInv` says why that is enough: the table has no gap, each name in a record has its GUID in
  it, and NextGuid is not beyond its first erased cell. With `LostGuids` there may be a gap (section 10), and TLC finds
  an overlap.
- `AlikeFound` (`FoundAlike`), `AtomicCalls` (`Atomic`), `DurableSuccess` (`SuccessIsDurable`) and `OnlyFullFails`
  (`FailsOnlyWhenFull`) hold under `Orderly`, which is `~TornLink /\ ~EmptyFaults /\ ~LateFaults`; section 10 says what TLC
  finds without each of them. `LostGuids` does no harm here. The inductive invariant is `SInv`, in three parts.
  `Sane` and `Unique` say what a log means whoever reads it: only the last record may be without its size, links lead to signed
  records, chains do not meet (there is an owner of each record, `Owns`), and a variable has one valid record. From these
  alone a boot finds every variable (`BootPlaced`, `ContentsAre`), although it looks for the end of the log itself.
  `Running` says what the driver knows of the log between two operations: its first record, end and index show it the same
  variables (`Placed`, `Settled`), except after an operation that reported an error although it had programmed the
  signature of a new record or the link to it. This record is then behind the end: a boot would find it, the
  running system does not, and `Behind` says that the call cannot end here, because error recovery still has the old values to
  copy and room for them and the new one (`RoomToRewrite`). `Progress` says how much of the record being written is in flash.
  Each operation, whether it completes, fails or is interrupted, leaves in flash either nothing that a walk
  follows (`Quiet`) or the whole change (`Changed`): `Outcome`, on which the atomicity rests. Error recovery is
  `RewrittenValues`: it copies what the walk finds, which is what a boot would find (`FoundValues`), and the
  area it writes is as `Sane` demands (`FreshValues`).

### NVRAM in DXE and SMM: `NvramSync_proofs`

- `TypeCorrect`, `LockVariableAgrees` (`LockAgrees`) and `MorRequestGuarded` (`MorGuarded`) have no hypothesis.
- `CopiesFollow` (`CopyFollows`) and `ReadIsCurrent` (`ReadsCurrent`) hold for every interleaving of SMIs with the
  statements of DXE if `~SilentFaults`: SMM announces every change it makes. With it, see section 10. Four
  invariants together: `Copied`, DXE's buffers hold the records of SMM's, or the values of them after a compaction
  (this rests on the lemmas of `NatOrder` on listing a finite set in order); `Marks`, a store that is not marked for enumeration has been enumerated to its
  end, and its index is right; `Seen`, what the variable is now belongs to the values it had during the call; and
  `Reading`, for each statement of GetVariable, what it has found or will find is one of them. The windows of
  `ReadsCurrent` (`missed`, `moved`) are where `Marks` and `Reading` make an exception.

### The SMM rendezvous: `SmmRendezvous_proofs`

One inductive invariant, `IInv`, for any number of processors, with and without election, timeouts and
APs that give up; no hypothesis. The processors share no lock, and what they know of each other are counters and
flags written at other times. The invariant recovers it from where each one is in its program: `Shape`
ties the place of a processor to the program it is in; `Leader` says who is the BSP and that there
is one; `Inside` when InsideSmm is set; `ModeRead` that the mode does not change
between reading and use; `Counted` that Counter is the number of processors that have checked in, less the lockdown
value, and what ApCount may miss; `InStep` that the signals an AP has been sent and has taken, and those the BSP
has been sent, are the number of handshakes both have passed; `Presence` what Present and Busy say.

- `TypeCorrect`, `OneBspAtATime`, `CounterCounts`, `NoSignalLeft`, `ModeIsShared`, `ProceduresInside`,
  `CountedArePresent`, `MtrrsKeptInStep` follow from `IInv` alone.
- `LeavingTogether` (`LeaveTogether`) needs `Coordinated`: a fixed BSP, or one that has waited for everybody before it
  starts its handler. TLC shows that an elected BSP that does not may be overtaken by another. The proof adds `SyncHeld`.
- `NobodyRunsNormalCode` (`NoNormalCode`) needs `Awaited`: a fixed BSP and APs that do not give up. `smm_give_up`
  shows the second is needed, and TLC the first (election with an arrival timeout). The proof adds `Gathered`.

### DXE multiprocessor services: `MpService_proofs`

- `TypeCorrect`, `EveryApAccounted` (`AllAccounted`) and `IdleApHalted` (`IdleIsHalted`) hold for any number of processors under
  `Orderly`: callers do not start a call while one is pending, do not disable a busy AP, and an AP that is woken comes
  up before `mApFunction` is changed for another one. TLC breaks the invariants without each of them (section 10). APs aborted while they hold
  their lock are covered. The invariant accounts for
  every AP of a call - waiting for its turn, working, or returned - through completion, timeout, abort and the exchange of roles.

### What is only model-checked

- Liveness, which is out of the prover's reach: `CallReturns`, `EveryoneLeaves`, `SmiServed`, `CallsEnd`. Every
  invariant that a passing run checks, and every action property, is stated by a theorem of section 9; some under a named hypothesis on
  the constants, given there with what TLC finds without it.

None of the modules has a RECURSIVE operator: the chain of links in `NvramLog` is a recursive function, and the proofs about
it argue on the last record a statement could be false for.

## 10. Findings, and behaviours set apart by a constant

**`rollback` (N/NvramDxeCommon.c).** One failed erase makes another variable go back in time. When
NvErase fails in BeginGarbageCollection, the whole buffer is read again from
NvramFlashAddress, which at that moment is the *other* area: the store of the
previous generation, or what the erase has left of it. UpdateVarstore returns the error at once (`:2566`-`:2567`),
with the two addresses still exchanged: only EndGarbageCollection would exchange them again. CheckStore, at the end of error recovery,
runs with this buffer. It saves the buffer's variables, reads the store of the area that counts, and adds those that are missing; when
there is no room for them, it concludes that the new buffer is corrupt and writes the saved,
old, image over the store. A variable that the call did not name
silently takes the value it had a generation ago. `StoreNeverLost` still holds: it is a valid store, with
old contents.

**`smm_give_up` (P/MpService.c).** An AP that gives up on the BSP has already been
counted. It checks in, waits for the BSP twice in vain, decides to give up; now the BSP
enters, finds Counter equal to the number of processors, and starts the traditional handlers without sending an SMI. The
AP then decrements Counter and returns to normal mode. If it decrements after the BSP has locked the counter instead, the
BSP waits for a signal that never comes and all processors stay in SMM: with `ApGivesUp` the
property `EveryoneLeaves` fails too.

**Set apart.** The following behaviours of the code break a property. Each is in the model, behind a
constant that the run sets to FALSE; with TRUE, TLC shows what happens.

| Constant | The behaviour | What breaks |
|---|---|---|
| `NvramLog!TornLink` | Power fails between the three bytes of a `next` link (`N/NvramDxeCommon.c:1870`). The record points beyond the log and is no variable any more: neither the old value nor the new one is found. | `Atomic` |
| `NvramLog!EmptyFaults` | The first record of an empty store fails after its size was programmed. RecoverFromFlashUpdateFailure (`:1350`-`:1364`) moves `pEndOfVars` past it and counts on enumeration to skip invalid records, but a walk that starts at one finds nothing, so the store looks empty to the next boot. | `FoundAlike` |
| `NvramLog!LateFaults` | A delete reports an error although the flag has been cleared: the index still has the variable, and the next boot does not. | `FoundAlike` |
| `NvramLog!LostGuids` | Programming a GUID fails and leaves its cell erased, but NextGuid has been incremented (`N/NvramDxeCommon.c:1584`-`:1592`). The next GUID goes above the gap. If its records are deleted, a boot puts NextGuid below the gap again (`:3613`-`:3635`), IsStoreOk finds the gap erased (`:2738`), and IsEnoughSpace (`:1319`) does not know of the GUID above it. | `NoOverlap`, with three GUIDs in eleven cells; the run's seven are too few |
| `NvramSync!SilentFaults` | SetVariable in SMM changes the store and then reports an error; it returns before it announces (`N/NvramSmm.c:123`). | `CopyFollows`, `ReadsCurrent` |
| `MpService!CallWhilePending` | A second StartupAllAPs while one is pending is refused, but only after CpuList has been partly rewritten (`C/MpService.c:294`); the pending one then waits for the wrong APs. | `AllAccounted` |
| `MpService!DisableBusy` | EnableDisableAP does not ask whether the AP is busy (`C/MpService.c:1246`-`:1284`). | `AllAccounted` |
| `MpService!SlowStart` | All APs read the one `mApFunction` (`C/MpCommon.c:391`): an AP that was aborted and has not come up yet takes the procedure wrapper of the next call. | `IdleIsHalted` |
| `MpService!KillInLock` | An AP is aborted while it holds its CpuDataLock, and the boot processor spins on the lock (`C/MpService.c:1487`). | no deadlock, `CallsEnd` |

`TornLink` is a matter of a few bytes on a SPI flash that programs byte by byte; `CallWhilePending` and
`DisableBusy` need a caller that ignores that its call is pending; `SlowStart` an AP slower
than the boot processor's next call; `KillInLock` an abort within a few instructions.

## 11. What is not modelled, and the plan

Not in `NvramBanks`: attributes, authentication and append writes; nested (default) stores and
the volatile store; the buffer pool (its leak in NvErase, `N/NvramDxeCommon.c:544`, cannot be
reached while the areas are aligned to blocks, as they are here). `Reflash` together with a
flash failure is not checked for `SyncedWhenUsed`, which then fails: both areas can end up with
the state byte the driver expects (a hazard of PROJECT.json).

Not in `NvramLog`: sizes - every record takes one cell, so that the unsigned difference in
NvramCleanUpEnabled (`:2946`) is abstracted to a choice; attributes, checksums, extended headers, append
writes, nested stores; the steps of garbage collection, which are `NvramBanks`.

Not in `NvramSync`: GetNextVariableName; the communication buffer QueryVariableInfo shares with
other calls; the switch to runtime; the monotonic counter (`N/NvramDxe.c:357`), three statements whose
durability is that of SetVariable. IndexReset and a copy of one buffer are each one step.

Not in `MpService`: the Mwait and run loops, in which `ResetProcessorToIdleState` leaves a stale
StartupApSignal; FailedCpuList, the `Finished` out parameter and the health flags;
ChangeApLoopModeCallBack at the end of boot services (`C/MpCommon.c:193`); calls made from event callbacks; a tick of the
timer during SwitchBSP's wait; finding and starting the APs at power on and on S3.

Not in `SmmRendezvous`: BSP switching and CPU hot plug, processors that are
blocked, delayed or SMI-disabled, and the SMM profile. With
election *and* arrival timeouts `NoNormalCode` fails through the stores of Counter and
AllCpusInSync at the end of BSPHandler, if they are further apart than two timeouts; this
build has election off. The sync timer (`P/SyncTimer.c`) is a nondeterministic choice there: its
own arithmetic compares two readings of the time-stamp counter, which in this build neither stands still
nor wraps within a timeout.

Most of the repository is not a candidate for a model at all: register headers and the memory
reference code (two of the 2.8 million lines), vendored packages, drivers that are one sequence of
register accesses, setup screens, tables. The parts with a protocol in them that are still left are
listed below, and PROJECT.json gives the reason for each of the others.

Plan, in this order:

1. A statement of which store should win after a failed operation *and* a firmware update, and a run for it.
2. An abstract rendezvous (a barrier with a privileged member) that `SmmRendezvous` implements;
   BSP switching and hot plug.
3. `ReFlash` and `SmiFlash`; the PCH SMI dispatcher; the IPMI KCS handshake; the GPNV log; the mode
   variables of secure boot.

### How to run

    tlc -workers 2 -config NvramBanksCrash.cfg MCNvramBanks.tla
    tlc -workers 2 -config NvramLog.cfg MCNvramLog.tla
    tlc -workers 2 -config MpService.cfg MpService.tla
    tlapm NvramBanks_proofs.tla

and `tlapm` in the same way for `NatOrder`, `NvramStore_proofs`, `NvramAtomic_proofs`, `NvramLog_proofs`,
`NvramSync_proofs`, `SmmRendezvous_proofs` and `MpService_proofs`.
