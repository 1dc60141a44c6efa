--------------------------- MODULE SmmRendezvous ---------------------------
(***************************************************************************)
(* How the processors meet in SMM (PiSmmCpuDxeSmm/MpService.c): an SMI is  *)
(* broadcast, every processor enters SmiRendezvous, one is the BSP and     *)
(* runs the SMM core while the others, the APs, wait in APHandler, and all *)
(* leave together.  One access to the shared mSmmMpSyncData is one step,   *)
(* except where a comment says why several are taken as one.               *)
(***************************************************************************)
EXTENDS Naturals, FiniteSets, Sequences

CONSTANTS Cpu,            \* the processors
          None,           \* no processor: BspIndex = -1
          DefaultBsp,     \* CpuIndex 0, the BSP when there is no election
          Election,       \* PcdCpuSmmEnableBspElection
          Modes,          \* the modes SmmSyncSetModeWorker is called with
          Mtrrs,          \* NeedConfigureMtrrs()
          Blocking,       \* PcdCpuSmmBlockStartupThisAp
          StatusHook,     \* PlatformValidSmi() looks at an SMI status bit
          BspTimesOut,    \* may the second wait of SmmWaitForApArrival time out?
          ApGivesUp,      \* may the second wait of an AP for the BSP time out?
          CounterSize,    \* 2^32 in the code
          MaxSmi          \* how many SMIs the chipset raises

ASSUME RendezvousAssumption ==
    /\ IsFiniteSet(Cpu) /\ None \notin Cpu /\ DefaultBsp \in Cpu
    /\ Modes \subseteq {"traditional", "relaxed"} /\ "traditional" \in Modes
    /\ {Election, Mtrrs, Blocking, StatusHook, BspTimesOut, ApGivesUp} \subseteq BOOLEAN
    /\ CounterSize \in Nat /\ CounterSize > Cardinality(Cpu) + 2 /\ MaxSmi \in Nat

VARIABLES pc,        \* where a processor is: outside, in SmiRendezvous, or in a handler
          at,        \* its place in BspProgram or ApProgram
          my,        \* its SyncMode argument
          bsp,       \* an AP's local BspIndex
          apCount,   \* the BSP's local ApCount
          counter, insideSmm, allCpusInSync, bspIndex,          \* mSmmMpSyncData:
          mode, nextMode,   \* EffectiveSyncMode and SyncModeToBeSet, also there
          run, present, busy,                                   \* ...->CpuData
          pending,   \* the processors that have an SMI latched
          smiStatus, \* the chipset's SMI status bit
          smis,      \* how many SMIs have been raised
          unserved   \* an SMI has been raised and the SMM core has not run since

local == <<pc, at, my, bsp, apCount>>
modes == <<mode, nextMode>>
sync == <<counter, insideSmm, allCpusInSync, bspIndex, modes>>
data == <<run, present, busy>>
chipset == <<pending, smiStatus, smis, unserved>>
vars == <<local, sync, data, chipset>>

NumberOfCpus == Cardinality(Cpu)
Locked == CounterSize - 1             \* (UINT32)-1

\* The statements of BSPHandler and of APHandler that touch shared state.
Early(m) == m = "traditional" \/ Mtrrs     \* the APs are gathered before the SMM core runs
When(condition, steps) == IF condition THEN steps ELSE <<>>

\* Mutants of BspProgram: the next mode is set while the APs may still arrive;
\* the APs are told to program the MTRRs before all have saved them; the last
\* wait for the MTRRs is missing.
BspProgramModeEarly(m) ==
    <<"enter", "clear">>
    \o When(Early(m), <<"gather", "gatherAgain", "sync", "lock", "wait">>)
    \o When(Mtrrs, <<"release", "wait", "release", "wait">>)
    \o <<"core", "mode", "drain">>
    \o When(~Early(m), <<"sync", "lock", "count">>)
    \o <<"leave", "release", "wait">>
    \o When(Mtrrs, <<"release", "wait">>)
    \o <<"release", "absent", "wait", "forget", "reset", "unsync", "exit">>
BspProgramNoBackupWait(m) ==
    <<"enter", "clear", "gather", "gatherAgain", "sync", "lock", "wait",
      "release", "release", "wait", "wait", "core", "drain", "leave", "release", "wait", "mode",
      "release", "wait", "release", "absent", "wait", "forget", "reset", "unsync", "exit">>
BspProgramNoRestoreWait(m) ==
    <<"enter", "clear", "gather", "gatherAgain", "sync", "lock", "wait",
      "release", "wait", "release", "wait", "core", "drain", "leave", "release", "mode",
      "release", "wait", "release", "absent", "wait", "forget", "reset", "unsync", "exit">>

BspProgram(m) ==
    <<"enter", "clear">>
    \o When(Early(m), <<"gather", "gatherAgain", "sync", "lock", "wait">>)
    \o When(Mtrrs, <<"release", "wait", "release", "wait">>)
    \o <<"core", "drain">>
    \o When(~Early(m), <<"sync", "lock", "count">>)
    \o <<"leave", "release", "wait", "mode">>
    \o When(Mtrrs, <<"release", "wait">>)
    \o <<"release", "absent", "wait", "forget", "reset", "unsync", "exit">>

ApProgram(m) ==
    <<"join">>
    \o When(Early(m), <<"signal">>)
    \o When(Mtrrs, <<"await", "signal", "await", "signal">>)
    \o <<"await", "look">>
    \o When(Mtrrs, <<"signal", "await">>)
    \o <<"signal", "await", "absent", "signal", "exit">>

InBsp(c, step) == pc[c] = "bspHandler" /\ BspProgram(my[c])[at[c]] = step
InAp(c, step) == pc[c] = "apHandler" /\ ApProgram(my[c])[at[c]] = step
AtExit(c) == InBsp(c, "exit") \/ InAp(c, "exit") \/ pc[c] = "gaveUp"

Places == {"outside", "valid", "invalid", "checkIn", "checkInAp", "late", "elect", "apCall",
           "ap", "apTimeout", "apAgain", "giveUp", "gaveUp", "bspHandler", "apHandler", "procedure"}

\* Every variable has its type.
TypeOK ==
    /\ pc \in [Cpu -> Places]
    /\ at \in [Cpu -> 1..Len(BspProgram("traditional"))]
    /\ my \in [Cpu -> Modes] /\ mode \in Modes /\ nextMode \in Modes
    /\ bsp \in [Cpu -> Cpu \cup {None}] /\ bspIndex \in Cpu \cup {None}
    /\ apCount \in [Cpu -> 0..Locked] /\ counter \in 0..Locked
    /\ insideSmm \in BOOLEAN /\ allCpusInSync \in BOOLEAN
    /\ run \in [Cpu -> Nat] /\ present \subseteq Cpu /\ busy \subseteq Cpu
    /\ pending \subseteq Cpu /\ smiStatus \in BOOLEAN /\ unserved \in BOOLEAN
    /\ smis \in 0..MaxSmi

\* InitializeMpSyncData.
Init ==
    /\ pc = [c \in Cpu |-> "outside"] /\ at = [c \in Cpu |-> 1]
    /\ my = [c \in Cpu |-> "traditional"] /\ mode = "traditional" /\ nextMode = "traditional"
    /\ bsp = [c \in Cpu |-> None] /\ apCount = [c \in Cpu |-> 0]
    /\ counter = 0 /\ insideSmm = FALSE /\ allCpusInSync = FALSE
    /\ bspIndex = IF Election THEN None ELSE DefaultBsp
    /\ run = [c \in Cpu |-> 0] /\ present = {} /\ busy = {}
    /\ pending = {} /\ smiStatus = FALSE /\ smis = 0 /\ unserved = FALSE

---------------------------------------------------------------------------
\* The helpers of MpService.c.

WaitForSemaphore(c, n) == run[c] >= n /\ run' = [run EXCEPT ![c] = @ - n]
ReleaseSemaphore(cs) == run' = [c \in Cpu |-> IF c \in cs THEN run[c] + 1 ELSE run[c]]
LockdownSemaphore == counter' = Locked
SendSmiIpi(cs) == pending' = pending \cup cs /\ UNCHANGED <<smiStatus, smis, unserved>>
AllCpusInSmm == counter = NumberOfCpus \/ present = Cpu
PlatformValidSmi == StatusHook => smiStatus

Goto(c, place) == pc' = [pc EXCEPT ![c] = place] /\ UNCHANGED <<at, my, bsp, apCount>>
Call(c, handler) == /\ pc' = [pc EXCEPT ![c] = handler] /\ at' = [at EXCEPT ![c] = 1]
                    /\ UNCHANGED <<bsp, apCount>>
Return(c) == /\ pc' = [pc EXCEPT ![c] = "outside"] /\ at' = [at EXCEPT ![c] = 1]
             /\ bsp' = [bsp EXCEPT ![c] = None] /\ apCount' = [apCount EXCEPT ![c] = 0]
             /\ UNCHANGED my
Skip(c, n) == at' = [at EXCEPT ![c] = @ + n] /\ UNCHANGED <<pc, my, bsp, apCount>>
Advance(c) == Skip(c, 1)

---------------------------------------------------------------------------
\* SmiRendezvous.

\* The processor takes its SMI and samples ValidSmi.
SmiEntry(c) ==
    /\ pc[c] = "outside" /\ c \in pending /\ pending' = pending \ {c}
    /\ Goto(c, IF PlatformValidSmi THEN "valid" ELSE "invalid")
    /\ UNCHANGED <<sync, data, smiStatus, smis, unserved>>

\* It samples InsideSmm; an SMI that is not valid and finds no BSP is ignored.
BspInProgress(c) ==
    /\ \/ pc[c] \in {"valid", "invalid"} /\ insideSmm /\ Goto(c, "checkInAp")
       \/ pc[c] = "valid" /\ ~insideSmm /\ Goto(c, "checkIn")
       \/ pc[c] = "invalid" /\ ~insideSmm /\ Return(c)
    /\ UNCHANGED <<sync, data, chipset>>

\* Mutant of CheckIn: the locked counter is not recognised.
CheckInLocked(c) ==
    /\ pc[c] \in {"checkIn", "checkInAp"}
    /\ counter' = counter + 1 /\ busy' = busy \ {c}
    /\ Goto(c, IF pc[c] = "checkIn" THEN "elect" ELSE "apCall")
    /\ UNCHANGED <<insideSmm, allCpusInSync, bspIndex, modes, run, present, chipset>>

\* ReleaseSemaphore of Counter, which returns 0 when the counter is locked.
\* InitializeSpinLock of Busy is part of the step: nobody looks at the lock of
\* a processor that is not present.
CheckIn(c) ==
    /\ pc[c] \in {"checkIn", "checkInAp"} /\ counter # Locked
    /\ counter' = counter + 1 /\ busy' = busy \ {c}
    /\ Goto(c, IF pc[c] = "checkIn" THEN "elect" ELSE "apCall")
    /\ UNCHANGED <<insideSmm, allCpusInSync, bspIndex, modes, run, present, chipset>>

TooLate(c) ==
    /\ pc[c] \in {"checkIn", "checkInAp"} /\ counter = Locked
    /\ Goto(c, "late")
    /\ UNCHANGED <<sync, data, chipset>>

\* Mutant of Elect: BspIndex is written without comparing it with -1.
ElectUncompared(c) ==
    /\ pc[c] = "elect"
    /\ bspIndex' = IF Election THEN c ELSE bspIndex
    /\ IF bspIndex' = c THEN Call(c, "bspHandler") /\ my' = [my EXCEPT ![c] = mode]
                        ELSE Goto(c, "apCall")
    /\ UNCHANGED <<counter, insideSmm, allCpusInSync, modes, data, chipset>>

\* The BSP is the first to replace -1 in BspIndex, or the default one.  Only
\* "forget" changes BspIndex after that, and it waits for c, which is counted:
\* the exchange, the comparison with CpuIndex and the BSP's read of
\* EffectiveSyncMode are one step.
Elect(c) ==
    /\ pc[c] = "elect"
    /\ bspIndex' = IF Election /\ bspIndex = None THEN c ELSE bspIndex
    /\ IF bspIndex' = c THEN Call(c, "bspHandler") /\ my' = [my EXCEPT ![c] = mode]
                        ELSE Goto(c, "apCall")
    /\ UNCHANGED <<counter, insideSmm, allCpusInSync, modes, data, chipset>>

\* APHandler is called with the EffectiveSyncMode of that moment.
CallApHandler(c) ==
    /\ pc[c] = "apCall" /\ Call(c, "ap") /\ my' = [my EXCEPT ![c] = mode]
    /\ UNCHANGED <<sync, data, chipset>>

\* Mutant of Exit: AllCpusInSync is not waited for.
ExitAtOnce(c) ==
    /\ AtExit(c) \/ pc[c] = "late"
    /\ Return(c)
    /\ UNCHANGED <<sync, data, chipset>>

\* Wait for the BSP's signal to exit SMI.
Exit(c) ==
    /\ AtExit(c) \/ pc[c] = "late"
    /\ ~allCpusInSync /\ Return(c)
    /\ UNCHANGED <<sync, data, chipset>>

---------------------------------------------------------------------------
\* BSPHandler.

BspEnter(c) == \* InsideSmm and Present
    /\ InBsp(c, "enter") /\ insideSmm' = TRUE /\ present' = present \cup {c} /\ Advance(c)
    /\ UNCHANGED <<counter, allCpusInSync, bspIndex, modes, run, busy, chipset>>

BspClearStatus(c) ==
    /\ InBsp(c, "clear") /\ smiStatus' = FALSE /\ Advance(c)
    /\ UNCHANGED <<sync, data, pending, smis, unserved>>

\* Mutant of BspGather: no SMI is sent to the processors that are missing.
BspGatherSilent(c) ==
    /\ InBsp(c, "gather")
    /\ \/ counter < NumberOfCpus /\ Advance(c)
       \/ counter >= NumberOfCpus /\ Skip(c, 2)
    /\ UNCHANGED <<sync, data, chipset>>

\* SmmWaitForApArrival: the first wait ends with everyone there or by its timer.
BspGather(c) ==
    /\ InBsp(c, "gather")
    /\ \/ counter < NumberOfCpus /\ SendSmiIpi(Cpu \ present) /\ Advance(c)
       \/ counter >= NumberOfCpus /\ Skip(c, 2) /\ UNCHANGED chipset
    /\ UNCHANGED <<sync, data>>

BspGatherAgain(c) ==
    /\ InBsp(c, "gatherAgain") /\ (AllCpusInSmm \/ BspTimesOut) /\ Advance(c)
    /\ UNCHANGED <<sync, data, chipset>>

BspSync(c) ==
    /\ InBsp(c, "sync") /\ allCpusInSync' = TRUE /\ Advance(c)
    /\ UNCHANGED <<counter, insideSmm, bspIndex, modes, data, chipset>>

BspLock(c) ==
    /\ InBsp(c, "lock") /\ LockdownSemaphore
    /\ apCount' = [apCount EXCEPT ![c] = (counter + Locked) % CounterSize]
    /\ at' = [at EXCEPT ![c] = @ + 1] /\ UNCHANGED <<pc, my, bsp>>
    /\ UNCHANGED <<insideSmm, allCpusInSync, bspIndex, modes, data, chipset>>

\* Only the BSP takes from its own semaphore, so its ApCount waits are one step.
WaitForAllAPs(c) ==
    /\ InBsp(c, "wait") /\ WaitForSemaphore(c, apCount[c]) /\ Advance(c)
    /\ UNCHANGED <<sync, present, busy, chipset>>

\* A processor's Present does not rise while the BSP is here: see PresentIsCounted.
ReleaseAllAPs(c) ==
    /\ InBsp(c, "release") /\ ReleaseSemaphore(present \ {c}) /\ Advance(c)
    /\ UNCHANGED <<sync, present, busy, chipset>>

\* SmmStartupThisAp, called by an SMI handler.
SmmStartupThisAp(c, o) ==
    /\ InBsp(c, "core") /\ (Blocking => present \cap busy \subseteq {c})
    /\ o \in present \ busy /\ o # c
    /\ busy' = busy \cup {o, c} /\ ReleaseSemaphore({o})
    /\ UNCHANGED <<local, sync, present, chipset>>

\* SmmCoreEntry returns; its handlers may have set the sync mode of the next SMI.
SmmCoreEntry(c) ==
    /\ InBsp(c, "core") /\ (Blocking => present \cap busy \subseteq {c})
    /\ busy' = busy \cup {c} /\ unserved' = FALSE /\ nextMode' \in Modes /\ Advance(c)
    /\ UNCHANGED <<counter, insideSmm, allCpusInSync, bspIndex, mode, run, present>>
    /\ UNCHANGED <<pending, smiStatus, smis>>

\* Mutant of BspDrain: the procedures still running are not waited for.
BspDrainAtOnce(c) ==
    /\ InBsp(c, "drain") /\ Advance(c)
    /\ UNCHANGED <<sync, data, chipset>>

\* Busy only falls once the core has returned: the scan of all processors is one step.
BspDrain(c) ==
    /\ InBsp(c, "drain") /\ present \cap busy \subseteq {c} /\ Advance(c)
    /\ UNCHANGED <<sync, data, chipset>>

\* Mutant of BspCount: the BSP itself is counted as an AP.
BspCountOffByOne(c) ==
    /\ InBsp(c, "count") /\ Cardinality(present) >= apCount[c] /\ Advance(c)
    /\ UNCHANGED <<sync, data, chipset>>

BspCount(c) ==
    /\ InBsp(c, "count") /\ Cardinality(present) > apCount[c] /\ Advance(c)
    /\ UNCHANGED <<sync, data, chipset>>

BspLeave(c) ==
    /\ InBsp(c, "leave") /\ insideSmm' = FALSE /\ Advance(c)
    /\ UNCHANGED <<counter, allCpusInSync, bspIndex, modes, data, chipset>>

BspSetMode(c) ==
    /\ InBsp(c, "mode") /\ mode' = nextMode /\ Advance(c)
    /\ UNCHANGED <<counter, insideSmm, allCpusInSync, bspIndex, nextMode, data, chipset>>

BspAbsent(c) ==
    /\ InBsp(c, "absent") /\ present' = present \ {c} /\ Advance(c)
    /\ UNCHANGED <<sync, run, busy, chipset>>

BspForget(c) ==
    /\ InBsp(c, "forget") /\ bspIndex' = (IF Election THEN None ELSE bspIndex) /\ Advance(c)
    /\ UNCHANGED <<counter, insideSmm, allCpusInSync, modes, data, chipset>>

\* Mutant of BspReset: the counter stays locked.
BspResetForgotten(c) ==
    /\ InBsp(c, "reset") /\ Advance(c)
    /\ UNCHANGED <<sync, data, chipset>>

BspReset(c) ==
    /\ InBsp(c, "reset") /\ counter' = 0 /\ Advance(c)
    /\ UNCHANGED <<insideSmm, allCpusInSync, bspIndex, modes, data, chipset>>

BspUnsync(c) ==
    /\ InBsp(c, "unsync") /\ allCpusInSync' = FALSE /\ Advance(c)
    /\ UNCHANGED <<counter, insideSmm, bspIndex, modes, data, chipset>>

BSPHandler(c) ==
    \/ BspEnter(c) \/ BspClearStatus(c) \/ BspGather(c) \/ BspGatherAgain(c)
    \/ BspSync(c) \/ BspLock(c) \/ WaitForAllAPs(c) \/ ReleaseAllAPs(c)
    \/ \E o \in Cpu : SmmStartupThisAp(c, o)
    \/ SmmCoreEntry(c) \/ BspDrain(c) \/ BspCount(c) \/ BspLeave(c) \/ BspSetMode(c)
    \/ BspAbsent(c) \/ BspForget(c) \/ BspReset(c) \/ BspUnsync(c)

---------------------------------------------------------------------------
\* APHandler.

ApSeesBsp(c) ==
    /\ pc[c] \in {"ap", "apAgain"} /\ insideSmm /\ Goto(c, "apHandler")
    /\ UNCHANGED <<sync, data, chipset>>

ApTimeout(c) ==
    /\ pc[c] = "ap" /\ ~insideSmm /\ Goto(c, "apTimeout")
    /\ UNCHANGED <<sync, data, chipset>>

\* Mutant of ApCallsBsp: no SMI is sent to the BSP.
ApCallsNobody(c) ==
    /\ pc[c] = "apTimeout" /\ Goto(c, IF bspIndex = None THEN "giveUp" ELSE "apAgain")
    /\ UNCHANGED <<sync, data, chipset>>

ApCallsBsp(c) ==
    /\ pc[c] = "apTimeout"
    /\ IF bspIndex = None THEN Goto(c, "giveUp") /\ UNCHANGED chipset
                          ELSE Goto(c, "apAgain") /\ SendSmiIpi({bspIndex})
    /\ UNCHANGED <<sync, data>>

ApTimeoutAgain(c) ==
    /\ pc[c] = "apAgain" /\ ~insideSmm /\ ApGivesUp /\ Goto(c, "giveUp")
    /\ UNCHANGED <<sync, data, chipset>>

\* Mutant of ApGiveUp: the AP leaves and stays counted.
ApGiveUpCounted(c) ==
    /\ pc[c] = "giveUp" /\ Goto(c, "gaveUp")
    /\ UNCHANGED <<sync, data, chipset>>

ApGiveUp(c) == \* WaitForSemaphore of Counter
    /\ pc[c] = "giveUp" /\ counter > 0 /\ counter' = counter - 1 /\ Goto(c, "gaveUp")
    /\ UNCHANGED <<insideSmm, allCpusInSync, bspIndex, modes, data, chipset>>

ApJoin(c) == \* BspIndex is read, then Present is set
    /\ InAp(c, "join") /\ bsp' = [bsp EXCEPT ![c] = bspIndex] /\ present' = present \cup {c}
    /\ at' = [at EXCEPT ![c] = @ + 1] /\ UNCHANGED <<pc, my, apCount>>
    /\ UNCHANGED <<sync, run, busy, chipset>>

ApSignal(c) ==
    /\ InAp(c, "signal") /\ ReleaseSemaphore({bsp[c]}) /\ Advance(c)
    /\ UNCHANGED <<sync, present, busy, chipset>>

ApAwait(c) ==
    /\ InAp(c, "await") /\ WaitForSemaphore(c, 1) /\ Advance(c)
    /\ UNCHANGED <<sync, present, busy, chipset>>

ApLook(c) ==
    /\ InAp(c, "look")
    /\ IF insideSmm THEN Goto(c, "procedure") ELSE Advance(c)
    /\ UNCHANGED <<sync, data, chipset>>

\* The scheduled procedure runs, Busy is released, and the AP waits again.
Procedure(c) ==
    /\ pc[c] = "procedure" /\ busy' = busy \ {c}
    /\ pc' = [pc EXCEPT ![c] = "apHandler"] /\ at' = [at EXCEPT ![c] = @ - 1]
    /\ UNCHANGED <<my, bsp, apCount, sync, run, present, chipset>>

ApAbsent(c) ==
    /\ InAp(c, "absent") /\ present' = present \ {c} /\ Advance(c)
    /\ UNCHANGED <<sync, run, busy, chipset>>

APHandler(c) ==
    \/ ApSeesBsp(c) \/ ApTimeout(c) \/ ApCallsBsp(c) \/ ApTimeoutAgain(c) \/ ApGiveUp(c)
    \/ ApJoin(c) \/ ApSignal(c) \/ ApAwait(c) \/ ApLook(c) \/ Procedure(c) \/ ApAbsent(c)

---------------------------------------------------------------------------
SmiRendezvous(c) ==
    \/ SmiEntry(c) \/ BspInProgress(c) \/ CheckIn(c) \/ TooLate(c) \/ Elect(c)
    \/ CallApHandler(c) \/ BSPHandler(c) \/ APHandler(c) \/ Exit(c)

\* The chipset signals an SMI to all processors.
RaiseSmi ==
    /\ smis < MaxSmi /\ smis' = smis + 1
    /\ pending' = Cpu /\ smiStatus' = TRUE /\ unserved' = TRUE
    /\ UNCHANGED <<local, sync, data>>

\* No processor is in SMM, no SMI is latched and the bound on SMIs is reached.
Idle ==
    /\ smis = MaxSmi /\ pending = {} /\ \A c \in Cpu : pc[c] = "outside"
    /\ UNCHANGED vars

Next == RaiseSmi \/ Idle \/ \E c \in Cpu : SmiRendezvous(c)

Spec == Init /\ [][Next]_vars

\* A processor keeps executing, its timers expire, and the SMI handlers
\* return however often they schedule procedures.
FairSpec == Spec /\ \A c \in Cpu : WF_vars(SmiRendezvous(c)) /\ SF_vars(SmmCoreEntry(c))

---------------------------------------------------------------------------
\* Properties.

\* The step of the BSP's program c is at lies from one step to another.
BspBetween(c, first, last) ==
    /\ pc[c] = "bspHandler"
    /\ \E i \in 1..at[c] : BspProgram(my[c])[i] = first
    /\ \E i \in at[c]..Len(BspProgram(my[c])) : BspProgram(my[c])[i] = last

\* The ASSERTs of AllCpusInSmmWithExceptions and SmmWaitForApArrival: nobody
\* is counted twice and no lockdown is left over when the BSP gathers the APs.
CounterInRange ==
    \A c \in Cpu : InBsp(c, "gather") \/ InBsp(c, "gatherAgain") => counter <= NumberOfCpus

\* The ASSERT of SmiRendezvous: a processor that is done has consumed every
\* signal sent to it, and no signal of this run is left for the next one.
RunConsumed ==
    \A c \in Cpu : AtExit(c) \/ pc[c] = "outside" => run[c] = 0

\* One BSP at a time until the counter is reset, and the ASSERTs of BSPHandler
\* and APHandler: BspIndex is the BSP's own and no AP's.
OneBsp ==
    /\ \A c, o \in Cpu :
         BspBetween(c, "enter", "reset") /\ BspBetween(o, "enter", "reset") => c = o
    /\ \A c \in Cpu : BspBetween(c, "enter", "forget") => bspIndex = c
    /\ \A c \in Cpu : pc[c] = "apTimeout" \/ InAp(c, "join") => bspIndex # c

\* SmmWaitForApArrival: in the traditional flow no processor runs normal mode
\* code while the SMI handlers run; one outside has an SMI latched.
NoNormalCode ==
    \A c \in Cpu : (InBsp(c, "core") \/ InBsp(c, "drain")) /\ my[c] = "traditional" =>
        \A o \in Cpu \ {c} : pc[o] = "outside" => o \in pending

\* SmmStartupThisAp and the drain: an AP runs a procedure only under its Busy
\* lock and while the BSP is still with the SMI handlers.
ProcedureInside ==
    \A o \in Cpu : pc[o] = "procedure" =>
        /\ o \in busy
        /\ \E c \in Cpu : InBsp(c, "core") \/ InBsp(c, "drain")

\* SmmSyncSetModeWorker: a new mode takes effect between two SMI runs, never
\* inside one: an AP follows the same mode as the BSP it signals.
SameMode ==
    \A o \in Cpu : pc[o] \in {"apHandler", "procedure"} /\ at[o] > 1 /\ ~InAp(o, "exit") =>
        pc[bsp[o]] = "bspHandler" /\ my[o] = my[bsp[o]]

\* The APs the BSP counted when it locked Counter are those whose Present flag
\* it looks at to signal them: it never waits for an AP it does not release.
PresentIsCounted ==
    \A c \in Cpu :
        \/ BspBetween(c, "core", "leave") /\ Early(my[c])
        \/ InBsp(c, "leave")
        => Cardinality(present) = apCount[c] + 1

\* BSPHandler "gather APs to exit SMM synchronously": an AP that has followed a
\* BSP to the end stays in SMM until this BSP has reset the counter.
LeaveTogether ==
    [][\A o \in Cpu :
          InAp(o, "exit") /\ pc'[o] = "outside" => ~BspBetween(bsp[o], "lock", "reset")]_vars

\* BSPHandler "backup first and then set MTRR to avoid race condition for
\* threads in the same core": when one processor may be programming the SMI
\* MTRRs every AP has saved its own, and when one may be restoring them no AP
\* is still in a procedure.
MtrrsInStep ==
    Mtrrs =>
    \A p \in Cpu : pc[p] \in {"apHandler", "procedure"} /\ ~InAp(p, "exit") =>
        /\ (\E c \in Cpu : pc[c] = "bspHandler" /\ at[c] \in 11..18) => at[p] >= 5
        /\ \A o \in Cpu : InAp(o, "signal") => (at[o] >= 6 => at[p] >= 5)
                                            /\ (at[o] >= 11 => at[p] >= 10)

\* Every processor that enters SMM leaves it.
EveryoneLeaves == \A c \in Cpu : pc[c] # "outside" ~> pc[c] = "outside"

\* Every SMI is followed by a run of the SMM core.
SmiServed == unserved ~> ~unserved
===========================================================================
