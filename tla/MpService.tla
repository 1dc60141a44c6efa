----------------------------- MODULE MpService -----------------------------
(***************************************************************************)
(* The multiprocessor services of DXE (CpuMpDxe/MpService.c).  The boot    *)
(* processor (BSP) hands procedures to the application processors (APs),   *)
(* and finds out that they have finished by polling CpuData[n].State: in a *)
(* loop when the call blocks, from a timer when it has a WaitEvent.  An AP *)
(* halts between two procedures (ApInHltLoop, the value of                 *)
(* PcdCpuApLoopMode) and is woken, or after a timeout aborted, by          *)
(* INIT-SIPI-SIPI; what it then runs it reads from mApFunction, which all  *)
(* APs share.  Each access under a CpuDataLock is one step.  The timer     *)
(* runs at TPL_CALLBACK and mStopCheckAPsStatus keeps it out of the calls: *)
(* here it runs between two calls.                                         *)
(***************************************************************************)
EXTENDS Naturals, FiniteSets, FiniteSetsExt, TLC

CONSTANTS NumberOfProcessors,
          Timeouts,         \* the time limits of calls, 0: infinite
          MaxCalls,         \* how many calls are made
          CallWhilePending, \* StartupAllAPs while another one is pending?
          DisableBusy,      \* EnableDisableAP of an AP that is not idle?
          SlowStart,        \* can mApFunction change before a woken AP reads it?
          KillInLock        \* can an AP be aborted while it holds its CpuDataLock?

Cpu == 0 .. NumberOfProcessors - 1

ASSUME MpAssumption ==
    /\ NumberOfProcessors \in Nat \ {0} /\ Timeouts \subseteq Nat /\ MaxCalls \in Nat
    /\ {CallWhilePending, DisableBusy, SlowStart, KillInLock} \subseteq BOOLEAN

VARIABLES bsp,         \* mCpuConfigContextBuffer.BspNumber
          state,       \* CpuData[n].State
          procedure,   \* CpuData[n].Procedure
          locked,      \* is CpuData[n].CpuDataLock held by an aborted AP?
          this,        \* WaitEvent and times of StartupThisAP, per AP
          all,         \* those of StartupAllAPs, with its counters
          cpuList,     \* CpuList: the APs StartupAllAPs is still waiting for
          mApFunction, \* is it ApProcWrapper? (or NULL)
          ap,          \* what each processor executes
          pc,          \* what the BSP executes
          call,        \* the arguments of the call it is in
          at,          \* the loop index there
          calls,
          asked,       \* the APs the last StartupAllAPs started
          done         \* those that have returned from its procedure

data == <<state, procedure, locked>>
jobs == <<this, all, cpuList>>
ghosts == <<asked, done>>
vars == <<bsp, data, jobs, mApFunction, ap, pc, call, at, calls, ghosts>>

None == "none"
Procedures == {None, "Task", "Hang", "FutureBSPProc"}
Min0(S) == IF S = {} THEN NumberOfProcessors ELSE Min(S)
Times == Timeouts \cup {0}
NoCall == [kind |-> "timer"]

\* The arguments of StartupAllAPs, StartupThisAP and SwitchBSP.
CallArguments ==
    [kind : {"all"}, procedure : {"Task", "Hang"}, single : BOOLEAN, blocks : BOOLEAN,
     timeout : Timeouts]
    \cup [kind : {"this"}, procedure : {"Task", "Hang"}, cpu : Cpu, blocks : BOOLEAN,
          timeout : Timeouts]
    \cup [kind : {"switch"}, cpu : Cpu, enable : BOOLEAN]

TypeOK ==
    /\ bsp \in Cpu /\ state \in [Cpu -> {"Idle", "Ready", "Busy", "Finished", "Disabled"}]
    /\ procedure \in [Cpu -> Procedures] /\ locked \in [Cpu -> BOOLEAN]
    /\ this \in [Cpu -> [wait : BOOLEAN, expected : Times, total : Nat]]
    /\ \A n \in Cpu : this[n].total <= this[n].expected
    /\ all \in [wait : BOOLEAN, expected : Times, total : Nat, single : BOOLEAN,
                procedure : Procedures, start : 0 .. NumberOfProcessors - 1,
                finish : 0 .. NumberOfProcessors - 1]
    /\ all.total <= all.expected
    /\ cpuList \subseteq Cpu /\ mApFunction \in BOOLEAN
    /\ ap \in [Cpu -> {"bsp", "halt", "sipi", "start", "run", "finish"}]
    /\ pc \in {"idle", "all", "abortAll", "each", "abortEach",
                "abortWait", "start", "wait", "exchange", "settle"}
    /\ call \in CallArguments \cup {NoCall}
    /\ at \in 0 .. NumberOfProcessors /\ calls \in 0 .. MaxCalls
    /\ asked \subseteq Cpu /\ done \subseteq Cpu

Goto(step) == pc' = step /\ call' = IF step = "idle" THEN NoCall ELSE call

Init ==
    /\ bsp = 0 /\ state = [n \in Cpu |-> "Idle"] /\ procedure = [n \in Cpu |-> None]
    /\ locked = [n \in Cpu |-> FALSE]
    /\ this = [n \in Cpu |-> [wait |-> FALSE, expected |-> 0, total |-> 0]]
    /\ all = [wait |-> FALSE, expected |-> 0, total |-> 0, single |-> FALSE,
              procedure |-> None, start |-> 0, finish |-> 0]
    /\ cpuList = {} /\ mApFunction = FALSE
    /\ ap = [n \in Cpu |-> IF n = 0 THEN "bsp" ELSE "halt"]
    /\ pc = "idle" /\ call = NoCall /\ at = 0 /\ calls = 0 /\ asked = {} /\ done = {}

---------------------------------------------------------------------------
\* SendInitSipiSipiIpis writes mApFunction for the APs S; another AP that was
\* started before and has not read it yet may find the new value.
MayWrite(f, S) == SlowStart \/ mApFunction = f \/ \A n \in Cpu \ S : ap[n] # "sipi"

\* WakeUpAp for each AP of S; their locks are free.
WakeUpAp(S, p) ==
    /\ S # {} => MayWrite(TRUE, S) /\ \A n \in S : ~locked[n]
    /\ procedure' = [n \in Cpu |-> IF n \in S THEN p ELSE procedure[n]]
    /\ mApFunction' = (mApFunction \/ S # {})
    /\ ap' = [n \in Cpu |-> IF n \in S THEN "sipi" ELSE ap[n]]

\* ResetProcessorToIdleState: the AP is started without a procedure, whatever
\* it is doing; the BSP spins for ever if the AP held its lock.
ResetProcessorToIdleState(n) ==
    /\ ~locked[n] /\ MayWrite(FALSE, {n})
    /\ mApFunction' = FALSE /\ ap' = [ap EXCEPT ![n] = "sipi"]
    /\ \E held \in {FALSE} \cup {KillInLock /\ ap[n] \in {"start", "run", "finish"}} :
           /\ locked' = [locked EXCEPT ![n] = held]
           /\ state' = IF held THEN state ELSE [state EXCEPT ![n] = "Idle"]
    /\ UNCHANGED procedure

\* CheckTimeout: the clock moves on by one with every reading.
Advance(c) == IF c.expected = 0 THEN c ELSE [c EXCEPT !.total = @ + 1]
CheckTimeout(c) == c.expected # 0 /\ Advance(c).total > c.expected

\* Where CheckAllAPs returns to: the loop of a blocking StartupAllAPs, which has
\* no WaitEvent, or CheckAndUpdateAPsStatus.
InLoop == ~all.wait
AllReady == Goto(IF InLoop THEN "idle" ELSE "each") /\ at' = 0
AllNotReady == Goto(IF InLoop THEN "all" ELSE "each") /\ at' = 0

\* Mutant: whatever is not busy has finished.
HasFinishedNotBusy(n) == state[n] # "Busy"
HasFinished(n) == state[n] = "Finished"

\* Mutant: in single-thread mode the next AP is not woken.
GetNextWaitingProcessorNumberNone(rest) == {}
\* GetNextWaitingProcessorNumber, the set of it.
GetNextWaitingProcessorNumber(rest) == IF rest = {} THEN {} ELSE {Min(rest)}

\* Mutant: an AP that has finished stays in the list.
RestKept(n) == cpuList
Rest(n) == cpuList \ {n}

\* CheckAllAPs: an AP that has finished is counted; in single-thread mode the
\* next one in the list is woken.
CheckAllAPs ==
    LET n == Min0({m \in cpuList : m >= at}) IN
    /\ pc = "all" /\ n \in Cpu /\ ~locked[n] /\ at' = n + 1
    /\ IF HasFinished(n)
       THEN /\ cpuList' = Rest(n) /\ state' = [state EXCEPT ![n] = "Idle"]
            /\ all' = [all EXCEPT !.finish = @ + 1]
            /\ WakeUpAp(IF all.single THEN GetNextWaitingProcessorNumber(Rest(n)) ELSE {},
                        all.procedure)
       ELSE UNCHANGED <<cpuList, state, all, procedure, mApFunction, ap>>
    /\ UNCHANGED <<bsp, locked, this, pc, call, calls, ghosts>>

\* The end of CheckAllAPs: have all finished, or has the time run out?
AllChecked ==
    /\ pc = "all" /\ \A m \in cpuList : m < at
    /\ IF all.finish = all.start THEN AllReady /\ all' = [all EXCEPT !.wait = FALSE]
       ELSE IF CheckTimeout(all) THEN Goto("abortAll") /\ at' = 0 /\ UNCHANGED all
       ELSE AllNotReady /\ all' = Advance(all)
    /\ UNCHANGED <<bsp, data, this, cpuList, mApFunction, ap, calls, ghosts>>

\* The APs still in the list are reset and reported in FailedCpuList.
AbortAll ==
    /\ pc = "abortAll"
    /\ IF cpuList = {}
       THEN AllReady /\ all' = [all EXCEPT !.wait = FALSE]
            /\ UNCHANGED <<data, mApFunction, ap, cpuList>>
       ELSE LET n == Min(cpuList) IN
            /\ ResetProcessorToIdleState(n) /\ UNCHANGED <<pc, call, at, all>>
            /\ cpuList' = IF locked'[n] THEN cpuList ELSE cpuList \ {n}
    /\ UNCHANGED <<bsp, this, calls, ghosts>>

---------------------------------------------------------------------------
\* CheckThisAP, for CheckAndUpdateAPsStatus or in the loop of StartupThisAP.
NextCheck(n, over) ==
    /\ Goto(IF pc = "wait" /\ over THEN "idle" ELSE pc)
    /\ at' = IF pc = "wait" THEN 0 ELSE n + 1
Waiting == {m \in Cpu : this[m].wait /\ m >= at}

CheckThisAP ==
    LET n == IF pc = "wait" THEN call.cpu ELSE Min0(Waiting) IN
    /\ pc \in {"each", "wait"} /\ n \in Cpu /\ ~locked[n]
    /\ IF HasFinished(n)
       THEN /\ state' = [state EXCEPT ![n] = "Idle"] /\ NextCheck(n, TRUE)
            /\ this' = [this EXCEPT ![n].wait = FALSE]
       ELSE /\ UNCHANGED state
            /\ IF CheckTimeout(this[n])
               THEN Goto(IF pc = "wait" THEN "abortWait" ELSE "abortEach") /\ at' = n
                    /\ UNCHANGED this
               ELSE NextCheck(n, FALSE) /\ this' = [this EXCEPT ![n] = Advance(@)]
    /\ UNCHANGED <<bsp, procedure, locked, all, cpuList, mApFunction, ap, calls, ghosts>>

\* The time has run out, although the AP may have finished in the meantime.
AbortThis ==
    /\ pc \in {"abortEach", "abortWait"} /\ ResetProcessorToIdleState(at)
    /\ IF locked'[at] THEN UNCHANGED <<pc, call, at, this>>
       ELSE /\ this' = [this EXCEPT ![at].wait = FALSE]
            /\ IF pc = "abortWait" THEN Goto("idle") /\ at' = 0
               ELSE Goto("each") /\ at' = at + 1
    /\ UNCHANGED <<bsp, all, cpuList, calls, ghosts>>

\* CheckAndUpdateAPsStatus is done: on to the call that made it, if any.
AllUpdated ==
    /\ pc = "each" /\ Waiting = {} /\ at' = 0
    /\ Goto(IF call.kind = "timer" THEN "idle" ELSE "start")
    /\ UNCHANGED <<bsp, data, jobs, mApFunction, ap, calls, ghosts>>

---------------------------------------------------------------------------
Update(c) ==
    /\ pc = "idle" /\ call' = c /\ pc' = (IF all.wait THEN "all" ELSE "each")
    /\ UNCHANGED <<bsp, data, jobs, mApFunction, ap, at, ghosts>>

\* The timer.
CheckAPsStatus == Update(NoCall) /\ UNCHANGED calls

\* A call starts with CheckAndUpdateAPsStatus.
Call(c) ==
    /\ calls < MaxCalls /\ calls' = calls + 1 /\ Update(c)
    /\ c.kind = "all" /\ all.wait => CallWhilePending

\* A procedure that may not return is given a time limit.
CallStartupAllAPs(p, single, blocks, timeout) ==
    /\ p = "Hang" => timeout # 0
    /\ Call([kind |-> "all", procedure |-> p, single |-> single, blocks |-> blocks,
             timeout |-> timeout])
CallStartupThisAP(p, n, blocks, timeout) ==
    /\ p = "Hang" => timeout # 0
    /\ n # bsp /\ Call([kind |-> "this", procedure |-> p, cpu |-> n, blocks |-> blocks,
                        timeout |-> timeout])

Enabled == {n \in Cpu \ {bsp} : state[n] # "Disabled"}

\* Mutant: the counters go on from the previous call.
CountersKept == [start |-> all.start + Cardinality(Enabled), finish |-> all.finish]
Counters == [start |-> Cardinality(Enabled), finish |-> 0]

\* StartupAllAPs after the update: an AP that is not idle ends it, with CpuList
\* partly rewritten; else all enabled APs are made ready and woken, in
\* single-thread mode the first one only.
StartupAllAPs ==
    LET notIdle == {n \in Enabled : state[n] # "Idle"}
        first == Min0(notIdle)
    IN
    /\ pc = "start" /\ call.kind = "all"
    /\ IF notIdle # {}
       THEN /\ cpuList' = {n \in Enabled : n < first} \cup {n \in cpuList : n > first}
            /\ Goto("idle") /\ UNCHANGED <<state, procedure, mApFunction, ap, all, ghosts>>
       ELSE /\ cpuList' = Enabled /\ asked' = Enabled /\ done' = {}
            /\ state' = [n \in Cpu |-> IF n \in Enabled THEN "Ready" ELSE state[n]]
            /\ WakeUpAp(IF call.single /\ Enabled # {} THEN {Min(Enabled)} ELSE Enabled,
                        call.procedure)
            /\ LET counted == [all EXCEPT !.start = Counters.start, !.finish = Counters.finish] IN
               all' = IF Enabled = {} THEN counted
                      ELSE [counted EXCEPT !.wait = ~call.blocks, !.expected = call.timeout,
                                           !.total = 0, !.single = call.single,
                                           !.procedure = call.procedure]
            /\ Goto(IF call.blocks /\ Enabled # {} THEN "all" ELSE "idle")
    /\ UNCHANGED <<bsp, locked, this, at, calls>>

\* StartupThisAP after the update.
StartupThisAP ==
    LET n == call.cpu IN
    /\ pc = "start" /\ call.kind = "this"
    /\ IF state[n] # "Idle"
       THEN Goto("idle") /\ UNCHANGED <<state, procedure, mApFunction, ap, this>>
       ELSE /\ state' = [state EXCEPT ![n] = "Ready"] /\ WakeUpAp({n}, call.procedure)
            /\ this' = [this EXCEPT ![n] = [wait |-> ~call.blocks, expected |-> call.timeout,
                                           total |-> 0]]
            /\ Goto(IF call.blocks THEN "wait" ELSE "idle")
    /\ UNCHANGED <<bsp, locked, all, cpuList, at, calls, ghosts>>

---------------------------------------------------------------------------
\* SwitchBSP wakes the AP, which exchanges registers and stack with the BSP;
\* the old BSP ends the procedure of the AP, and the new one waits for that.
SwitchBSP(n, enableOld) ==
    /\ pc = "idle" /\ calls < MaxCalls /\ calls' = calls + 1
    /\ n # bsp /\ state[n] = "Idle" /\ WakeUpAp({n}, "FutureBSPProc") /\ pc' = "exchange"
    /\ call' = [kind |-> "switch", cpu |-> n, enable |-> enableOld]
    /\ UNCHANGED <<bsp, state, locked, jobs, at, ghosts>>

AsmExchangeRole ==
    /\ pc = "exchange" /\ ap[call.cpu] = "run" /\ pc' = "settle"
    /\ ap' = [ap EXCEPT ![call.cpu] = "bsp", ![bsp] = "finish"]
    /\ procedure' = [procedure EXCEPT ![call.cpu] = None]
    /\ UNCHANGED <<bsp, state, locked, jobs, mApFunction, call, at, calls, ghosts>>

ChangeCpuState(n, enable) == state' = [state EXCEPT ![n] = IF enable THEN "Idle" ELSE "Disabled"]

BspSwitched ==
    /\ pc = "settle" /\ state[bsp] = "Finished" /\ ~locked[bsp]
    /\ ChangeCpuState(bsp, call.enable) /\ bsp' = call.cpu /\ pc' = "idle" /\ call' = NoCall
    /\ UNCHANGED <<procedure, locked, jobs, mApFunction, ap, at, calls, ghosts>>

EnableDisableAP(n, enable) ==
    /\ pc = "idle" /\ calls < MaxCalls /\ calls' = calls + 1
    /\ n # bsp /\ ~locked[n] /\ (state[n] \in {"Idle", "Disabled"} \/ DisableBusy)
    /\ ChangeCpuState(n, enable)
    /\ UNCHANGED <<bsp, procedure, locked, jobs, mApFunction, ap, pc, call, at, ghosts>>

---------------------------------------------------------------------------
\* What an AP executes: ApProcEntry, and ApProcWrapper in four steps.
ap_kept == <<bsp, locked, jobs, mApFunction, pc, call, at, calls>>

ApProcEntry(n) ==
    /\ ap[n] = "sipi" /\ ap' = [ap EXCEPT ![n] = IF mApFunction THEN "start" ELSE "halt"]
    /\ UNCHANGED <<ap_kept, state, procedure, ghosts>>
ApBusy(n) ==
    /\ ap[n] = "start" /\ ~locked[n] /\ state' = [state EXCEPT ![n] = "Busy"]
    /\ ap' = [ap EXCEPT ![n] = IF procedure[n] = None THEN "finish" ELSE "run"]
    /\ UNCHANGED <<ap_kept, procedure, ghosts>>
ApReturns(n) ==
    /\ ap[n] = "run" /\ procedure[n] = "Task" /\ ~locked[n]
    /\ ap' = [ap EXCEPT ![n] = "finish"] /\ procedure' = [procedure EXCEPT ![n] = None]
    /\ done' = done \cup {n} /\ UNCHANGED <<ap_kept, state, asked>>
\* (For the old BSP n is what WhoAmI returns.)
ApFinished(n) ==
    /\ ap[n] = "finish" /\ ~locked[n] /\ state' = [state EXCEPT ![n] = "Finished"]
    /\ ap' = [ap EXCEPT ![n] = "halt"] /\ UNCHANGED <<ap_kept, procedure, ghosts>>

Calls ==
    \/ \E p \in {"Task", "Hang"}, blocks \in BOOLEAN, t \in Timeouts :
          \/ \E single \in BOOLEAN : CallStartupAllAPs(p, single, blocks, t)
          \/ \E n \in Cpu : CallStartupThisAP(p, n, blocks, t)
    \/ \E n \in Cpu, enable \in BOOLEAN : SwitchBSP(n, enable) \/ EnableDisableAP(n, enable)
Bsp ==
    \/ CheckAllAPs \/ AllChecked \/ AbortAll \/ CheckThisAP \/ AbortThis \/ AllUpdated
    \/ StartupAllAPs \/ StartupThisAP \/ AsmExchangeRole \/ BspSwitched
Ap(n) == ApProcEntry(n) \/ ApBusy(n) \/ ApReturns(n) \/ ApFinished(n)

Next == Calls \/ CheckAPsStatus \/ Bsp \/ \E n \in Cpu : Ap(n)

\* The BSP and the APs go on executing, and the timer fires between two calls.
Fairness ==
    /\ WF_vars(Bsp) /\ WF_vars(CheckAPsStatus) /\ \A n \in Cpu : WF_vars(Ap(n))

Spec == Init /\ [][Next]_vars /\ Fairness
---------------------------------------------------------------------------
\* While a StartupAllAPs is on, every AP it has started is accounted for once:
\* it is in CpuList and has not been given back, or it has been counted and has
\* returned from the procedure.  So success means that all have returned.
AllAccounted ==
    pc # "abortAll" /\ (all.wait \/ pc = "all") =>
        /\ cpuList \subseteq asked /\ asked \ cpuList \subseteq done
        /\ all.finish = Cardinality(asked \ cpuList) /\ all.start = Cardinality(asked)
        /\ \A n \in cpuList : state[n] \in {"Ready", "Busy", "Finished"}

\* An AP the BSP takes for idle or disabled executes nothing, whatever has been
\* aborted, enabled, disabled or switched before; it may still be on its way to
\* the halt after an abort, or to the exchange of roles.
IdleIsHalted ==
    \A n \in Cpu \ {bsp} : state[n] \in {"Idle", "Disabled"} =>
        \/ ap[n] \in {"halt", "bsp"}
        \/ ap[n] = "sipi" /\ ~mApFunction
        \/ procedure[n] = "FutureBSPProc"

\* Every call comes to its end, a blocking one by returning and the others by
\* signalling their event: in time, or when their time limit has passed.  (There
\* are only MaxCalls calls, so again and again none is on.)
NothingOn == pc = "idle" /\ ~all.wait /\ \A n \in Cpu : ~this[n].wait
CallsEnd == []<>NothingOn
=============================================================================
