-------------------------- MODULE MpService_proofs --------------------------
(***************************************************************************)
(* Type correctness of MpService, and the proofs that every AP of a        *)
(* StartupAllAPs is accounted for and that an idle AP executes nothing, for *)
(* any number of processors, calls and time limits.                        *)
(***************************************************************************)
EXTENDS MpService, NatOrder, TLAPS

\* The callers keep to what the services expect of them (no StartupAllAPs while
\* one is pending, no EnableDisableAP of a busy AP), and a woken AP reads
\* mApFunction before it is changed for another one.  Each of the three is
\* needed: the constants set apart show what happens without it.
Orderly == ~CallWhilePending /\ ~DisableBusy /\ ~SlowStart

---------------------------------------------------------------------------
\* The inductive invariant.

\* A StartupAllAPs is on.
AllActive == all.wait \/ pc \in {"all", "abortAll"}
Given == {"Ready", "Busy", "Finished"}

\* The processor that executes the code of the BSP, and those that are no APs.
Switching == pc \in {"exchange", "settle"}
Runner == IF pc = "settle" THEN call.cpu ELSE bsp
Bosses == {bsp} \cup (IF Switching THEN {call.cpu} ELSE {})

\* Only the AP that is being aborted can have left its lock held.
Aborted(n) ==
    \/ pc = "abortAll" /\ n \in cpuList /\ n = Min(cpuList)
    \/ pc \in {"abortEach", "abortWait"} /\ n = at

\* Which call the steps of the BSP belong to.
Control ==
    /\ \A n \in Cpu : locked[n] => Aborted(n)
    /\ pc = "idle" => call = NoCall
    /\ Switching <=> call.kind = "switch"
    /\ pc = "start" => call.kind \in {"all", "this"}
    /\ pc \in {"wait", "abortWait"} => call.kind = "this"
    /\ call.kind \in {"this", "switch"} => call.cpu # bsp
    /\ pc \in {"all", "abortAll"} /\ ~all.wait => call.kind = "all"
    /\ call.kind = "all" => ~all.wait
    /\ pc = "abortWait" => at = call.cpu
    /\ pc = "abortEach" => at \in Cpu /\ this[at].wait

\* What the BSP does, and the old one until the switch has settled.
BspRuns ==
    /\ ap[Runner] = "bsp" /\ state[Runner] \in {"Idle", "Busy"}
    /\ pc = "settle" => \/ ap[bsp] = "finish" /\ state[bsp] \in {"Idle", "Busy"}
                        \/ ap[bsp] = "halt" /\ state[bsp] = "Finished"

\* What an AP executes, against what CpuData says of it.
AtRest(n) == ap[n] = "halt" \/ (ap[n] = "sipi" /\ ~mApFunction)
Awoken(n) == (ap[n] = "sipi" /\ mApFunction) \/ ap[n] = "start"
WaitsTurn(n) ==
    AllActive /\ all.single /\ n \in cpuList /\ (n # Min(cpuList) \/ pc = "abortAll")
Phase(n) ==
    \/ state[n] \in {"Idle", "Disabled"} /\ AtRest(n)
    \/ state[n] = "Ready" /\ ap[n] = "halt" /\ WaitsTurn(n)
    \/ state[n] = "Ready" /\ procedure[n] \in {"Task", "Hang"} /\ Awoken(n)
    \/ state[n] = "Busy" /\ ap[n] = "run" /\ procedure[n] \in {"Task", "Hang"}
    \/ state[n] = "Busy" /\ ap[n] = "finish"
    \/ state[n] = "Finished" /\ ap[n] = "halt"
    \/ locked[n] /\ state[n] \in Given /\ AtRest(n)
Exchanging(n) ==
    /\ procedure[n] = "FutureBSPProc"
    /\ (state[n] = "Idle" /\ Awoken(n)) \/ (state[n] = "Busy" /\ ap[n] = "run")
Phases ==
    /\ pc = "exchange" => Exchanging(call.cpu)
    /\ \A n \in Cpu \ Bosses : Phase(n)

\* The APs of the calls of StartupThisAP that are on.
Single(n) == n \in Cpu \ Bosses /\ state[n] \in Given /\ (AllActive => n \notin cpuList)
ThisGiven ==
    /\ \A n \in Cpu : this[n].wait => Single(n)
    /\ pc \in {"wait", "abortWait"} => Single(call.cpu) /\ ~this[call.cpu].wait

\* The APs of the StartupAllAPs that is on.
AllGiven ==
    AllActive =>
        /\ cpuList \subseteq Cpu \ Bosses /\ all.procedure \in {"Task", "Hang"}
        /\ \A n \in cpuList : state[n] \in Given
        /\ all.single =>
             \A n \in cpuList : n # Min(cpuList) => state[n] = "Ready" /\ ap[n] = "halt"
Counted ==
    AllActive /\ pc # "abortAll" =>
        /\ cpuList \subseteq asked /\ asked \subseteq Cpu /\ asked # Cpu
        /\ asked \ cpuList \subseteq done
        /\ all.finish = Cardinality(asked \ cpuList) /\ all.start = Cardinality(asked)
        /\ \A n \in cpuList : state[n] = "Finished" \/ ap[n] = "finish" => n \in done

IInv == TypeOK /\ Control /\ BspRuns /\ Phases /\ ThisGiven /\ AllGiven /\ Counted
---------------------------------------------------------------------------
\* Processors and sets of them.

\* The type of all.
AllClock ==
    [wait : BOOLEAN, expected : Times, total : Nat, single : BOOLEAN, procedure : Procedures,
     start : 0 .. NumberOfProcessors - 1, finish : 0 .. NumberOfProcessors - 1]

\* The processors are finitely many, and a set that lacks one has fewer.
LEMMA CpuSets ==
  /\ Cpu \subseteq Nat
  /\ \A S \in SUBSET Cpu : IsFiniteSet(S) /\ Cardinality(S) \in Nat
  /\ \A S \in SUBSET Cpu : S # Cpu => Cardinality(S) \in 0 .. NumberOfProcessors - 1
<1>1. NumberOfProcessors \in Nat \ {0}
  BY MpAssumption
<1>2. IsFiniteSet(Cpu) /\ Cardinality(Cpu) = NumberOfProcessors
  BY <1>1, FS_Interval DEF Cpu
<1>3. ASSUME NEW S \in SUBSET Cpu
      PROVE  /\ IsFiniteSet(S) /\ Cardinality(S) \in Nat
             /\ S # Cpu => Cardinality(S) \in 0 .. NumberOfProcessors - 1
  <2>1. IsFiniteSet(S) /\ Cardinality(S) <= NumberOfProcessors
        /\ (Cardinality(S) = NumberOfProcessors => S = Cpu)
    BY <1>2, FS_Subset
  <2>2. Cardinality(S) \in Nat
    BY <2>1, FS_CardinalityType
  <2>3. QED
    BY <1>1, <2>1, <2>2
<1>4. QED
  BY <1>1, <1>3 DEF Cpu

\* The least processor of a set, and where a scan for it ends without one.
LEMMA LeastCpu ==
  ASSUME NEW S \in SUBSET Cpu
  PROVE  /\ S # {} => Min(S) \in S /\ \A n \in S : Min(S) <= n
         /\ Min0(S) \in Cpu => Min0(S) \in S
<1>1. S # {} => Min(S) \in S /\ \A n \in S : Min(S) <= n
  BY CpuSets, MinIsLeast
<1>2. NumberOfProcessors \notin Cpu
  BY MpAssumption DEF Cpu
<1>3. QED
  BY <1>1, <1>2 DEF Min0

---------------------------------------------------------------------------
\* The steps of an AP.

LEMMA ApProcEntryInv ==
  ASSUME IInv, NEW n \in Cpu, ApProcEntry(n)
  PROVE  IInv'
<1> USE DEF ApProcEntry, ap_kept, jobs, ghosts, Given, AllActive, Switching, Runner, Bosses
<1>1. TypeOK'
  BY DEF IInv, TypeOK
<1>2. Control'
  BY DEF IInv, Control, Aborted
<1>3. BspRuns'
  BY DEF IInv, TypeOK, Control, BspRuns, CallArguments, NoCall
<1>4. Phases'
  BY DEF IInv, TypeOK, Phases, Phase, Exchanging, AtRest, Awoken, WaitsTurn
<1>5. ThisGiven'
  BY DEF IInv, ThisGiven, Single
<1>6. AllGiven'
  BY DEF IInv, TypeOK, AllGiven
<1>7. Counted'
  BY DEF IInv, TypeOK, Counted
<1>8. QED
  BY <1>1, <1>2, <1>3, <1>4, <1>5, <1>6, <1>7 DEF IInv

\* An AP only finds its lock held after it has been aborted.
LEMMA ApBusyInv ==
  ASSUME IInv, NEW n \in Cpu, ApBusy(n)
  PROVE  IInv'
<1> USE DEF ApBusy, ap_kept, jobs, ghosts, Given, AllActive, Switching, Runner, Bosses
<1>1. TypeOK'
  BY DEF IInv, TypeOK
<1>2. Control'
  BY DEF IInv, Control, Aborted
<1>3. BspRuns'
  BY DEF IInv, TypeOK, Control, BspRuns, CallArguments, NoCall
<1>4. Phases'
  BY DEF IInv, TypeOK, Phases, Phase, Exchanging, AtRest, Awoken, WaitsTurn, None
<1>5. ThisGiven'
  BY DEF IInv, TypeOK, ThisGiven, Single
<1>6. AllGiven'
  BY DEF IInv, TypeOK, AllGiven
<1>7. Counted'
  <2>1. AllActive /\ n \in cpuList => procedure[n] # None
    BY DEF IInv, TypeOK, AllGiven, Phases, Phase, AtRest, None
  <2>2. QED
    BY <2>1 DEF IInv, TypeOK, Counted
<1>8. QED
  BY <1>1, <1>2, <1>3, <1>4, <1>5, <1>6, <1>7 DEF IInv

LEMMA ApReturnsInv ==
  ASSUME IInv, NEW n \in Cpu, ApReturns(n)
  PROVE  IInv'
<1> USE DEF ApReturns, ap_kept, jobs, ghosts, Given, AllActive, Switching, Runner, Bosses
<1>1. TypeOK'
  BY DEF IInv, TypeOK, Procedures
<1>2. Control'
  BY DEF IInv, Control, Aborted
<1>3. BspRuns'
  BY DEF IInv, TypeOK, Control, BspRuns, CallArguments, NoCall
<1>4. Phases'
  BY DEF IInv, TypeOK, Phases, Phase, Exchanging, AtRest, Awoken, WaitsTurn
<1>5. ThisGiven'
  BY DEF IInv, TypeOK, ThisGiven, Single
<1>6. AllGiven'
  BY DEF IInv, TypeOK, AllGiven
<1>7. Counted'
  BY DEF IInv, TypeOK, AllGiven, Counted
<1>8. QED
  BY <1>1, <1>2, <1>3, <1>4, <1>5, <1>6, <1>7 DEF IInv

LEMMA ApFinishedInv ==
  ASSUME IInv, NEW n \in Cpu, ApFinished(n)
  PROVE  IInv'
<1> USE DEF ApFinished, ap_kept, jobs, ghosts, Given, AllActive, Switching, Runner, Bosses
<1>1. TypeOK'
  BY DEF IInv, TypeOK
<1>2. Control'
  BY DEF IInv, Control, Aborted
<1>3. BspRuns'
  BY DEF IInv, TypeOK, Control, BspRuns, CallArguments, NoCall
<1>4. Phases'
  BY DEF IInv, TypeOK, Phases, Phase, Exchanging, AtRest, Awoken, WaitsTurn
<1>5. ThisGiven'
  BY DEF IInv, TypeOK, ThisGiven, Single
<1>6. AllGiven'
  BY DEF IInv, TypeOK, AllGiven
<1>7. Counted'
  BY DEF IInv, TypeOK, AllGiven, Counted
<1>8. QED
  BY <1>1, <1>2, <1>3, <1>4, <1>5, <1>6, <1>7 DEF IInv

---------------------------------------------------------------------------
\* The calls, and the timer.

\* The timer and the two startup calls begin with CheckAndUpdateAPsStatus.
LEMMA UpdateInv ==
  ASSUME IInv, NEW c \in CallArguments \cup {NoCall}, Update(c), calls' \in 0 .. MaxCalls,
         c.kind # "switch", c.kind = "this" => c.cpu # bsp, c.kind = "all" => ~all.wait
  PROVE  IInv'
<1> USE DEF Update, data, jobs, ghosts, Given, AllActive, Switching, Runner, Bosses
<1>1. TypeOK'
  BY DEF IInv, TypeOK
<1>2. Control'
  BY DEF IInv, TypeOK, Control, Aborted, NoCall
<1>3. BspRuns'
  BY DEF IInv, BspRuns
<1>4. Phases'
  BY DEF IInv, Phases, Phase, AtRest, Awoken, WaitsTurn
<1>5. ThisGiven'
  BY DEF IInv, ThisGiven, Single
<1>6. AllGiven'
  BY DEF IInv, AllGiven
<1>7. Counted'
  BY DEF IInv, Counted
<1>8. QED
  BY <1>1, <1>2, <1>3, <1>4, <1>5, <1>6, <1>7 DEF IInv

LEMMA CheckAPsStatusInv ==
  ASSUME IInv, CheckAPsStatus
  PROVE  IInv'
  BY UpdateInv DEF CheckAPsStatus, IInv, TypeOK, NoCall

LEMMA CallStartupAllAPsInv ==
  ASSUME IInv, Orderly, NEW p \in {"Task", "Hang"}, NEW single \in BOOLEAN,
         NEW blocks \in BOOLEAN, NEW t \in Timeouts, CallStartupAllAPs(p, single, blocks, t)
  PROVE  IInv'
<1> DEFINE c == [kind |-> "all", procedure |-> p, single |-> single, blocks |-> blocks,
                 timeout |-> t]
<1>1. c \in CallArguments /\ c.kind = "all"
  BY DEF CallArguments
<1>2. calls' \in 0 .. MaxCalls /\ Update(c) /\ ~all.wait
  BY <1>1, MpAssumption DEF IInv, TypeOK, CallStartupAllAPs, Call, Orderly
<1>3. QED
  BY <1>1, <1>2, UpdateInv

LEMMA CallStartupThisAPInv ==
  ASSUME IInv, NEW p \in {"Task", "Hang"}, NEW n \in Cpu, NEW blocks \in BOOLEAN,
         NEW t \in Timeouts, CallStartupThisAP(p, n, blocks, t)
  PROVE  IInv'
<1> DEFINE c == [kind |-> "this", procedure |-> p, cpu |-> n, blocks |-> blocks, timeout |-> t]
<1>1. c \in CallArguments /\ c.kind = "this" /\ c.cpu = n
  BY DEF CallArguments
<1>2. calls' \in 0 .. MaxCalls /\ Update(c) /\ n # bsp
  BY <1>1, MpAssumption DEF IInv, TypeOK, CallStartupThisAP, Call
<1>3. QED
  BY <1>1, <1>2, UpdateInv

---------------------------------------------------------------------------
\* Waking and aborting APs.

\* What WakeUpAp changes: mApFunction only while no AP is about to read it.
Woken(S, p) ==
    /\ ap' \in [Cpu -> {"bsp", "halt", "sipi", "start", "run", "finish"}]
    /\ procedure' \in [Cpu -> Procedures] /\ mApFunction' \in BOOLEAN
    /\ S = {} => UNCHANGED <<ap, procedure, mApFunction>>
    /\ \A n \in Cpu \ S : ap'[n] = ap[n] /\ procedure'[n] = procedure[n]
    /\ \A n \in S : ap'[n] = "sipi" /\ procedure'[n] = p /\ mApFunction' = TRUE
    /\ mApFunction' # mApFunction => \A n \in Cpu \ S : ap[n] # "sipi"

LEMMA WakeUp ==
  ASSUME TypeOK, Orderly
  PROVE  \A S \in SUBSET Cpu, p \in Procedures : WakeUpAp(S, p) => Woken(S, p)
<1> SUFFICES ASSUME NEW S \in SUBSET Cpu, NEW p \in Procedures, WakeUpAp(S, p)
             PROVE  Woken(S, p)
  OBVIOUS
<1>1. /\ ap' \in [Cpu -> {"bsp", "halt", "sipi", "start", "run", "finish"}]
      /\ procedure' \in [Cpu -> Procedures] /\ mApFunction' \in BOOLEAN
  BY DEF TypeOK, WakeUpAp
<1>2. S = {} => UNCHANGED <<ap, procedure, mApFunction>>
  BY DEF TypeOK, WakeUpAp
<1>3. \A n \in Cpu \ S : ap'[n] = ap[n] /\ procedure'[n] = procedure[n]
  BY DEF WakeUpAp
<1>4. \A n \in S : ap'[n] = "sipi" /\ procedure'[n] = p /\ mApFunction' = TRUE
  BY DEF TypeOK, WakeUpAp
<1>5. mApFunction' # mApFunction => \A n \in Cpu \ S : ap[n] # "sipi"
  BY DEF TypeOK, WakeUpAp, MayWrite, Orderly
<1>6. QED
  BY <1>1, <1>2, <1>3, <1>4, <1>5 DEF Woken

\* What an abort changes, when the AP leaves its lock free and when it does not.
LEMMA Reset ==
  ASSUME TypeOK, Orderly, NEW n \in Cpu, ResetProcessorToIdleState(n)
  PROVE  /\ ~locked[n] /\ mApFunction' = FALSE /\ mApFunction \in BOOLEAN
         /\ mApFunction => \A m \in Cpu \ {n} : ap[m] # "sipi"
         /\ ap' = [ap EXCEPT ![n] = "sipi"] /\ procedure' = procedure
         /\ \/ /\ locked' = [locked EXCEPT ![n] = TRUE] /\ state' = state
               /\ ap[n] \in {"start", "run", "finish"}
            \/ locked' = [locked EXCEPT ![n] = FALSE] /\ state' = [state EXCEPT ![n] = "Idle"]
  BY DEF TypeOK, Orderly, ResetProcessorToIdleState, MayWrite

---------------------------------------------------------------------------
\* CheckAllAPs, the APs of a StartupAllAPs.

LEMMA CheckAllAPsInv ==
  ASSUME IInv, Orderly, CheckAllAPs
  PROVE  IInv'
<1> DEFINE n == Min0({m \in cpuList : m >= at})
           woken == IF all.single THEN GetNextWaitingProcessorNumber(Rest(n)) ELSE {}
<1> USE DEF data, jobs, ghosts, Given, AllActive, Switching, Runner, Bosses
<1>1. TypeOK /\ pc = "all" /\ AllActive /\ cpuList \subseteq Cpu
  BY DEF IInv, TypeOK, CheckAllAPs
<1>2. n \in cpuList /\ n \in Cpu /\ at' = n + 1 /\ at' \in 0 .. NumberOfProcessors
  <2>1. n \in Cpu /\ at' = n + 1
    BY DEF CheckAllAPs
  <2>2. QED
    BY <1>1, <2>1, LeastCpu, MpAssumption DEF Cpu
<1>3. UNCHANGED <<bsp, locked, this, pc, call, calls, ghosts>>
  BY DEF CheckAllAPs
<1>4. CASE ~HasFinished(n)
  <2>1. UNCHANGED <<cpuList, state, all, procedure, mApFunction, ap>>
    BY <1>4 DEF CheckAllAPs
  <2>2. TypeOK'
    BY <1>1, <1>2, <1>3, <2>1 DEF IInv, TypeOK
  <2>3. Control'
    BY <1>1, <1>2, <1>3, <2>1 DEF IInv, TypeOK, Control, Aborted
  <2>4. BspRuns'
    BY <1>1, <1>2, <1>3, <2>1 DEF IInv, TypeOK, BspRuns, Control
  <2>5. Phases'
    BY <1>1, <1>2, <1>3, <2>1
       DEF IInv, TypeOK, Phases, Phase, Exchanging, AtRest, Awoken, WaitsTurn, Control
  <2>6. ThisGiven'
    BY <1>1, <1>2, <1>3, <2>1 DEF IInv, TypeOK, ThisGiven, Single, Control
  <2>7. AllGiven'
    BY <1>1, <1>2, <1>3, <2>1 DEF IInv, TypeOK, AllGiven, Control
  <2>8. Counted'
    BY <1>1, <1>2, <1>3, <2>1 DEF IInv, TypeOK, Counted
  <2>9. QED
    BY <2>2, <2>3, <2>4, <2>5, <2>6, <2>7, <2>8 DEF IInv
<1>5. CASE HasFinished(n)
  <2>1. /\ cpuList' = cpuList \ {n} /\ state' = [state EXCEPT ![n] = "Idle"]
        /\ all' = [all EXCEPT !.finish = @ + 1] /\ WakeUpAp(woken, all.procedure)
        /\ state[n] = "Finished" /\ ~locked[n]
    BY <1>5 DEF CheckAllAPs, Rest, HasFinished
  <2>2. /\ cpuList \subseteq Cpu \ Bosses /\ all.procedure \in {"Task", "Hang"}
        /\ cpuList \subseteq asked /\ asked \subseteq Cpu /\ asked # Cpu
        /\ asked \ cpuList \subseteq done /\ n \in done
        /\ all.finish = Cardinality(asked \ cpuList) /\ all.start = Cardinality(asked)
    BY <1>1, <1>2, <2>1 DEF IInv, AllGiven, Counted
  <2>3. /\ woken \subseteq cpuList \ {n} /\ woken \subseteq Cpu
        /\ all.single => n = Min(cpuList)
        /\ \A m \in cpuList \ {n} : all.single => state[m] = "Ready" /\ ap[m] = "halt"
        /\ \A m \in cpuList \ {n} : all.single => m \in woken \/ m # Min(cpuList \ {n})
        /\ \A m \in woken : all.single /\ m = Min(cpuList \ {n})
    <3>1. all.single => n = Min(cpuList)
      BY <1>1, <1>2, <2>1 DEF IInv, AllGiven
    <3>2. cpuList \ {n} # {} => Min(cpuList \ {n}) \in cpuList \ {n}
      BY <1>1, LeastCpu
    <3>3. woken = IF all.single /\ cpuList \ {n} # {} THEN {Min(cpuList \ {n})} ELSE {}
      BY DEF GetNextWaitingProcessorNumber, Rest
    <3>4. QED
      BY <1>1, <1>2, <3>1, <3>2, <3>3 DEF IInv, AllGiven
  <2> HIDE DEF n, woken
  <2>4. Woken(woken, all.procedure)
    <3>1. all.procedure \in Procedures /\ woken \in SUBSET Cpu
      BY <1>1, <2>3 DEF TypeOK
    <3>2. QED
      BY <1>1, <2>1, <3>1, WakeUp
  <2>5. /\ asked \ cpuList' = (asked \ cpuList) \cup {n}
        /\ all.finish + 1 = Cardinality(asked \ cpuList')
        /\ all.finish + 1 \in 0 .. NumberOfProcessors - 1
    <3>1. asked \ cpuList' = (asked \ cpuList) \cup {n}
      BY <1>2, <2>1, <2>2
    <3>2. IsFiniteSet(asked \ cpuList) /\ Cardinality(asked \ cpuList) \in Nat
      BY <2>2, CpuSets
    <3>3. all.finish + 1 = Cardinality(asked \ cpuList')
      <4>1. n \notin asked \ cpuList
        BY <1>2
      <4>2. Cardinality((asked \ cpuList) \cup {n}) = Cardinality(asked \ cpuList) + 1
        BY <3>2, <4>1, FS_AddElement
      <4>3. QED
        BY <2>2, <3>1, <4>2
    <3>4. (asked \ cpuList') \subseteq Cpu /\ asked \ cpuList' # Cpu
      BY <2>2
    <3>5. QED
      BY <3>1, <3>3, <3>4, CpuSets
  <2>6. ap[n] = "halt" /\ n \notin Bosses /\ ~locked[n]
    BY <1>1, <1>2, <2>1, <2>2 DEF IInv, TypeOK, Phases, Phase
  <2>7. TypeOK'
    BY <1>1, <1>2, <1>3, <2>1, <2>4, <2>5 DEF TypeOK, Woken
  <2>8. Control'
    BY <1>1, <1>3, <2>1 DEF IInv, TypeOK, Control, Aborted
  <2>9. BspRuns'
    BY <1>1, <1>2, <1>3, <2>1, <2>2, <2>3, <2>4 DEF IInv, TypeOK, BspRuns, Woken
  <2>10. Phases'
    <3>1. SUFFICES ASSUME NEW m \in Cpu \ Bosses
                   PROVE  Phase(m)'
      BY <1>1, <1>3 DEF Phases
    <3>2. CASE m = n
      BY <1>1, <1>2, <2>1, <2>3, <2>4, <2>6, <3>2 DEF TypeOK, Phase, AtRest, Woken
    <3>3. CASE m \in woken
      BY <1>1, <1>2, <2>1, <2>2, <2>3, <2>4, <3>3 DEF TypeOK, Phase, Awoken, Woken
    <3>4. CASE m \notin woken /\ m # n
      <4>1. ap'[m] = ap[m] /\ procedure'[m] = procedure[m] /\ state'[m] = state[m]
        BY <1>1, <2>1, <2>4, <3>4 DEF TypeOK, Woken
      <4>2. Phase(m)
        BY <3>1 DEF IInv, Phases
      <4>3. AtRest(m) => AtRest(m)'
        BY <1>1, <2>4, <3>4, <4>1 DEF TypeOK, AtRest, Woken
      <4>4. Awoken(m) => Awoken(m)'
        BY <1>1, <2>4, <3>4, <4>1 DEF TypeOK, Awoken, Woken
      <4>5. WaitsTurn(m) => WaitsTurn(m)'
        BY <1>1, <1>3, <2>1, <2>3, <3>4 DEF TypeOK, WaitsTurn
      <4>6. QED
        BY <1>3, <4>1, <4>2, <4>3, <4>4, <4>5 DEF Phase
    <3>5. QED
      BY <3>2, <3>3, <3>4
  <2>11. ThisGiven'
    BY <1>1, <1>2, <1>3, <2>1 DEF IInv, TypeOK, ThisGiven, Single
  <2>12. AllGiven'
    BY <1>1, <1>2, <1>3, <2>1, <2>2, <2>3, <2>4 DEF IInv, TypeOK, AllGiven, Woken
  <2>13. Counted'
    BY <1>1, <1>2, <1>3, <2>1, <2>2, <2>3, <2>4, <2>5 DEF IInv, TypeOK, Counted, Woken
  <2>14. QED
    BY <2>7, <2>8, <2>9, <2>10, <2>11, <2>12, <2>13 DEF IInv
<1>6. QED
  BY <1>4, <1>5

\* A reading of the clock keeps it within the time limit, or is a timeout.
LEMMA Clocks ==
  ASSUME TypeOK
  PROVE  /\ ~CheckTimeout(all) =>
              \/ Advance(all) = all
              \/ /\ Advance(all) = [all EXCEPT !.total = all.total + 1]
                 /\ all.total + 1 <= all.expected
         /\ \A n \in Cpu : ~CheckTimeout(this[n]) =>
              \/ Advance(this[n]) = this[n]
              \/ /\ Advance(this[n]) = [this[n] EXCEPT !.total = this[n].total + 1]
                 /\ this[n].total + 1 <= this[n].expected
<1>1. Times \subseteq Nat
  BY MpAssumption DEF Times
<1>2. ASSUME NEW n \in Cpu, ~CheckTimeout(this[n]), this[n].expected # 0
      PROVE  this[n].total + 1 <= this[n].expected
  <2>1. this[n] \in [wait : BOOLEAN, expected : Times, total : Nat]
    BY DEF TypeOK
  <2>2. Advance(this[n]).total = this[n].total + 1
    BY <1>2, <2>1 DEF Advance
  <2>3. ~(this[n].total + 1 > this[n].expected)
    BY <1>2, <2>2 DEF CheckTimeout
  <2>4. this[n].total \in Nat /\ this[n].expected \in Nat
    BY <1>1, <2>1
  <2>5. QED
    BY <2>3, <2>4
<1>3. ASSUME ~CheckTimeout(all), all.expected # 0
      PROVE  all.total + 1 <= all.expected
  <2>1. Advance(all).total = all.total + 1 /\ all.total \in Nat /\ all.expected \in Nat
    BY <1>1, <1>3 DEF Advance, TypeOK
  <2>2. QED
    BY <1>3, <2>1 DEF CheckTimeout
<1>4. QED
  BY <1>2, <1>3 DEF Advance

\* When as many have finished as were started, none is left in the list.
LEMMA AllCheckedInv ==
  ASSUME IInv, Orderly, AllChecked
  PROVE  IInv'
<1> USE DEF data, jobs, ghosts, Given, AllActive, Switching, Runner, Bosses
<1>1. TypeOK /\ pc = "all" /\ AllActive
      /\ UNCHANGED <<bsp, data, this, cpuList, mApFunction, ap, calls, ghosts>>
  BY DEF IInv, AllChecked
<1>2. all.finish = all.start => cpuList = {}
  <2>1. /\ cpuList \subseteq asked /\ asked \subseteq Cpu
        /\ all.finish = Cardinality(asked \ cpuList) /\ all.start = Cardinality(asked)
    BY <1>1 DEF IInv, Counted
  <2>2. IsFiniteSet(asked) /\ (asked \ cpuList) \in SUBSET asked
    BY <2>1, CpuSets
  <2>3. Cardinality(asked) = Cardinality(asked \ cpuList) => asked = asked \ cpuList
    BY <2>2, FS_Subset
  <2>4. QED
    BY <2>1, <2>3
<1>3. CASE all.finish = all.start
  <2>1. /\ pc' = (IF InLoop THEN "idle" ELSE "each") /\ at' = 0
        /\ call' = (IF InLoop THEN NoCall ELSE call) /\ all' = [all EXCEPT !.wait = FALSE]
    BY <1>3 DEF AllChecked, AllReady, Goto
  <2>2. cpuList = {}
    BY <1>2, <1>3
  <2>3. TypeOK'
    <3>1. all'.total <= all'.expected /\ all' \in AllClock
      BY <1>1, <2>1 DEF TypeOK, AllClock
    <3>2. call' \in CallArguments \cup {NoCall}
      BY <1>1, <2>1 DEF TypeOK
    <3>3. at' \in 0 .. NumberOfProcessors /\ pc' \in {"idle", "each"}
      BY <1>1, <2>1, MpAssumption
    <3>4. QED
      BY <1>1, <2>1, <3>1, <3>2, <3>3 DEF TypeOK, AllClock
  <2>4. Control'
    BY <1>1, <2>1, <2>2 DEF IInv, TypeOK, Control, Aborted, InLoop, NoCall
  <2>5. BspRuns'
    BY <1>1, <2>1, <2>2 DEF IInv, TypeOK, BspRuns, Control, InLoop, NoCall
  <2>6. Phases'
    BY <1>1, <2>1, <2>2
       DEF IInv, TypeOK, Phases, Phase, Exchanging, AtRest, Awoken, WaitsTurn, Control, InLoop, NoCall
  <2>7. ThisGiven'
    BY <1>1, <2>1, <2>2 DEF IInv, TypeOK, ThisGiven, Single, Control, InLoop, NoCall
  <2>8. AllGiven'
    BY <1>1, <2>1, <2>2 DEF IInv, TypeOK, AllGiven, Control, InLoop, NoCall
  <2>9. Counted'
    BY <1>1, <2>1, <2>2 DEF IInv, TypeOK, Counted, InLoop, NoCall
  <2>10. QED
    BY <2>3, <2>4, <2>5, <2>6, <2>7, <2>8, <2>9 DEF IInv
<1>4. CASE all.finish # all.start /\ CheckTimeout(all)
  <2>1. pc' = "abortAll" /\ call' = call /\ at' = 0 /\ all' = all
    BY <1>4 DEF AllChecked, Goto
  <2>2. TypeOK'
    BY <1>1, <2>1, MpAssumption DEF IInv, TypeOK
  <2>3. Control'
    BY <1>1, <2>1 DEF IInv, TypeOK, Control, Aborted
  <2>4. BspRuns'
    BY <1>1, <2>1 DEF IInv, TypeOK, BspRuns, Control
  <2>5. Phases'
    BY <1>1, <2>1
       DEF IInv, TypeOK, Phases, Phase, Exchanging, AtRest, Awoken, WaitsTurn, Control
  <2>6. ThisGiven'
    BY <1>1, <2>1 DEF IInv, TypeOK, ThisGiven, Single, Control
  <2>7. AllGiven'
    BY <1>1, <2>1 DEF IInv, TypeOK, AllGiven, Control
  <2>8. Counted'
    BY <1>1, <2>1 DEF IInv, TypeOK, Counted
  <2>9. QED
    BY <2>2, <2>3, <2>4, <2>5, <2>6, <2>7, <2>8 DEF IInv
<1>5. CASE all.finish # all.start /\ ~CheckTimeout(all)
  <2>1. /\ pc' = (IF InLoop THEN "all" ELSE "each") /\ call' = call /\ at' = 0
        /\ all' = Advance(all)
    BY <1>5 DEF AllChecked, AllNotReady, Goto
  <2>2. \/ all' = all
        \/ all' = [all EXCEPT !.total = all.total + 1] /\ all.total + 1 <= all.expected
    BY <1>1, <1>5, <2>1, Clocks
  <2>3. TypeOK'
    BY <1>1, <2>1, <2>2, MpAssumption DEF IInv, TypeOK, InLoop
  <2>4. Control'
    BY <1>1, <2>1, <2>2 DEF IInv, TypeOK, Control, Aborted, InLoop
  <2>5. BspRuns'
    BY <1>1, <2>1, <2>2 DEF IInv, TypeOK, BspRuns, Control, InLoop
  <2>6. Phases'
    BY <1>1, <2>1, <2>2
       DEF IInv, TypeOK, Phases, Phase, Exchanging, AtRest, Awoken, WaitsTurn, Control, InLoop
  <2>7. ThisGiven'
    BY <1>1, <2>1, <2>2 DEF IInv, TypeOK, ThisGiven, Single, Control, InLoop
  <2>8. AllGiven'
    BY <1>1, <2>1, <2>2 DEF IInv, TypeOK, AllGiven, Control, InLoop
  <2>9. Counted'
    BY <1>1, <2>1, <2>2 DEF IInv, TypeOK, Counted, InLoop
  <2>10. QED
    BY <2>3, <2>4, <2>5, <2>6, <2>7, <2>8, <2>9 DEF IInv
<1>6. QED
  BY <1>3, <1>4, <1>5

LEMMA AbortAllInv ==
  ASSUME IInv, Orderly, AbortAll
  PROVE  IInv'
<1> USE DEF data, jobs, ghosts, Given, AllActive, Switching, Runner, Bosses
<1>1. TypeOK /\ pc = "abortAll" /\ UNCHANGED <<bsp, this, calls, ghosts>>
  BY DEF IInv, AbortAll
<1>2. CASE cpuList = {}
  <2>1. /\ pc' = (IF InLoop THEN "idle" ELSE "each") /\ at' = 0
        /\ call' = (IF InLoop THEN NoCall ELSE call) /\ all' = [all EXCEPT !.wait = FALSE]
        /\ UNCHANGED <<data, mApFunction, ap, cpuList>>
    BY <1>2 DEF AbortAll, AllReady, Goto
  <2>2. TypeOK'
    <3>1. all'.total <= all'.expected /\ all' \in AllClock
      BY <1>1, <2>1 DEF TypeOK, AllClock
    <3>2. call' \in CallArguments \cup {NoCall}
      BY <1>1, <2>1 DEF TypeOK
    <3>3. at' \in 0 .. NumberOfProcessors /\ pc' \in {"idle", "each"}
      BY <1>1, <2>1, MpAssumption
    <3>4. QED
      BY <1>1, <2>1, <3>1, <3>2, <3>3 DEF TypeOK, AllClock
  <2>3. Control'
    BY <1>1, <1>2, <2>1 DEF IInv, TypeOK, Control, Aborted, InLoop, NoCall
  <2>4. BspRuns'
    BY <1>1, <1>2, <2>1 DEF IInv, TypeOK, BspRuns, Control, InLoop, NoCall
  <2>5. Phases'
    BY <1>1, <1>2, <2>1
       DEF IInv, TypeOK, Phases, Phase, Exchanging, AtRest, Awoken, WaitsTurn, Control, InLoop, NoCall
  <2>6. ThisGiven'
    BY <1>1, <1>2, <2>1 DEF IInv, TypeOK, ThisGiven, Single, Control, InLoop, NoCall
  <2>7. AllGiven'
    BY <1>1, <1>2, <2>1 DEF IInv, TypeOK, AllGiven, Control, InLoop, NoCall
  <2>8. Counted'
    BY <1>1, <1>2, <2>1 DEF IInv, TypeOK, Counted, InLoop, NoCall
  <2>9. QED
    BY <2>2, <2>3, <2>4, <2>5, <2>6, <2>7, <2>8 DEF IInv
<1>3. CASE cpuList # {}
  <2> DEFINE n == Min(cpuList)
  <2>1. n \in cpuList /\ cpuList \subseteq Cpu \ Bosses /\ n \in Cpu
    BY <1>1, <1>3, LeastCpu DEF IInv, TypeOK, AllGiven
  <2>2. /\ ResetProcessorToIdleState(n) /\ UNCHANGED <<pc, call, at, all>>
        /\ cpuList' = IF locked'[n] THEN cpuList ELSE cpuList \ {n}
    BY <1>3 DEF AbortAll
  <2>3. \A m \in Cpu : ~locked[m]
    BY <1>1, <2>2 DEF IInv, Control, Aborted, ResetProcessorToIdleState
  <2> HIDE DEF n
  <2>4. /\ mApFunction' = FALSE /\ (mApFunction => \A m \in Cpu \ {n} : ap[m] # "sipi")
        /\ mApFunction \in BOOLEAN
        /\ ap' = [ap EXCEPT ![n] = "sipi"] /\ procedure' = procedure
        /\ \/ /\ locked' = [locked EXCEPT ![n] = TRUE] /\ state' = state /\ cpuList' = cpuList
           \/ /\ locked' = [locked EXCEPT ![n] = FALSE] /\ state' = [state EXCEPT ![n] = "Idle"]
              /\ cpuList' = cpuList \ {n}
    <3>1. ResetProcessorToIdleState(n) /\ n \in Cpu /\ TypeOK
      BY <1>1, <2>1, <2>2
    <3>2. locked \in [Cpu -> BOOLEAN]
      BY <1>1 DEF TypeOK
    <3>3. /\ mApFunction' = FALSE /\ (mApFunction => \A m \in Cpu \ {n} : ap[m] # "sipi")
          /\ mApFunction \in BOOLEAN
          /\ ap' = [ap EXCEPT ![n] = "sipi"] /\ procedure' = procedure
          /\ \/ locked' = [locked EXCEPT ![n] = TRUE] /\ state' = state
             \/ locked' = [locked EXCEPT ![n] = FALSE] /\ state' = [state EXCEPT ![n] = "Idle"]
      BY <3>1, Reset
    <3>4. QED
      BY <2>1, <2>2, <3>2, <3>3
  <2>5. TypeOK'
    <3>1. state' \in [Cpu -> {"Idle", "Ready", "Busy", "Finished", "Disabled"}]
      BY <1>1, <2>1, <2>4 DEF TypeOK
    <3>2. locked' \in [Cpu -> BOOLEAN]
      BY <1>1, <2>1, <2>4 DEF TypeOK
    <3>3. /\ ap' \in [Cpu -> {"bsp", "halt", "sipi", "start", "run", "finish"}]
          /\ cpuList' \subseteq Cpu
      BY <1>1, <2>1, <2>4 DEF TypeOK
    <3>4. QED
      BY <1>1, <2>2, <2>4, <3>1, <3>2, <3>3 DEF TypeOK
  <2>6. Control'
    BY <1>1, <2>1, <2>2, <2>3, <2>4 DEF IInv, TypeOK, Control, Aborted, n
  <2>7. BspRuns'
    BY <1>1, <2>1, <2>2, <2>4 DEF IInv, TypeOK, BspRuns
  <2>8. Phases'
    BY <1>1, <2>1, <2>2, <2>3, <2>4
       DEF IInv, TypeOK, Phases, Phase, AllGiven, AtRest, Awoken, WaitsTurn
  <2>9. ThisGiven'
    BY <1>1, <2>1, <2>2, <2>4 DEF IInv, TypeOK, ThisGiven, Single
  <2>10. AllGiven'
    BY <1>1, <2>1, <2>2, <2>4 DEF IInv, TypeOK, AllGiven, n
  <2>11. Counted'
    BY <1>1, <2>2 DEF Counted
  <2>12. QED
    BY <2>5, <2>6, <2>7, <2>8, <2>9, <2>10, <2>11 DEF IInv
<1>4. QED
  BY <1>2, <1>3

---------------------------------------------------------------------------
\* CheckThisAP and its abort, the APs of StartupThisAP.

LEMMA CheckThisAPInv ==
  ASSUME IInv, Orderly, CheckThisAP
  PROVE  IInv'
<1> DEFINE n == IF pc = "wait" THEN call.cpu ELSE Min0(Waiting)
<1> USE DEF data, jobs, ghosts, Given, AllActive, Switching, Runner, Bosses
<1>1. /\ TypeOK /\ pc \in {"each", "wait"} /\ n \in Cpu
      /\ UNCHANGED <<bsp, procedure, locked, all, cpuList, mApFunction, ap, calls, ghosts>>
  BY DEF IInv, CheckThisAP
<1>2. Single(n) /\ (pc = "each" => this[n].wait) /\ n + 1 \in 0 .. NumberOfProcessors
  <2>1. pc = "wait" => Single(n)
    BY DEF IInv, ThisGiven
  <2>2. pc = "each" => n \in Waiting
    BY <1>1, LeastCpu DEF Waiting
  <2>3. n + 1 \in 0 .. NumberOfProcessors
    BY <1>1, MpAssumption DEF Cpu
  <2>4. QED
    BY <1>1, <2>1, <2>2, <2>3 DEF IInv, ThisGiven, Waiting
<1>3. CASE HasFinished(n)
  <2>1. /\ state' = [state EXCEPT ![n] = "Idle"] /\ this' = [this EXCEPT ![n].wait = FALSE]
        /\ state[n] = "Finished"
        /\ pc' = (IF pc = "wait" THEN "idle" ELSE pc)
        /\ call' = (IF pc = "wait" THEN NoCall ELSE call)
        /\ at' = (IF pc = "wait" THEN 0 ELSE n + 1)
    BY <1>1, <1>3 DEF CheckThisAP, HasFinished, NextCheck, Goto
  <2> HIDE DEF n
  <2>2. TypeOK'
    <3>1. /\ this' \in [Cpu -> [wait : BOOLEAN, expected : Times, total : Nat]]
          /\ \A m \in Cpu : this'[m].total <= this'[m].expected
      <4>1. /\ this' = [this EXCEPT ![n].wait = FALSE] /\ n \in Cpu
            /\ this \in [Cpu -> [wait : BOOLEAN, expected : Times, total : Nat]]
            /\ \A m \in Cpu : this[m].total <= this[m].expected
        BY <1>1, <2>1 DEF TypeOK
      <4>2. QED
        BY <4>1
    <3>2. at' \in 0 .. NumberOfProcessors
      BY <1>2, <2>1, MpAssumption
    <3>3. QED
      BY <1>1, <2>1, <3>1, <3>2 DEF TypeOK
  <2>3. Control'
    BY <1>1, <1>2, <2>1 DEF IInv, TypeOK, Control, Aborted, NoCall
  <2>4. BspRuns'
    BY <1>1, <1>2, <2>1 DEF IInv, TypeOK, BspRuns, Single
  <2>5. Phases'
    BY <1>1, <1>2, <2>1
       DEF IInv, TypeOK, Control, Phases, Phase, AtRest, Awoken, WaitsTurn, Single, Aborted
  <2>6. ThisGiven'
    BY <1>1, <1>2, <2>1 DEF IInv, TypeOK, ThisGiven, Single
  <2>7. AllGiven'
    BY <1>1, <1>2, <2>1 DEF IInv, TypeOK, AllGiven, Single
  <2>8. Counted'
    BY <1>1, <1>2, <2>1 DEF IInv, TypeOK, Counted, Single
  <2>9. QED
    BY <2>2, <2>3, <2>4, <2>5, <2>6, <2>7, <2>8 DEF IInv
<1>4. CASE ~HasFinished(n) /\ CheckTimeout(this[n])
  <2>1. /\ UNCHANGED <<state, this>> /\ at' = n /\ call' = call
        /\ pc' = IF pc = "wait" THEN "abortWait" ELSE "abortEach"
    BY <1>1, <1>4 DEF CheckThisAP, Goto
  <2> HIDE DEF n
  <2>2. TypeOK'
    BY <1>1, <2>1, MpAssumption DEF TypeOK, Cpu
  <2>3. pc = "wait" => n = call.cpu
    BY DEF n
  <2>4. TypeOK'
    BY <1>1, <1>2, <2>1, <2>2, <2>3 DEF IInv, TypeOK
  <2>5. Control'
    BY <1>1, <1>2, <2>1, <2>2, <2>3 DEF IInv, TypeOK, Control, Aborted
  <2>6. BspRuns'
    BY <1>1, <1>2, <2>1, <2>2, <2>3 DEF IInv, TypeOK, BspRuns, Control
  <2>7. Phases'
    BY <1>1, <1>2, <2>1, <2>2, <2>3
       DEF IInv, TypeOK, Phases, Phase, Exchanging, AtRest, Awoken, WaitsTurn, Control
  <2>8. ThisGiven'
    BY <1>1, <1>2, <2>1, <2>2, <2>3 DEF IInv, TypeOK, ThisGiven, Single, Control
  <2>9. AllGiven'
    BY <1>1, <1>2, <2>1, <2>2, <2>3 DEF IInv, TypeOK, AllGiven, Control
  <2>10. Counted'
    BY <1>1, <1>2, <2>1, <2>2, <2>3 DEF IInv, TypeOK, Counted
  <2>11. QED
    BY <2>4, <2>5, <2>6, <2>7, <2>8, <2>9, <2>10 DEF IInv
<1>5. CASE ~HasFinished(n) /\ ~CheckTimeout(this[n])
  <2>1. /\ UNCHANGED <<state, pc, call>> /\ this' = [this EXCEPT ![n] = Advance(@)]
        /\ at' = (IF pc = "wait" THEN 0 ELSE n + 1)
    BY <1>1, <1>5 DEF CheckThisAP, NextCheck, Goto
  <2> HIDE DEF n
  <2>2. \/ this' = this
        \/ /\ this' = [this EXCEPT ![n].total = @ + 1]
           /\ this[n].total + 1 <= this[n].expected
    BY <1>1, <1>5, <2>1, Clocks DEF TypeOK
  <2>3. TypeOK'
    BY <1>1, <1>2, <2>1, <2>2, MpAssumption DEF TypeOK
  <2>4. \A m \in Cpu : this'[m].wait = this[m].wait
    BY <1>1, <2>1, <2>2 DEF TypeOK
  <2>5. TypeOK'
    BY <1>1, <2>1, <2>3, <2>4 DEF IInv, TypeOK
  <2>6. Control'
    BY <1>1, <2>1, <2>3, <2>4 DEF IInv, TypeOK, Control, Aborted
  <2>7. BspRuns'
    BY <1>1, <2>1, <2>3, <2>4 DEF IInv, TypeOK, BspRuns, Control
  <2>8. Phases'
    BY <1>1, <2>1, <2>3, <2>4
       DEF IInv, TypeOK, Phases, Phase, Exchanging, AtRest, Awoken, WaitsTurn, Control
  <2>9. ThisGiven'
    BY <1>1, <2>1, <2>3, <2>4 DEF IInv, TypeOK, ThisGiven, Single, Control
  <2>10. AllGiven'
    BY <1>1, <2>1, <2>3, <2>4 DEF IInv, TypeOK, AllGiven, Control
  <2>11. Counted'
    BY <1>1, <2>1, <2>3, <2>4 DEF IInv, TypeOK, Counted
  <2>12. QED
    BY <2>5, <2>6, <2>7, <2>8, <2>9, <2>10, <2>11 DEF IInv
<1>6. QED
  BY <1>3, <1>4, <1>5

LEMMA AbortThisInv ==
  ASSUME IInv, Orderly, AbortThis
  PROVE  IInv'
<1> USE DEF data, jobs, ghosts, Given, AllActive, Switching, Runner, Bosses
<1>1. /\ TypeOK /\ pc \in {"abortEach", "abortWait"} /\ ResetProcessorToIdleState(at)
      /\ UNCHANGED <<bsp, all, cpuList, calls, ghosts>>
  BY DEF IInv, AbortThis
<1>2. at \in Cpu /\ Single(at) /\ (pc = "abortWait" => at = call.cpu /\ call.kind = "this")
  BY <1>1 DEF IInv, Control, ThisGiven, Single
<1>3. \A m \in Cpu : ~locked[m]
  BY <1>1 DEF IInv, Control, Aborted, ResetProcessorToIdleState
<1>4. /\ mApFunction' = FALSE /\ (mApFunction => \A m \in Cpu \ {at} : ap[m] # "sipi")
      /\ mApFunction \in BOOLEAN /\ ap' = [ap EXCEPT ![at] = "sipi"] /\ procedure' = procedure
  BY <1>1, <1>2, Reset
<1>5. CASE locked'[at]
  <2>1. locked' = [locked EXCEPT ![at] = TRUE] /\ state' = state
    BY <1>1, <1>2, <1>5, Reset DEF TypeOK
  <2>2. UNCHANGED <<pc, call, at, this>>
    BY <1>5 DEF AbortThis
  <2>3. TypeOK'
    BY <1>1, <1>2, <1>4, <2>1, <2>2 DEF TypeOK
  <2>4. Control'
    BY <1>1, <1>2, <1>3, <2>1, <2>2 DEF IInv, TypeOK, Control, Aborted
  <2>5. BspRuns'
    BY <1>1, <1>2, <1>4, <2>1, <2>2 DEF IInv, TypeOK, BspRuns, Single
  <2>6. Phases'
    BY <1>1, <1>2, <1>3, <1>4, <2>1, <2>2
       DEF IInv, TypeOK, Phases, Phase, AtRest, Awoken, WaitsTurn, Single
  <2>7. ThisGiven'
    BY <1>1, <2>1, <2>2 DEF IInv, ThisGiven, Single
  <2>8. AllGiven'
    BY <1>1, <1>2, <1>4, <2>1, <2>2 DEF IInv, TypeOK, AllGiven, Single
  <2>9. Counted'
    BY <1>1, <1>2, <1>4, <2>1, <2>2 DEF IInv, TypeOK, Counted, Single
  <2>10. QED
    BY <2>3, <2>4, <2>5, <2>6, <2>7, <2>8, <2>9 DEF IInv
<1>6. CASE ~locked'[at]
  <2>1. locked' = [locked EXCEPT ![at] = FALSE] /\ state' = [state EXCEPT ![at] = "Idle"]
    BY <1>1, <1>2, <1>6, Reset DEF TypeOK
  <2>2. /\ this' = [this EXCEPT ![at].wait = FALSE]
        /\ pc' = (IF pc = "abortWait" THEN "idle" ELSE "each")
        /\ call' = (IF pc = "abortWait" THEN NoCall ELSE call)
        /\ at' = (IF pc = "abortWait" THEN 0 ELSE at + 1)
    BY <1>1, <1>6 DEF AbortThis, Goto
  <2>3. TypeOK'
    <3>1. /\ this' \in [Cpu -> [wait : BOOLEAN, expected : Times, total : Nat]]
          /\ \A m \in Cpu : this'[m].total <= this'[m].expected
      BY <1>1, <1>2, <2>2 DEF TypeOK
    <3>2. at' \in 0 .. NumberOfProcessors
      BY <1>2, <2>2, MpAssumption DEF Cpu
    <3>3. QED
      BY <1>1, <1>2, <1>4, <2>1, <2>2, <3>1, <3>2 DEF TypeOK
  <2>4. Control'
    BY <1>1, <1>2, <1>3, <2>1, <2>2 DEF IInv, TypeOK, Control, Aborted, NoCall
  <2>5. BspRuns'
    BY <1>1, <1>2, <1>4, <2>1, <2>2 DEF IInv, TypeOK, BspRuns, Single
  <2>6. Phases'
    BY <1>1, <1>2, <1>3, <1>4, <2>1, <2>2
       DEF IInv, TypeOK, Control, Phases, Phase, AtRest, Awoken, WaitsTurn, Single
  <2>7. ThisGiven'
    BY <1>1, <1>2, <2>1, <2>2 DEF IInv, TypeOK, ThisGiven, Single
  <2>8. AllGiven'
    BY <1>1, <1>2, <1>4, <2>1, <2>2 DEF IInv, TypeOK, AllGiven, Single
  <2>9. Counted'
    BY <1>1, <1>2, <1>4, <2>1, <2>2 DEF IInv, TypeOK, Counted, Single
  <2>10. QED
    BY <2>3, <2>4, <2>5, <2>6, <2>7, <2>8, <2>9 DEF IInv
<1>7. QED
  BY <1>5, <1>6

LEMMA AllUpdatedInv ==
  ASSUME IInv, AllUpdated
  PROVE  IInv'
<1> USE DEF AllUpdated, Goto, data, jobs, ghosts, Given, AllActive, Switching, Runner, Bosses
<1>1. TypeOK'
  BY MpAssumption DEF IInv, TypeOK
<1>2. Control'
  BY DEF IInv, TypeOK, Control, Aborted, NoCall, CallArguments
<1>3. BspRuns'
  BY DEF IInv, BspRuns
<1>4. Phases'
  BY DEF IInv, Phases, Phase, AtRest, Awoken, WaitsTurn
<1>5. ThisGiven'
  BY DEF IInv, ThisGiven, Single
<1>6. AllGiven'
  BY DEF IInv, AllGiven
<1>7. Counted'
  BY DEF IInv, Counted
<1>8. QED
  BY <1>1, <1>2, <1>3, <1>4, <1>5, <1>6, <1>7 DEF IInv

---------------------------------------------------------------------------
\* The calls after their update.

\* The arguments of each call.
LEMMA Arguments ==
  ASSUME TypeOK
  PROVE  /\ call.kind = "all" => /\ call.procedure \in {"Task", "Hang"}
                                 /\ call.single \in BOOLEAN /\ call.blocks \in BOOLEAN
                                 /\ call.timeout \in Times /\ call.timeout \in Nat
         /\ call.kind = "this" => /\ call.procedure \in {"Task", "Hang"}
                                  /\ call.cpu \in Cpu /\ call.blocks \in BOOLEAN
                                  /\ call.timeout \in Times /\ call.timeout \in Nat
         /\ call.kind = "switch" => call.cpu \in Cpu /\ call.enable \in BOOLEAN
<1>1. Timeouts \subseteq Times /\ Timeouts \subseteq Nat
  BY MpAssumption DEF Times
<1>2. call \in CallArguments \cup {NoCall}
  BY DEF TypeOK
<1>3. ASSUME call.kind = "all"
      PROVE  call \in [kind : {"all"}, procedure : {"Task", "Hang"}, single : BOOLEAN,
                       blocks : BOOLEAN, timeout : Timeouts]
  BY <1>2, <1>3 DEF CallArguments, NoCall
<1>4. ASSUME call.kind = "this"
      PROVE  call \in [kind : {"this"}, procedure : {"Task", "Hang"}, cpu : Cpu,
                       blocks : BOOLEAN, timeout : Timeouts]
  BY <1>2, <1>4 DEF CallArguments, NoCall
<1>5. ASSUME call.kind = "switch"
      PROVE  call \in [kind : {"switch"}, cpu : Cpu, enable : BOOLEAN]
  BY <1>2, <1>5 DEF CallArguments, NoCall
<1>6. QED
  BY <1>1, <1>3, <1>4, <1>5

LEMMA StartupAllAPsInv ==
  ASSUME IInv, Orderly, StartupAllAPs
  PROVE  IInv'
<1> DEFINE notIdle == {n \in Enabled : state[n] # "Idle"}
           woken == IF call.single /\ Enabled # {} THEN {Min(Enabled)} ELSE Enabled
           types == {"bsp", "halt", "sipi", "start", "run", "finish"}
<1> USE DEF data, jobs, ghosts, Given, AllActive, Switching, Runner, Bosses
<1>1. /\ TypeOK /\ pc = "start" /\ call.kind = "all" /\ ~all.wait /\ Bosses = {bsp}
      /\ UNCHANGED <<bsp, locked, this, at, calls>>
  BY DEF IInv, Control, StartupAllAPs
<1>2. /\ Enabled \subseteq Cpu /\ Enabled = {n \in Cpu \ {bsp} : state[n] # "Disabled"}
      /\ bsp \in Cpu /\ bsp \notin Enabled /\ \A n \in Cpu : ~locked[n]
  BY <1>1 DEF IInv, TypeOK, Control, Aborted, Enabled
<1>3. CASE notIdle # {}
  <2>1. /\ cpuList' \subseteq Enabled \cup cpuList /\ pc' = "idle" /\ call' = NoCall
        /\ UNCHANGED <<state, procedure, mApFunction, ap, all, ghosts>>
    BY <1>3 DEF StartupAllAPs, Goto
  <2>2. TypeOK'
    BY <1>1, <1>2, <2>1 DEF TypeOK
  <2>3. QED
    BY <1>1, <1>2, <2>1, <2>2
       DEF IInv, TypeOK, Control, BspRuns, Phases, ThisGiven, AllGiven, Counted, Aborted, Phase,
           AtRest, Awoken, WaitsTurn, Single, NoCall
<1>4. CASE notIdle = {}
  <2>1. /\ cpuList' = Enabled /\ asked' = Enabled /\ done' = {}
        /\ state' = [n \in Cpu |-> IF n \in Enabled THEN "Ready" ELSE state[n]]
        /\ WakeUpAp(woken, call.procedure)
        /\ pc' = (IF call.blocks /\ Enabled # {} THEN "all" ELSE "idle")
        /\ call' = (IF call.blocks /\ Enabled # {} THEN call ELSE NoCall)
        /\ all' = IF Enabled = {}
                  THEN [all EXCEPT !.start = Cardinality(Enabled), !.finish = 0]
                  ELSE [all EXCEPT !.start = Cardinality(Enabled), !.finish = 0,
                                   !.wait = ~call.blocks, !.expected = call.timeout,
                                   !.total = 0, !.single = call.single,
                                   !.procedure = call.procedure]
    BY <1>4 DEF StartupAllAPs, Goto, Counters
  <2>2. /\ Cardinality(Enabled) \in 0 .. NumberOfProcessors - 1
        /\ 0 \in 0 .. NumberOfProcessors - 1
    BY <1>2, CpuSets, MpAssumption
  <2>3. /\ woken \subseteq Enabled /\ (Enabled # {} => woken # {})
        /\ \A n \in Enabled : n \in woken \/ (call.single /\ n # Min(Enabled))
        /\ call.single => \A n \in woken : n = Min(Enabled)
    BY <1>1, <1>2, LeastCpu, Arguments
  <2> HIDE DEF woken
  <2>4. \A n \in Enabled : state[n] = "Idle" /\ AtRest(n)
    BY <1>1, <1>2, <1>4 DEF IInv, TypeOK, Phases, Phase
  <2>5. Woken(woken, call.procedure)
    <3>1. woken \in SUBSET Cpu /\ call.procedure \in Procedures
      BY <1>1, <1>2, <2>3, Arguments DEF Procedures
    <3>2. QED
      BY <1>1, <2>1, <3>1, WakeUp
  <2>6. TypeOK'
    <3>1. all' \in AllClock /\ all'.total <= all'.expected
      <4>1. CASE Enabled = {}
        BY <1>1, <2>1, <2>2, <4>1 DEF TypeOK, AllClock
      <4>2. CASE Enabled # {}
        <5>1. all'.total = 0 /\ all'.expected = call.timeout
          BY <1>1, <2>1, <4>2 DEF TypeOK
        <5>2. QED
          <6>1. /\ call.procedure \in Procedures /\ call.single \in BOOLEAN
                /\ call.blocks \in BOOLEAN /\ call.timeout \in Times
                /\ call.timeout \in Nat
            BY <1>1, Arguments DEF Procedures
          <6>2. all \in AllClock
            BY <1>1 DEF TypeOK, AllClock
          <6>3. all' \in AllClock
            BY <2>1, <2>2, <4>2, <6>1, <6>2 DEF AllClock
          <6>4. QED
            BY <5>1, <6>1, <6>3
      <4>3. QED
        BY <4>1, <4>2
    <3>2. call' \in CallArguments \cup {NoCall}
      BY <1>1, <2>1 DEF TypeOK
    <3>3. state' \in [Cpu -> {"Idle", "Ready", "Busy", "Finished", "Disabled"}]
      BY <1>1, <2>1 DEF TypeOK
    <3>4. QED
      BY <1>1, <1>2, <2>1, <2>5, <3>1, <3>2, <3>3 DEF TypeOK, Woken, AllClock
  <2>7. /\ AllActive' <=> Enabled # {}
        /\ Enabled = {} => all'.wait = FALSE
        /\ Enabled # {} => /\ all'.wait = ~call.blocks /\ all'.single = call.single
                           /\ all'.procedure = call.procedure
        /\ all'.start = Cardinality(Enabled) /\ all'.finish = 0 /\ pc' # "abortAll"
        /\ Bosses' = {bsp} /\ ~Switching' /\ bsp' = bsp
    BY <1>1, <2>1, Arguments DEF TypeOK
  <2>8. Control'
    BY <1>1, <1>2, <2>1, <2>7, Arguments DEF IInv, TypeOK, Control, NoCall
  <2>9. BspRuns'
    BY <1>1, <1>2, <2>1, <2>3, <2>5, <2>7 DEF IInv, TypeOK, BspRuns, Woken
  <2>10. Phases'
    <3>1. SUFFICES ASSUME NEW m \in Cpu \ {bsp}
                   PROVE  Phase(m)'
      BY <2>1, <2>7 DEF Phases
    <3>2. AtRest(m) => ap'[m] = "sipi" \/ AtRest(m)'
      BY <1>1, <2>5 DEF TypeOK, AtRest, Woken
    <3>3. CASE m \in woken
      BY <1>1, <1>2, <2>1, <2>3, <2>5, <3>3, Arguments DEF TypeOK, Phase, Awoken, Woken
    <3>4. CASE m \in Enabled /\ m \notin woken
      <4>1. ap'[m] = "halt"
        BY <1>1, <1>2, <2>3, <2>4, <2>5, <3>4 DEF TypeOK, AtRest, Woken
      <4>2. QED
        BY <1>1, <1>2, <2>1, <2>3, <2>7, <3>4, <4>1 DEF TypeOK, Phase, WaitsTurn
    <3>5. CASE m \notin Enabled
      <4>1. state[m] = "Disabled" /\ AtRest(m) /\ m \notin woken
        BY <1>1, <1>2, <2>3, <3>5 DEF IInv, Phases, Phase
      <4>2. AtRest(m)'
        BY <1>1, <2>5, <4>1 DEF TypeOK, AtRest, Woken
      <4>3. QED
        BY <2>1, <3>5, <4>1, <4>2 DEF Phase
    <3>6. QED
      BY <3>3, <3>4, <3>5
  <2>11. ThisGiven'
    BY <1>1, <1>2, <1>4, <2>1, <2>7 DEF IInv, TypeOK, ThisGiven, Single
  <2>12. AllGiven'
    <3>1. \A m \in Enabled \ woken : ap'[m] = "halt"
      BY <1>1, <1>2, <2>3, <2>4, <2>5 DEF TypeOK, AtRest, Woken
    <3>2. QED
      BY <1>1, <1>2, <2>1, <2>3, <2>7, <3>1, Arguments DEF AllGiven
  <2>13. Counted'
    <3>1. Cardinality(Enabled \ Enabled) = 0
      BY FS_EmptySet
    <3>2. \A m \in Enabled : ap'[m] # "finish" /\ state'[m] = "Ready"
      BY <1>2, <2>1, <2>4, <2>5 DEF AtRest, Woken
    <3>3. QED
      BY <1>2, <2>1, <2>7, <3>1, <3>2 DEF Counted
  <2>14. QED
    BY <2>6, <2>8, <2>9, <2>10, <2>11, <2>12, <2>13 DEF IInv
<1>5. QED
  BY <1>3, <1>4

LEMMA StartupThisAPInv ==
  ASSUME IInv, Orderly, StartupThisAP
  PROVE  IInv'
<1> DEFINE n == call.cpu
<1> USE DEF data, jobs, ghosts, Given, AllActive, Switching, Runner, Bosses
<1>1. /\ TypeOK /\ pc = "start" /\ call.kind = "this" /\ Bosses = {bsp}
      /\ n \in Cpu /\ n # bsp /\ UNCHANGED <<bsp, locked, all, cpuList, at, calls, ghosts>>
  BY Arguments DEF IInv, Control, StartupThisAP
<1>2. CASE state[n] # "Idle"
  <2>1. pc' = "idle" /\ call' = NoCall /\ UNCHANGED <<state, procedure, mApFunction, ap, this>>
    BY <1>2 DEF StartupThisAP, Goto
  <2>2. TypeOK'
    BY <1>1, <2>1 DEF TypeOK
  <2>3. QED
    BY <1>1, <2>1, <2>2
       DEF IInv, TypeOK, Control, BspRuns, Phases, ThisGiven, AllGiven, Counted, Aborted, Phase,
           AtRest, Awoken, WaitsTurn, Single, NoCall
<1>3. CASE state[n] = "Idle"
  <2>1. /\ state' = [state EXCEPT ![n] = "Ready"] /\ WakeUpAp({n}, call.procedure)
        /\ this' = [this EXCEPT ![n] = [wait |-> ~call.blocks, expected |-> call.timeout,
                                        total |-> 0]]
        /\ pc' = (IF call.blocks THEN "wait" ELSE "idle")
        /\ call' = (IF call.blocks THEN call ELSE NoCall)
    BY <1>3 DEF StartupThisAP, Goto
  <2>2. /\ call.procedure \in {"Task", "Hang"} /\ call.blocks \in BOOLEAN
        /\ call.timeout \in Times /\ call.timeout \in Nat
    BY <1>1, Arguments
  <2>3. Woken({n}, call.procedure)
    <3>1. {n} \in SUBSET Cpu /\ call.procedure \in Procedures
      BY <1>1, <2>2 DEF Procedures
    <3>2. QED
      BY <1>1, <2>1, <3>1, WakeUp
  <2>4. ~this[n].wait /\ (AllActive => n \notin cpuList) /\ (AllActive' <=> AllActive)
    BY <1>1, <1>3, <2>1 DEF IInv, ThisGiven, Single, AllGiven
  <2> HIDE DEF n
  <2>5. TypeOK'
    <3>1. /\ this' \in [Cpu -> [wait : BOOLEAN, expected : Times, total : Nat]]
          /\ \A m \in Cpu : this'[m].total <= this'[m].expected
      BY <1>1, <2>1, <2>2 DEF TypeOK
    <3>2. QED
      BY <1>1, <2>1, <2>3, <3>1 DEF TypeOK, Woken
  <2>6. Control'
    BY <1>1, <2>1, <2>4 DEF IInv, TypeOK, Control, Aborted, NoCall
  <2>7. BspRuns'
    BY <1>1, <2>1, <2>3 DEF IInv, TypeOK, BspRuns, Woken
  <2>8. Phases'
    <3>1. SUFFICES ASSUME NEW m \in Cpu \ {bsp}
                   PROVE  Phase(m)'
      BY <1>1, <2>1 DEF Phases
    <3>2. CASE m = n
      BY <1>1, <2>1, <2>2, <2>3, <3>2 DEF TypeOK, Phase, Awoken, Woken
    <3>3. CASE m # n
      <4>1. ap'[m] = ap[m] /\ procedure'[m] = procedure[m] /\ state'[m] = state[m]
        BY <1>1, <2>1, <2>3, <3>3 DEF TypeOK, Woken
      <4>2. Phase(m)
        BY <1>1, <3>1 DEF IInv, Phases
      <4>3. (AtRest(m) => AtRest(m)') /\ (Awoken(m) => Awoken(m)')
        BY <1>1, <2>3, <3>3, <4>1 DEF TypeOK, AtRest, Awoken, Woken
      <4>4. QED
        BY <1>1, <2>1, <4>1, <4>2, <4>3 DEF Phase, WaitsTurn
    <3>4. QED
      BY <3>2, <3>3
  <2>9. ThisGiven'
    <3>1. \A m \in Cpu : m # n => this'[m] = this[m] /\ state'[m] = state[m]
      BY <1>1, <2>1 DEF TypeOK
    <3>2. state'[n] = "Ready" /\ this'[n].wait = ~call.blocks
      BY <1>1, <2>1 DEF TypeOK
    <3>3. call.blocks => call'.cpu = n
      BY <2>1 DEF n
    <3>4. QED
      BY <1>1, <2>1, <2>2, <2>4, <3>1, <3>2, <3>3 DEF IInv, ThisGiven, Single
  <2>10. AllGiven'
    BY <1>1, <2>1, <2>3, <2>4 DEF IInv, TypeOK, AllGiven, Woken
  <2>11. Counted'
    BY <1>1, <2>1, <2>3, <2>4 DEF IInv, TypeOK, Counted, Woken
  <2>12. QED
    BY <2>5, <2>6, <2>7, <2>8, <2>9, <2>10, <2>11 DEF IInv
<1>4. QED
  BY <1>2, <1>3

---------------------------------------------------------------------------
\* SwitchBSP and EnableDisableAP.

\* The AP that is to become the BSP is idle: no call is waiting for it.
LEMMA SwitchBSPInv ==
  ASSUME IInv, Orderly, NEW n \in Cpu, NEW enableOld \in BOOLEAN, SwitchBSP(n, enableOld)
  PROVE  IInv'
<1> USE DEF data, jobs, ghosts, Given, AllActive, Switching, Runner, Bosses
<1>1. /\ TypeOK /\ pc = "idle" /\ n # bsp /\ state[n] = "Idle" /\ pc' = "exchange"
      /\ call' = [kind |-> "switch", cpu |-> n, enable |-> enableOld]
      /\ calls' \in 0 .. MaxCalls /\ Bosses = {bsp} /\ Bosses' = {bsp, n}
      /\ UNCHANGED <<bsp, state, locked, jobs, at, ghosts>>
  BY MpAssumption DEF IInv, TypeOK, SwitchBSP
<1>2. Woken({n}, "FutureBSPProc")
  <2>1. {n} \in SUBSET Cpu /\ "FutureBSPProc" \in Procedures
    BY DEF Procedures
  <2>2. QED
    BY <1>1, <2>1, WakeUp DEF SwitchBSP
<1>3. AtRest(n) /\ ~this[n].wait /\ (AllActive => n \notin cpuList) /\ (AllActive' <=> AllActive)
  BY <1>1 DEF IInv, Control, Aborted, Phases, Phase, ThisGiven, Single, AllGiven
<1>4. TypeOK'
  <2>1. call' \in CallArguments
    BY <1>1 DEF CallArguments
  <2>2. QED
    BY <1>1, <1>2, <2>1 DEF TypeOK, Woken
<1>5. Control'
  BY <1>1 DEF IInv, TypeOK, Control, Aborted, NoCall
<1>6. BspRuns'
  BY <1>1, <1>2 DEF IInv, TypeOK, BspRuns, Woken
<1>7. Phases'
  <2>1. Exchanging(n)'
    BY <1>1, <1>2 DEF Exchanging, Awoken, Woken
  <2>2. ASSUME NEW m \in Cpu \ {bsp, n}
        PROVE  Phase(m)'
    <3>1. ap'[m] = ap[m] /\ procedure'[m] = procedure[m] /\ state'[m] = state[m]
      BY <1>1, <1>2, <2>2 DEF TypeOK, Woken
    <3>2. Phase(m)
      BY <1>1, <2>2 DEF IInv, Phases
    <3>3. (AtRest(m) => AtRest(m)') /\ (Awoken(m) => Awoken(m)')
      BY <1>1, <1>2, <3>1 DEF TypeOK, AtRest, Awoken, Woken
    <3>4. QED
      BY <1>1, <3>1, <3>2, <3>3 DEF Phase, WaitsTurn
  <2>3. QED
    BY <1>1, <2>1, <2>2 DEF Phases
<1>8. ThisGiven'
  BY <1>1, <1>3 DEF IInv, ThisGiven, Single
<1>9. AllGiven'
  BY <1>1, <1>2, <1>3 DEF IInv, TypeOK, AllGiven, Woken
<1>10. Counted'
  BY <1>1, <1>2, <1>3 DEF IInv, TypeOK, Counted, Woken
<1>11. QED
  BY <1>4, <1>5, <1>6, <1>7, <1>8, <1>9, <1>10 DEF IInv

LEMMA AsmExchangeRoleInv ==
  ASSUME IInv, AsmExchangeRole
  PROVE  IInv'
<1> USE DEF AsmExchangeRole, data, jobs, ghosts, Given, AllActive, Switching, Runner, Bosses
<1>1. /\ TypeOK /\ pc = "exchange" /\ call.kind = "switch" /\ call.cpu \in Cpu
      /\ call.cpu # bsp /\ Bosses' = Bosses /\ bsp \in Cpu
  BY Arguments DEF IInv, TypeOK, Control
<1>2. TypeOK'
  BY <1>1 DEF TypeOK, Procedures
<1>3. Control'
  BY <1>1 DEF IInv, Control, Aborted
<1>4. BspRuns'
  BY <1>1 DEF IInv, TypeOK, BspRuns, Phases, Exchanging, Awoken
<1>5. Phases'
  <2>1. ASSUME NEW m \in Cpu \ Bosses
        PROVE  Phase(m)'
    <3>1. ap'[m] = ap[m] /\ procedure'[m] = procedure[m]
      BY <1>1, <2>1 DEF TypeOK
    <3>2. Phase(m)
      BY <1>1, <2>1 DEF IInv, Phases
    <3>3. QED
      BY <1>1, <3>1, <3>2 DEF Phase, WaitsTurn, AtRest, Awoken
  <2>2. QED
    BY <1>1, <2>1 DEF Phases
<1>6. ThisGiven'
  BY <1>1 DEF IInv, ThisGiven, Single
<1>7. AllGiven'
  BY <1>1 DEF IInv, TypeOK, AllGiven
<1>8. Counted'
  BY <1>1 DEF IInv, TypeOK, AllGiven, Counted
<1>9. QED
  BY <1>2, <1>3, <1>4, <1>5, <1>6, <1>7, <1>8 DEF IInv

LEMMA BspSwitchedInv ==
  ASSUME IInv, BspSwitched
  PROVE  IInv'
<1> USE DEF BspSwitched, ChangeCpuState, data, jobs, ghosts, Given, AllActive, Switching,
            Runner, Bosses
<1>1. /\ TypeOK /\ pc = "settle" /\ call.cpu \in Cpu /\ call.cpu # bsp
      /\ Bosses = {bsp, call.cpu} /\ Bosses' = {call.cpu} /\ bsp \in Cpu /\ bsp' = call.cpu
  BY Arguments DEF IInv, TypeOK, Control
<1>2. TypeOK'
  BY <1>1 DEF TypeOK
<1>3. Control'
  BY <1>1 DEF IInv, TypeOK, Control, Aborted, NoCall
<1>4. BspRuns'
  BY <1>1 DEF IInv, TypeOK, BspRuns
<1>5. Phases'
  BY <1>1 DEF IInv, TypeOK, BspRuns, Phases, Phase, AtRest, Awoken, WaitsTurn
<1>6. ThisGiven'
  BY <1>1 DEF IInv, TypeOK, ThisGiven, Single
<1>7. AllGiven'
  BY <1>1 DEF IInv, TypeOK, AllGiven
<1>8. Counted'
  BY <1>1 DEF IInv, TypeOK, AllGiven, Counted
<1>9. QED
  BY <1>2, <1>3, <1>4, <1>5, <1>6, <1>7, <1>8 DEF IInv

LEMMA EnableDisableAPInv ==
  ASSUME IInv, Orderly, NEW n \in Cpu, NEW enable \in BOOLEAN, EnableDisableAP(n, enable)
  PROVE  IInv'
<1> USE DEF EnableDisableAP, ChangeCpuState, data, jobs, ghosts, Given, AllActive, Switching,
            Runner, Bosses
<1>1. TypeOK /\ pc = "idle" /\ n # bsp /\ state[n] \in {"Idle", "Disabled"} /\ ~locked[n]
  BY DEF IInv, Orderly
<1>2. TypeOK'
  BY <1>1, MpAssumption DEF TypeOK
<1>3. Control'
  BY <1>1 DEF IInv, Control, Aborted
<1>4. BspRuns'
  BY <1>1 DEF IInv, TypeOK, BspRuns
<1>5. Phases'
  BY <1>1 DEF IInv, TypeOK, Phases, Phase, AtRest, Awoken, WaitsTurn
<1>6. ThisGiven'
  BY <1>1 DEF IInv, TypeOK, ThisGiven, Single
<1>7. AllGiven'
  BY <1>1 DEF IInv, TypeOK, AllGiven
<1>8. Counted'
  BY <1>1 DEF IInv, TypeOK, AllGiven, Counted
<1>9. QED
  BY <1>2, <1>3, <1>4, <1>5, <1>6, <1>7, <1>8 DEF IInv

---------------------------------------------------------------------------
\* The inductive invariant holds initially and is preserved.

LEMMA InitInv == Init => IInv
<1> SUFFICES ASSUME Init
             PROVE  IInv
  OBVIOUS
<1> USE DEF Given, AllActive, Switching, Runner, Bosses, Init
<1>1. 0 \in Cpu /\ 0 \in Times /\ 0 \in 0 .. NumberOfProcessors - 1 /\ 0 \in 0 .. MaxCalls
  BY MpAssumption DEF Cpu, Times
<1>2. TypeOK
  <2>1. /\ this \in [Cpu -> [wait : BOOLEAN, expected : Times, total : Nat]]
        /\ \A n \in Cpu : this[n].total <= this[n].expected
    BY <1>1
  <2>2. all \in AllClock /\ all.total <= all.expected
    BY <1>1 DEF AllClock, Procedures, None
  <2>3. /\ bsp \in Cpu /\ state \in [Cpu -> {"Idle", "Ready", "Busy", "Finished", "Disabled"}]
        /\ procedure \in [Cpu -> Procedures] /\ locked \in [Cpu -> BOOLEAN]
        /\ ap \in [Cpu -> {"bsp", "halt", "sipi", "start", "run", "finish"}]
    BY <1>1 DEF Procedures, None
  <2>4. cpuList \subseteq Cpu /\ mApFunction \in BOOLEAN
    OBVIOUS
  <2>5. at \in 0 .. NumberOfProcessors
    BY MpAssumption
  <2>6. QED
    BY <1>1, <2>1, <2>2, <2>3, <2>4, <2>5 DEF TypeOK, AllClock
<1>3. Control /\ BspRuns
  BY <1>1 DEF Control, BspRuns, NoCall
<1>4. Phases /\ ThisGiven /\ AllGiven /\ Counted
  BY <1>1 DEF Phases, Phase, AtRest, ThisGiven, AllGiven, Counted, NoCall
<1>5. QED
  BY <1>2, <1>3, <1>4 DEF IInv

LEMMA StepInv == Orderly /\ IInv /\ [Next]_vars => IInv'
<1> SUFFICES ASSUME Orderly, IInv, [Next]_vars
             PROVE  IInv'
  OBVIOUS
<1>1. CASE Calls
  BY <1>1, CallStartupAllAPsInv, CallStartupThisAPInv, SwitchBSPInv, EnableDisableAPInv
     DEF Calls
<1>2. CASE CheckAPsStatus
  BY <1>2, CheckAPsStatusInv
<1>3. CASE Bsp
  BY <1>3, CheckAllAPsInv, AllCheckedInv, AbortAllInv, CheckThisAPInv, AbortThisInv,
     AllUpdatedInv, StartupAllAPsInv, StartupThisAPInv, AsmExchangeRoleInv, BspSwitchedInv
     DEF Bsp
<1>4. CASE \E n \in Cpu : Ap(n)
  BY <1>4, ApProcEntryInv, ApBusyInv, ApReturnsInv, ApFinishedInv DEF Ap
<1>5. CASE UNCHANGED vars
  BY <1>5
     DEF vars, data, jobs, ghosts, IInv, TypeOK, Control, BspRuns, Phases, ThisGiven, AllGiven,
         Counted, Aborted, Phase, Exchanging, AtRest, Awoken, WaitsTurn, Single, Given,
         AllActive, Switching, Runner, Bosses
<1>6. QED
  BY <1>1, <1>2, <1>3, <1>4, <1>5 DEF Next

LEMMA Inductive == Orderly => (Spec => []IInv)
<1>1. Orderly /\ IInv /\ [Next]_vars => IInv'
  BY StepInv
<1>2. Init => IInv
  BY InitInv
<1>3. SUFFICES ASSUME Orderly
               PROVE  Spec => []IInv
  OBVIOUS
<1>4. IInv /\ [Next]_vars => IInv'
  BY <1>1, <1>3
<1>5. QED
  BY <1>2, <1>4, PTL DEF Spec

\* The data of the services are of their types: the counters never exceed the
\* number of APs, and no clock passes its limit unseen.
THEOREM TypeCorrect == Orderly => (Spec => []TypeOK)
<1>1. IInv => TypeOK
  BY DEF IInv
<1>2. QED
  BY <1>1, Inductive, PTL

\* While a StartupAllAPs is on, every AP it has started is in CpuList and has
\* not been given back, or has been counted and has returned: when the call
\* reports success, all of them have.
THEOREM EveryApAccounted == Orderly => (Spec => []AllAccounted)
<1>1. IInv => AllAccounted
  BY DEF IInv, Counted, AllGiven, AllActive, Given, AllAccounted
<1>2. QED
  BY <1>1, Inductive, PTL

\* An AP that CpuData calls idle or disabled executes no procedure, whatever
\* has been aborted, enabled, disabled or switched before: it can be given a
\* new one without two of them running.
THEOREM IdleApHalted == Orderly => (Spec => []IdleIsHalted)
<1>1. IInv => IdleIsHalted
  <2> SUFFICES ASSUME IInv, NEW n \in Cpu \ {bsp}, state[n] \in {"Idle", "Disabled"}
               PROVE  \/ ap[n] \in {"halt", "bsp"}
                      \/ ap[n] = "sipi" /\ ~mApFunction
                      \/ procedure[n] = "FutureBSPProc"
    BY DEF IdleIsHalted
  <2>1. CASE n \in Bosses
    BY <2>1 DEF IInv, Bosses, Switching, BspRuns, Runner, Phases, Exchanging
  <2>2. CASE n \notin Bosses
    BY <2>2 DEF IInv, Phases, Phase, AtRest, Given
  <2>3. QED
    BY <2>1, <2>2
<1>2. QED
  BY <1>1, Inductive, PTL
=============================================================================
