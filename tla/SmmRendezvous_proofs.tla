------------------------ MODULE SmmRendezvous_proofs ------------------------
(***************************************************************************)
(* Proofs about SmmRendezvous, for any number of processors: one BSP at a  *)
(* time, the APs it has counted in step with it, no signal left over.      *)
(***************************************************************************)
EXTENDS SmmRendezvous, FiniteSetTheorems, TLAPS

---------------------------------------------------------------------------
\* The places of the statements in the two programs, for the flow that programs
\* the MTRRs, the traditional flow without them and the relaxed flow without them.
Pick(mtrrs, traditional, relaxed, m) ==
    IF Mtrrs THEN mtrrs ELSE IF m = "traditional" THEN traditional ELSE relaxed

BspCore(m) == Pick(12, 8, 3, m)
BspLeaves(m) == Pick(14, 10, 8, m)
BspMode(m) == Pick(17, 13, 11, m)
LastRelease(m) == Pick(20, 14, 12, m)
BspExit(m) == Pick(26, 20, 18, m)
ApLookAt(m) == Pick(8, 4, 3, m)
ApExit(m) == Pick(15, 9, 8, m)

BspPlaces(m, step) ==
    CASE step = "enter" -> {1}
      [] step = "clear" -> {2}
      [] step = "gather" -> Pick({3}, {3}, {}, m)
      [] step = "gatherAgain" -> Pick({4}, {4}, {}, m)
      [] step = "sync" -> {5}
      [] step = "lock" -> {6}
      [] step = "wait" -> Pick({7, 9, 11, 16, 19, 22}, {7, 12, 16}, {10, 14}, m)
      [] step = "release" -> Pick({8, 10, 15, 18, 20}, {11, 14}, {9, 12}, m)
      [] step = "count" -> Pick({}, {}, {7}, m)
      [] step = "core" -> {BspCore(m)}
      [] step = "drain" -> {BspCore(m) + 1}
      [] step = "leave" -> {BspLeaves(m)}
      [] step = "mode" -> {BspMode(m)}
      [] step = "absent" -> {LastRelease(m) + 1}
      [] step = "forget" -> {BspExit(m) - 3}
      [] step = "reset" -> {BspExit(m) - 2}
      [] step = "unsync" -> {BspExit(m) - 1}
      [] step = "exit" -> {BspExit(m)}

ApPlacesOf(m, step) ==
    CASE step = "join" -> {1}
      [] step = "signal" -> Pick({2, 4, 6, 9, 11, 14}, {2, 5, 8}, {4, 7}, m)
      [] step = "await" -> Pick({3, 5, 7, 10, 12}, {3, 6}, {2, 5}, m)
      [] step = "look" -> {ApLookAt(m)}
      [] step = "absent" -> {ApExit(m) - 2}
      [] step = "exit" -> {ApExit(m)}

LEMMA BspPlacesCorrect ==
  ASSUME NEW m \in Modes
  PROVE  /\ Len(BspProgram(m)) = BspExit(m)
         /\ \A step \in {"enter", "clear", "gather", "gatherAgain", "sync", "lock", "wait",
                         "release", "count", "core", "drain", "leave", "mode", "absent",
                         "forget", "reset", "unsync", "exit"} :
              \A i \in 1 .. BspExit(m) :
                BspProgram(m)[i] = step <=> i \in BspPlaces(m, step)
<1>0. m = "traditional" \/ m = "relaxed"
  BY RendezvousAssumption
<1>1. CASE Mtrrs
  <2>1. /\ Len(BspProgram(m)) = 26
        /\ BspProgram(m)[1] = "enter" /\ BspProgram(m)[2] = "clear"
        /\ BspProgram(m)[3] = "gather" /\ BspProgram(m)[4] = "gatherAgain"
        /\ BspProgram(m)[5] = "sync" /\ BspProgram(m)[6] = "lock" /\ BspProgram(m)[7] = "wait"
        /\ BspProgram(m)[8] = "release" /\ BspProgram(m)[9] = "wait"
        /\ BspProgram(m)[10] = "release" /\ BspProgram(m)[11] = "wait"
        /\ BspProgram(m)[12] = "core" /\ BspProgram(m)[13] = "drain"
        /\ BspProgram(m)[14] = "leave" /\ BspProgram(m)[15] = "release"
        /\ BspProgram(m)[16] = "wait" /\ BspProgram(m)[17] = "mode"
        /\ BspProgram(m)[18] = "release" /\ BspProgram(m)[19] = "wait"
        /\ BspProgram(m)[20] = "release" /\ BspProgram(m)[21] = "absent"
        /\ BspProgram(m)[22] = "wait" /\ BspProgram(m)[23] = "forget"
        /\ BspProgram(m)[24] = "reset" /\ BspProgram(m)[25] = "unsync"
        /\ BspProgram(m)[26] = "exit"
    BY <1>1 DEF BspProgram, Early, When
  <2>2. QED
    BY <1>1, <2>1, SMTT(60) DEF BspPlaces, Pick, BspCore, BspLeaves, BspMode, LastRelease, BspExit
<1>2. CASE ~Mtrrs /\ m = "traditional"
  <2>1. /\ Len(BspProgram(m)) = 20
        /\ BspProgram(m)[1] = "enter" /\ BspProgram(m)[2] = "clear"
        /\ BspProgram(m)[3] = "gather" /\ BspProgram(m)[4] = "gatherAgain"
        /\ BspProgram(m)[5] = "sync" /\ BspProgram(m)[6] = "lock" /\ BspProgram(m)[7] = "wait"
        /\ BspProgram(m)[8] = "core" /\ BspProgram(m)[9] = "drain"
        /\ BspProgram(m)[10] = "leave" /\ BspProgram(m)[11] = "release"
        /\ BspProgram(m)[12] = "wait" /\ BspProgram(m)[13] = "mode"
        /\ BspProgram(m)[14] = "release" /\ BspProgram(m)[15] = "absent"
        /\ BspProgram(m)[16] = "wait" /\ BspProgram(m)[17] = "forget"
        /\ BspProgram(m)[18] = "reset" /\ BspProgram(m)[19] = "unsync"
        /\ BspProgram(m)[20] = "exit"
    BY <1>2 DEF BspProgram, Early, When
  <2>2. QED
    BY <1>2, <2>1, SMTT(60) DEF BspPlaces, Pick, BspCore, BspLeaves, BspMode, LastRelease, BspExit
<1>3. CASE ~Mtrrs /\ m = "relaxed"
  <2>1. /\ Len(BspProgram(m)) = 18
        /\ BspProgram(m)[1] = "enter" /\ BspProgram(m)[2] = "clear"
        /\ BspProgram(m)[3] = "core" /\ BspProgram(m)[4] = "drain"
        /\ BspProgram(m)[5] = "sync" /\ BspProgram(m)[6] = "lock" /\ BspProgram(m)[7] = "count"
        /\ BspProgram(m)[8] = "leave" /\ BspProgram(m)[9] = "release"
        /\ BspProgram(m)[10] = "wait" /\ BspProgram(m)[11] = "mode"
        /\ BspProgram(m)[12] = "release" /\ BspProgram(m)[13] = "absent"
        /\ BspProgram(m)[14] = "wait" /\ BspProgram(m)[15] = "forget"
        /\ BspProgram(m)[16] = "reset" /\ BspProgram(m)[17] = "unsync"
        /\ BspProgram(m)[18] = "exit"
    BY <1>3 DEF BspProgram, Early, When
  <2>2. QED
    BY <1>3, <2>1, SMTT(60) DEF BspPlaces, Pick, BspCore, BspLeaves, BspMode, LastRelease, BspExit
<1>4. QED
  BY <1>0, <1>1, <1>2, <1>3

LEMMA ApPlacesCorrect ==
  ASSUME NEW m \in Modes
  PROVE  /\ Len(ApProgram(m)) = ApExit(m)
         /\ \A step \in {"join", "signal", "await", "look", "absent", "exit"} :
              \A i \in 1 .. ApExit(m) :
                ApProgram(m)[i] = step <=> i \in ApPlacesOf(m, step)
<1>0. m = "traditional" \/ m = "relaxed"
  BY RendezvousAssumption
<1>1. CASE Mtrrs
  <2>1. /\ Len(ApProgram(m)) = 15
        /\ ApProgram(m)[1] = "join" /\ ApProgram(m)[2] = "signal"
        /\ ApProgram(m)[3] = "await" /\ ApProgram(m)[4] = "signal"
        /\ ApProgram(m)[5] = "await" /\ ApProgram(m)[6] = "signal"
        /\ ApProgram(m)[7] = "await" /\ ApProgram(m)[8] = "look"
        /\ ApProgram(m)[9] = "signal" /\ ApProgram(m)[10] = "await"
        /\ ApProgram(m)[11] = "signal" /\ ApProgram(m)[12] = "await"
        /\ ApProgram(m)[13] = "absent" /\ ApProgram(m)[14] = "signal"
        /\ ApProgram(m)[15] = "exit"
    BY <1>1 DEF ApProgram, Early, When
  <2>2. QED
    BY <1>1, <2>1, SMTT(60) DEF ApPlacesOf, Pick, ApLookAt, ApExit
<1>2. CASE ~Mtrrs /\ m = "traditional"
  <2>1. /\ Len(ApProgram(m)) = 9
        /\ ApProgram(m)[1] = "join" /\ ApProgram(m)[2] = "signal"
        /\ ApProgram(m)[3] = "await" /\ ApProgram(m)[4] = "look"
        /\ ApProgram(m)[5] = "signal" /\ ApProgram(m)[6] = "await"
        /\ ApProgram(m)[7] = "absent" /\ ApProgram(m)[8] = "signal"
        /\ ApProgram(m)[9] = "exit"
    BY <1>2 DEF ApProgram, Early, When
  <2>2. QED
    BY <1>2, <2>1, SMTT(60) DEF ApPlacesOf, Pick, ApLookAt, ApExit
<1>3. CASE ~Mtrrs /\ m = "relaxed"
  <2>1. /\ Len(ApProgram(m)) = 8
        /\ ApProgram(m)[1] = "join" /\ ApProgram(m)[2] = "await"
        /\ ApProgram(m)[3] = "look" /\ ApProgram(m)[4] = "signal"
        /\ ApProgram(m)[5] = "await" /\ ApProgram(m)[6] = "absent"
        /\ ApProgram(m)[7] = "signal" /\ ApProgram(m)[8] = "exit"
    BY <1>3 DEF ApProgram, Early, When
  <2>2. QED
    BY <1>3, <2>1, SMTT(60) DEF ApPlacesOf, Pick, ApLookAt, ApExit
<1>4. QED
  BY <1>0, <1>1, <1>2, <1>3

---------------------------------------------------------------------------
\* How often a processor at place i has waited for all APs, released them,
\* signalled the BSP and been released.
One(condition) == IF condition THEN 1 ELSE 0
Waits(m, i) ==
    Pick(One(i > 7) + One(i > 9) + One(i > 11) + One(i > 16) + One(i > 19) + One(i > 22),
         One(i > 7) + One(i > 12) + One(i > 16), One(i > 10) + One(i > 14), m)
Releases(m, i) ==
    Pick(One(i > 8) + One(i > 10) + One(i > 15) + One(i > 18) + One(i > 20),
         One(i > 11) + One(i > 14), One(i > 9) + One(i > 12), m)
Signals(m, i) ==
    Pick(One(i > 2) + One(i > 4) + One(i > 6) + One(i > 9) + One(i > 11) + One(i > 14),
         One(i > 2) + One(i > 5) + One(i > 8), One(i > 4) + One(i > 7), m)
Awaits(m, i) ==
    Pick(One(i > 3) + One(i > 5) + One(i > 7) + One(i > 10) + One(i > 12),
         One(i > 3) + One(i > 6), One(i > 2) + One(i > 5), m)

\* The BSP until it resets the counter; the APs it is responsible for, before
\* they take part in its handshakes, and in them.
Leads(b) == pc[b] = "bspHandler" /\ at[b] <= BspExit(my[b]) - 2
Follows(o) == pc[o] \in {"apHandler", "procedure"} /\ at[o] < ApExit(my[o])
Joined(o) == Follows(o) /\ at[o] > 1
Arriving(o) ==
    \/ pc[o] \in {"elect", "apCall", "ap", "apTimeout", "apAgain", "giveUp"}
    \/ Follows(o) /\ at[o] = 1
Members == {c \in Cpu : Arriving(c) \/ Joined(c) \/ Leads(c)}

\* The APs whose next signal the BSP has not taken yet.
Signalled(b) == {o \in Cpu : Joined(o) /\ Signals(my[o], at[o]) = Waits(my[b], at[b]) + 1}

---------------------------------------------------------------------------
\* The inductive invariant.

\* A processor is at a place of its program.
Shape ==
    \A c \in Cpu :
        /\ pc[c] \notin {"bspHandler", "apHandler", "procedure"} => at[c] = 1
        /\ pc[c] = "bspHandler" => at[c] <= BspExit(my[c])
        /\ pc[c] = "apHandler" => at[c] <= ApExit(my[c]) /\ (at[c] > 1 => bsp[c] \in Cpu)
        /\ pc[c] = "procedure" => at[c] = ApLookAt(my[c]) /\ bsp[c] \in Cpu

\* One BSP leads, and BspIndex tells which.
ApPlaces == {"checkInAp", "apCall", "ap", "apTimeout", "apAgain", "giveUp", "gaveUp",
             "apHandler", "procedure"}
Leader ==
    /\ \A b, c \in Cpu : Leads(b) /\ Leads(c) => b = c
    /\ \A b \in Cpu : Leads(b) /\ at[b] <= BspExit(my[b]) - 3 => bspIndex = b
    /\ ~Election => /\ bspIndex = DefaultBsp /\ pc[DefaultBsp] \notin ApPlaces
                    /\ \A c \in Cpu : pc[c] = "bspHandler" => c = DefaultBsp
    /\ Election /\ bspIndex # None =>
         Leads(bspIndex) /\ at[bspIndex] <= BspExit(my[bspIndex]) - 3

\* InsideSmm lasts from the entry of the BSP until it tells the APs to leave.
Inside ==
    insideSmm <=> \E b \in Cpu : pc[b] = "bspHandler" /\ at[b] \in 2 .. BspLeaves(my[b])

\* The mode changes when nobody is between reading it and using it.
ModeRead ==
    /\ \A b \in Cpu : Leads(b) /\ at[b] <= BspMode(my[b]) => my[b] = mode
    /\ \A o \in Cpu : Arriving(o) /\ pc[o] \notin {"elect", "apCall"} => my[o] = mode

\* Counter counts the members; ApCount is that count less the BSP, and may be
\* too small only until the BSP has met as many APs as it has counted.
CountedBy(b) ==
    /\ at[b] \in 7 .. LastRelease(my[b]) =>
         counter + apCount[b] + 1 = Locked + Cardinality(Members)
    /\ at[b] > 7 => counter = Locked /\ \A o \in Cpu : ~Arriving(o)
    /\ at[b] \in LastRelease(my[b]) + 1 .. LastRelease(my[b]) + 2 =>
         run[b] + Cardinality(Members) = apCount[b] + 1
    /\ at[b] > LastRelease(my[b]) + 2 => run[b] = 0 /\ \A o \in Cpu : ~Joined(o)
Counted ==
    /\ (\A b \in Cpu : Leads(b) => at[b] <= 6) => counter = Cardinality(Members)
    /\ \A b \in Cpu : Leads(b) => CountedBy(b)

\* What an AP has been sent and has taken, and what the BSP has been sent, is
\* what their places in the two programs say.
InStepWith(o, b) ==
    /\ bsp[o] = b /\ my[o] = my[b]
    /\ run[o] + Awaits(my[o], at[o]) = Releases(my[b], at[b]) + One(o \in busy)
    /\ Signals(my[o], at[o]) \in {Waits(my[b], at[b]), Waits(my[b], at[b]) + 1}
InStep ==
    /\ \A o \in Cpu : Follows(o) => \E b \in Cpu : Leads(b) /\ at[b] > 1
    /\ \A o, b \in Cpu : Joined(o) /\ Leads(b) => InStepWith(o, b)
    /\ \A b \in Cpu : Leads(b) /\ at[b] <= LastRelease(my[b]) => run[b] = Cardinality(Signalled(b))
    /\ \A c \in Cpu : ~Joined(c) /\ ~Leads(c) => run[c] = 0

\* Present, and Busy: an AP is only given a procedure while it waits for the
\* release that leads to its look at InsideSmm.
Presence ==
    /\ \A c \in Cpu : c \in present <=> \/ Joined(c) /\ at[c] <= ApExit(my[c]) - 2
                                        \/ Leads(c) /\ at[c] \in 2 .. LastRelease(my[c]) + 1
    /\ \A o \in Cpu : o \in busy /\ (Arriving(o) \/ Joined(o)) =>
         /\ Joined(o) /\ at[o] \in ApLookAt(my[o]) - 1 .. ApLookAt(my[o])
         /\ \E b \in Cpu : Leads(b) /\ at[b] \in BspCore(my[b]) .. BspCore(my[b]) + 1
    /\ \A o \in Cpu : pc[o] = "procedure" => o \in busy

Roles == Leader /\ Inside /\ ModeRead /\ Counted /\ InStep /\ Presence
IInv == TypeOK /\ Shape /\ Roles

---------------------------------------------------------------------------
\* Facts about the places.

\* The bounds a place has.
LEMMA Bounds ==
  ASSUME NEW m \in Modes
  PROVE  /\ 2 < BspCore(m) /\ BspCore(m) + 1 < BspLeaves(m) /\ BspLeaves(m) < BspMode(m)
         /\ BspMode(m) < LastRelease(m) /\ LastRelease(m) + 6 = BspExit(m) /\ 7 < BspLeaves(m)
         /\ 1 < ApLookAt(m) - 1 /\ ApLookAt(m) < ApExit(m) - 2
         /\ {BspCore(m), BspLeaves(m), BspMode(m), LastRelease(m), BspExit(m)} \subseteq Nat
         /\ {ApLookAt(m), ApExit(m)} \subseteq Nat
         /\ BspExit(m) <= BspExit("traditional") /\ ApExit(m) <= BspExit("traditional")
  BY DEF BspCore, BspLeaves, BspMode, LastRelease, BspExit, ApLookAt, ApExit, Pick

LEMMA Tallies ==
  ASSUME NEW m \in Modes, NEW i \in Nat
  PROVE  /\ {Waits(m, i), Releases(m, i), Signals(m, i), Awaits(m, i)} \subseteq Nat
         /\ i <= 7 => Waits(m, i) = 0 /\ Releases(m, i) = 0
         /\ i <= 2 => Signals(m, i) = 0 /\ Awaits(m, i) = 0
  BY DEF Waits, Releases, Signals, Awaits, Pick, One

LEMMA WaitPlace ==
  ASSUME NEW m \in Modes, NEW i \in BspPlaces(m, "wait")
  PROVE  /\ i \in Nat /\ i >= 7 /\ i <= BspExit(m) - 4
         /\ Waits(m, i + 1) = Waits(m, i) + 1 /\ Releases(m, i + 1) = Releases(m, i)
         /\ i < LastRelease(m) \/ i = LastRelease(m) + 2
         /\ i # BspCore(m) /\ i # BspCore(m) + 1 /\ i # BspLeaves(m) /\ i # BspMode(m)
         /\ i + 1 # BspCore(m) + 1 /\ i # BspExit(m) - 3
  BY DEF BspPlaces, Waits, Releases, Pick, One, LastRelease, BspExit, BspCore, BspLeaves, BspMode

LEMMA ReleasePlace ==
  ASSUME NEW m \in Modes, NEW i \in BspPlaces(m, "release")
  PROVE  /\ i \in Nat /\ i > 7 /\ i <= LastRelease(m)
         /\ Releases(m, i + 1) = Releases(m, i) + 1 /\ Waits(m, i + 1) = Waits(m, i)
         /\ i # BspCore(m) /\ i # BspCore(m) + 1 /\ i # BspLeaves(m) /\ i # BspMode(m)
         /\ i + 1 # BspCore(m) + 1
         /\ \A j \in Nat : Awaits(m, j) <= Releases(m, i) => j < ApExit(m) - 1
         /\ i = LastRelease(m) => \A j \in Nat : j < ApExit(m) => Signals(m, j) <= Waits(m, i)
  BY DEF BspPlaces, Waits, Releases, Awaits, Signals, Pick, One, LastRelease, BspExit, BspCore,
         BspLeaves, BspMode, ApExit

\* The places of the BSP at which it neither counts nor exchanges signals.
QuietSteps == {"enter", "clear", "gather", "gatherAgain", "sync", "core", "drain", "leave",
               "mode", "absent", "forget"}
LEMMA QuietPlace ==
  ASSUME NEW m \in Modes, NEW step \in QuietSteps, NEW i \in BspPlaces(m, step)
  PROVE  /\ i \in Nat /\ i >= 1 /\ i # 6 /\ i # 7 /\ i <= BspExit(m) - 3
         /\ Waits(m, i + 1) = Waits(m, i) /\ Releases(m, i + 1) = Releases(m, i)
         /\ i # LastRelease(m) /\ i # LastRelease(m) + 2
         /\ step = "gather" => i = 3 /\ BspCore(m) > 7
         /\ step # "leave" => i # BspLeaves(m)
         /\ step # "mode" => i # BspMode(m)
         /\ step # "core" => i # BspCore(m)
         /\ step # "drain" => i # BspCore(m) + 1
         /\ step # "forget" => i # BspExit(m) - 3
         /\ step # "absent" => i # LastRelease(m) + 1
         /\ step # "enter" => i > 1
  BY SMTT(60) DEF QuietSteps, BspPlaces, Waits, Releases, Pick, One, LastRelease, BspExit, BspCore,
     BspLeaves, BspMode

\* An AP signals only when all the signals it sent before have been waited for.
LEMMA SignalPlace ==
  ASSUME NEW m \in Modes, NEW j \in ApPlacesOf(m, "signal")
  PROVE  /\ j \in Nat /\ j > 1 /\ j < ApExit(m) /\ j # ApExit(m) - 2
         /\ Signals(m, j + 1) = Signals(m, j) + 1 /\ Awaits(m, j + 1) = Awaits(m, j)
         /\ j # ApLookAt(m) /\ j # ApLookAt(m) - 1 /\ j + 1 # ApLookAt(m)
         /\ \A i \in Nat : i <= BspExit(m) - 2 /\ Awaits(m, j) <= Releases(m, i) =>
              /\ Signals(m, j) <= Waits(m, i)
              /\ i <= LastRelease(m) => j + 1 < ApExit(m)
              /\ i \in LastRelease(m) + 1 .. LastRelease(m) + 2 /\ Signals(m, j) = Waits(m, i)
                   => j + 1 = ApExit(m)
              /\ j + 1 = ApExit(m) => Awaits(m, j) = Releases(m, i)
  BY SMTT(60) DEF ApPlacesOf, Waits, Releases, Awaits, Signals, Pick, One, LastRelease, BspExit,
     ApExit, ApLookAt

LEMMA AwaitPlace ==
  ASSUME NEW m \in Modes, NEW j \in ApPlacesOf(m, "await")
  PROVE  /\ j \in Nat /\ j > 1 /\ j + 1 <= ApExit(m) - 2
         /\ Signals(m, j + 1) = Signals(m, j) /\ Awaits(m, j + 1) = Awaits(m, j) + 1
         /\ j # ApLookAt(m)
  BY DEF ApPlacesOf, Awaits, Signals, Pick, One, ApExit, ApLookAt

\* An AP looks at InsideSmm after the release that lets it, and gets back to
\* the place before when it has run a procedure.
LEMMA LookPlace ==
  ASSUME NEW m \in Modes
  PROVE  /\ ApPlacesOf(m, "look") = {ApLookAt(m)}
         /\ Signals(m, ApLookAt(m) + 1) = Signals(m, ApLookAt(m))
         /\ Signals(m, ApLookAt(m) - 1) = Signals(m, ApLookAt(m))
         /\ Awaits(m, ApLookAt(m) + 1) = Awaits(m, ApLookAt(m))
         /\ Awaits(m, ApLookAt(m)) = Awaits(m, ApLookAt(m) - 1) + 1
         /\ \A i \in Nat : i <= BspLeaves(m) => Releases(m, i) < Awaits(m, ApLookAt(m))
  BY DEF ApPlacesOf, Awaits, Signals, Releases, Pick, One, ApLookAt, BspLeaves

LEMMA AbsentPlace ==
  ASSUME NEW m \in Modes, NEW j \in ApPlacesOf(m, "absent")
  PROVE  /\ j = ApExit(m) - 2
         /\ Signals(m, j + 1) = Signals(m, j) /\ Awaits(m, j + 1) = Awaits(m, j)
  BY DEF ApPlacesOf, Awaits, Signals, Pick, One, ApExit

\* While the BSP is in the SMM core an AP that is not busy waits to be released.
LEMMA CorePlace ==
  ASSUME NEW m \in Modes, NEW i \in BspPlaces(m, "core"), NEW j \in Nat, 1 < j,
         Awaits(m, j) <= Releases(m, i), Signals(m, j) >= Waits(m, i)
  PROVE  j = ApLookAt(m) - 1
  BY DEF BspPlaces, Awaits, Signals, Releases, Waits, Pick, One, ApLookAt, BspCore

BspSteps == QuietSteps \cup {"lock", "wait", "release", "count", "reset", "unsync", "exit"}
ApSteps == {"join", "signal", "await", "look", "absent", "exit"}

\* Where the program of a processor is.
LEMMA WhereItIs ==
  ASSUME TypeOK, Shape, NEW c \in Cpu
  PROVE  /\ my[c] \in Modes /\ at[c] \in Nat /\ at[c] >= 1
         /\ \A step \in BspSteps :
              InBsp(c, step) => /\ pc[c] = "bspHandler" /\ at[c] \in 1 .. BspExit(my[c])
                                /\ at[c] \in BspPlaces(my[c], step)
         /\ \A step \in ApSteps :
              InAp(c, step) => /\ pc[c] = "apHandler" /\ at[c] \in 1 .. ApExit(my[c])
                               /\ at[c] \in ApPlacesOf(my[c], step)
<1>1. my[c] \in Modes /\ at[c] \in Nat /\ at[c] >= 1
  <2>1. "traditional" \in Modes
    BY RendezvousAssumption
  <2>2. Len(BspProgram("traditional")) \in Nat
    BY <2>1, BspPlacesCorrect, Bounds
  <2>3. QED
    BY <2>2 DEF TypeOK
<1>2. pc[c] = "bspHandler" => at[c] \in 1 .. BspExit(my[c])
  BY <1>1, Bounds DEF Shape
<1>3. pc[c] = "apHandler" => at[c] \in 1 .. ApExit(my[c])
  BY <1>1, Bounds DEF Shape
<1>4. ASSUME NEW step \in BspSteps, InBsp(c, step)
      PROVE  /\ pc[c] = "bspHandler" /\ at[c] \in 1 .. BspExit(my[c])
             /\ at[c] \in BspPlaces(my[c], step)
  BY <1>1, <1>2, <1>4, BspPlacesCorrect DEF InBsp, QuietSteps, BspSteps
<1>5. ASSUME NEW step \in ApSteps, InAp(c, step)
      PROVE  /\ pc[c] = "apHandler" /\ at[c] \in 1 .. ApExit(my[c])
             /\ at[c] \in ApPlacesOf(my[c], step)
  BY <1>1, <1>3, <1>5, ApPlacesCorrect DEF InAp, ApSteps
<1>6. QED
  BY <1>1, <1>4, <1>5

---------------------------------------------------------------------------
\* Members, and what a step of one processor leaves alone.

LEMMA CpuCount == IsFiniteSet(Cpu) /\ NumberOfCpus \in Nat /\ NumberOfCpus < Locked - 1 /\ Locked \in Nat
  BY RendezvousAssumption, FS_CardinalityType DEF NumberOfCpus, Locked

\* How the number of processors in a set changes.
LEMMA Counting ==
  ASSUME NEW S, S \subseteq Cpu
  PROVE  /\ IsFiniteSet(S) /\ Cardinality(S) \in Nat /\ Cardinality(S) <= NumberOfCpus
         /\ \A c \in Cpu : c \notin S => Cardinality(S \cup {c}) = Cardinality(S) + 1
         /\ \A c \in S : Cardinality(S \ {c}) = Cardinality(S) - 1
         /\ \A T : T \subseteq S =>
              /\ Cardinality(T) \in Nat /\ Cardinality(T) <= Cardinality(S)
              /\ Cardinality(T) = Cardinality(S) => T = S
         /\ Cardinality(S) = 0 <=> S = {}
<1>1. IsFiniteSet(S) /\ Cardinality(S) \in Nat /\ Cardinality(S) <= NumberOfCpus
  BY CpuCount, FS_Subset, FS_CardinalityType DEF NumberOfCpus
<1>2. \A c \in Cpu : c \notin S => Cardinality(S \cup {c}) = Cardinality(S) + 1
  BY <1>1, FS_AddElement
<1>3. \A c \in S : Cardinality(S \ {c}) = Cardinality(S) - 1
  BY <1>1, FS_RemoveElement
<1>4. \A T : T \subseteq S =>
        /\ Cardinality(T) \in Nat /\ Cardinality(T) <= Cardinality(S)
        /\ Cardinality(T) = Cardinality(S) => T = S
  BY <1>1, FS_Subset, FS_CardinalityType
<1>5. Cardinality(S) = 0 <=> S = {}
  BY <1>1, FS_EmptySet
<1>6. QED
  BY <1>1, <1>2, <1>3, <1>4, <1>5

\* Only processor c has moved.
Alone(c) ==
    \A o \in Cpu \ {c} :
        /\ pc'[o] = pc[o] /\ at'[o] = at[o] /\ my'[o] = my[o]
        /\ bsp'[o] = bsp[o] /\ apCount'[o] = apCount[o]

LEMMA OthersKeep ==
  ASSUME NEW c \in Cpu, Alone(c), NEW o \in Cpu \ {c}
  PROVE  /\ Leads(o)' <=> Leads(o)
         /\ Follows(o)' <=> Follows(o)
         /\ Joined(o)' <=> Joined(o)
         /\ Arriving(o)' <=> Arriving(o)
  BY DEF Alone, Leads, Follows, Joined, Arriving

LEMMA RolesDiffer ==
  ASSUME NEW c \in Cpu
  PROVE  /\ Joined(c) => ~Leads(c) /\ ~Arriving(c) /\ Follows(c)
         /\ Leads(c) => ~Joined(c) /\ ~Arriving(c) /\ ~Follows(c)
         /\ Follows(c) /\ ~Joined(c) /\ at[c] \in Nat /\ at[c] >= 1 => Arriving(c)
  BY DEF Leads, Follows, Joined, Arriving

\* A step of a processor that neither leads nor takes part in the handshakes,
\* before and after it.
LEMMA OutsiderStep ==
  ASSUME IInv, TypeOK', Shape', NEW c \in Cpu, Alone(c),
         ~Joined(c), ~Leads(c), ~Joined(c)', ~Leads(c)',
         UNCHANGED <<insideSmm, bspIndex, mode, run, present>>,
         busy' = busy \/ busy' = busy \ {c},
         \/ (Arriving(c)' <=> Arriving(c)) /\ counter' = counter
         \/ ~Arriving(c) /\ Arriving(c)' /\ counter # Locked /\ counter' = counter + 1
              /\ c \notin busy'
         \/ Arriving(c) /\ ~Arriving(c)' /\ counter' = counter - 1,
         Arriving(c)' /\ pc'[c] \notin {"elect", "apCall"} => my'[c] = mode,
         Follows(c)' => Follows(c) \/ insideSmm,
         ~Election => /\ c = DefaultBsp => pc'[c] \notin ApPlaces
                      /\ pc'[c] = "bspHandler" => pc[c] = "bspHandler"
  PROVE  Roles'
<1>0. /\ \A o \in Cpu \ {c} :
           /\ Leads(o)' <=> Leads(o)
           /\ Follows(o)' <=> Follows(o)
           /\ Joined(o)' <=> Joined(o)
           /\ Arriving(o)' <=> Arriving(o)
      /\ \A o \in Cpu :
           /\ Leads(o)' <=> Leads(o)
           /\ Joined(o)' <=> Joined(o)
  BY OthersKeep
<1>1. \A o \in Cpu : my[o] \in Modes /\ at[o] \in Nat /\ at[o] >= 1
  BY WhereItIs DEF IInv
<1>a. \A o \in Cpu : Leads(o) \/ Joined(o) =>
        /\ o # c /\ pc'[o] = pc[o] /\ at'[o] = at[o] /\ my'[o] = my[o]
        /\ bsp'[o] = bsp[o] /\ apCount'[o] = apCount[o] /\ run'[o] = run[o]
        /\ o \in busy' <=> o \in busy
  BY DEF Alone
<1>2. Leader'
  <2>1. Leader /\ bspIndex' = bspIndex /\ bspIndex \in Cpu \cup {None}
    BY DEF IInv, Roles, TypeOK
  <2>2. \A b, o \in Cpu : Leads(b)' /\ Leads(o)' => b = o
    BY <1>0, <2>1 DEF Leader
  <2>3. \A b \in Cpu : Leads(b)' /\ at'[b] <= BspExit(my'[b]) - 3 => bspIndex' = b
    BY <1>0, <1>a, <2>1 DEF Leader
  <2>4. ~Election => /\ bspIndex' = DefaultBsp /\ pc'[DefaultBsp] \notin ApPlaces
                     /\ \A o \in Cpu : pc'[o] = "bspHandler" => o = DefaultBsp
    BY <2>1, RendezvousAssumption DEF Leader, Alone
  <2>5. Election /\ bspIndex' # None =>
          Leads(bspIndex)' /\ at'[bspIndex'] <= BspExit(my'[bspIndex']) - 3
    <3>1. SUFFICES ASSUME Election, bspIndex # None
                   PROVE  Leads(bspIndex)' /\ at'[bspIndex] <= BspExit(my'[bspIndex]) - 3
      BY <2>1
    <3>2. bspIndex \in Cpu /\ Leads(bspIndex) /\ at[bspIndex] <= BspExit(my[bspIndex]) - 3
      BY <2>1, <3>1 DEF Leader
    <3>3. /\ pc'[bspIndex] = pc[bspIndex] /\ at'[bspIndex] = at[bspIndex]
          /\ my'[bspIndex] = my[bspIndex]
      BY <1>a, <3>2
    <3>4. QED
      BY <2>1, <3>2, <3>3 DEF Leads
  <2>6. QED
    BY <2>2, <2>3, <2>4, <2>5 DEF Leader
<1>3. Inside'
  <2>1. \A b \in Cpu : pc[b] = "bspHandler" /\ at[b] \in 2 .. BspLeaves(my[b]) => Leads(b)
    BY <1>1, Bounds DEF Leads
  <2>2. \A b \in Cpu : pc'[b] = "bspHandler" /\ at'[b] \in 2 .. BspLeaves(my'[b]) => Leads(b)'
    <3>1. \A b \in Cpu : my'[b] \in Modes
      BY DEF TypeOK
    <3>2. QED
      BY <3>1, Bounds DEF Leads
  <2>3. QED
    BY <1>0, <1>a, <2>1, <2>2 DEF IInv, Roles, Inside
<1>4. ModeRead'
  BY <1>0, <1>1, <1>a DEF IInv, Roles, ModeRead, Alone
<1>5. Counted'
  <2>1. Members \subseteq Cpu /\ Members' \subseteq Cpu
    BY DEF Members
  <2>2. /\ (Arriving(c)' <=> Arriving(c)) => Members' = Members
        /\ ~Arriving(c) /\ Arriving(c)' => Members' = Members \cup {c} /\ c \notin Members
        /\ Arriving(c) /\ ~Arriving(c)' => Members' = Members \ {c} /\ c \in Members
    BY <1>0 DEF Members
  <2>3. /\ (Arriving(c)' <=> Arriving(c)) => Cardinality(Members') = Cardinality(Members)
        /\ ~Arriving(c) /\ Arriving(c)' => Cardinality(Members') = Cardinality(Members) + 1
        /\ Arriving(c) /\ ~Arriving(c)' => Cardinality(Members') = Cardinality(Members) - 1
    BY <2>1, <2>2, Counting
  <2>4. Cardinality(Members) \in Nat /\ counter \in Nat
    BY <2>1, Counting DEF IInv, TypeOK
  <2>5. (\A b \in Cpu : Leads(b)' => at'[b] <= 6) => counter' = Cardinality(Members')
    BY <1>0, <1>a, <2>3, <2>4 DEF IInv, Roles, Counted
  <2>6. ASSUME NEW b \in Cpu, Leads(b)'
        PROVE  CountedBy(b)'
    <3>1. /\ CountedBy(b) /\ at'[b] = at[b] /\ my'[b] = my[b] /\ apCount'[b] = apCount[b]
          /\ run'[b] = run[b] /\ apCount[b] \in Nat /\ run[b] \in Nat
      BY <1>0, <1>a, <2>6, CpuCount DEF IInv, Roles, Counted, TypeOK
    <3>2. at[b] \in Nat /\ LastRelease(my[b]) \in Nat /\ LastRelease(my[b]) > 7
      BY <1>1, Bounds
    <3>3. at[b] > 7 => (Arriving(c)' <=> Arriving(c)) /\ counter' = counter
      BY <3>1 DEF CountedBy
    <3>4. at[b] \in 7 .. LastRelease(my[b]) =>
            counter' + apCount[b] + 1 = Locked + Cardinality(Members')
      BY <2>3, <2>4, <3>1, CpuCount DEF CountedBy
    <3>5. at[b] > 7 => counter' = Locked /\ \A o \in Cpu : ~Arriving(o)'
      BY <1>0, <3>1, <3>3 DEF CountedBy
    <3>6. at[b] \in LastRelease(my[b]) + 1 .. LastRelease(my[b]) + 2 =>
            run[b] + Cardinality(Members') = apCount[b] + 1
      BY <2>3, <3>1, <3>2, <3>3 DEF CountedBy
    <3>7. at[b] > LastRelease(my[b]) + 2 => run[b] = 0 /\ \A o \in Cpu : ~Joined(o)'
      BY <1>0, <3>1 DEF CountedBy
    <3>8. QED
      BY <3>1, <3>4, <3>5, <3>6, <3>7 DEF CountedBy
  <2>7. QED
    BY <2>5, <2>6 DEF Counted
<1>6. InStep'
  <2>1. \A o \in Cpu : Follows(o)' => \E b \in Cpu : Leads(b)' /\ at'[b] > 1
    <3>1. Follows(c)' => \E b \in Cpu : Leads(b) /\ at[b] > 1
      BY <1>1, Bounds DEF IInv, Roles, InStep, Inside, Leads
    <3>2. QED
      BY <1>0, <1>a, <3>1 DEF IInv, Roles, InStep
  <2>2. \A o, b \in Cpu : Joined(o)' /\ Leads(b)' => InStepWith(o, b)'
    BY <1>0, <1>a DEF IInv, Roles, InStep, InStepWith
  <2>3. \A b \in Cpu : Leads(b) => Signalled(b)' = Signalled(b)
    BY <1>0, <1>a DEF Signalled
  <2>4. QED
    BY <1>0, <1>a, <2>1, <2>2, <2>3 DEF IInv, Roles, InStep
<1>7. Presence'
  <2>1. \A o \in Cpu : o \in present' <=> \/ Joined(o)' /\ at'[o] <= ApExit(my'[o]) - 2
                                          \/ Leads(o)' /\ at'[o] \in 2 .. LastRelease(my'[o]) + 1
    BY <1>0, <1>a DEF IInv, Roles, Presence
  <2>2. ASSUME NEW o \in Cpu, o \in busy', Arriving(o)' \/ Joined(o)'
        PROVE  /\ Joined(o)' /\ at'[o] \in ApLookAt(my'[o]) - 1 .. ApLookAt(my'[o])
               /\ \E b \in Cpu : Leads(b)' /\ at'[b] \in BspCore(my'[b]) .. BspCore(my'[b]) + 1
    <3>1. o \in busy /\ (Arriving(o) \/ Joined(o))
      BY <1>0, <2>2
    <3>2. /\ Joined(o) /\ at[o] \in ApLookAt(my[o]) - 1 .. ApLookAt(my[o])
          /\ \E b \in Cpu : Leads(b) /\ at[b] \in BspCore(my[b]) .. BspCore(my[b]) + 1
      BY <3>1 DEF IInv, Roles, Presence
    <3>3. QED
      BY <1>0, <1>a, <3>2
  <2>3. \A o \in Cpu : pc'[o] = "procedure" => o \in busy'
    <3>1. pc'[c] # "procedure"
      <4>1. my'[c] \in Modes
        BY DEF TypeOK
      <4>2. QED
        BY <4>1, Bounds DEF Shape, Joined, Follows
    <3>2. QED
      BY <3>1 DEF IInv, Roles, Presence, Alone
  <2>4. QED
    BY <2>1, <2>2, <2>3 DEF Presence
<1>8. QED
  BY <1>2, <1>3, <1>4, <1>5, <1>6, <1>7 DEF Roles

---------------------------------------------------------------------------
\* Types.

\* The moves of a processor.
LEMMA MovesType ==
  ASSUME TypeOK, Shape, NEW c \in Cpu
  PROVE  /\ \A p \in Places :
              Goto(c, p) => /\ pc' \in [Cpu -> Places] /\ at' = at /\ my' = my /\ bsp' = bsp
                            /\ apCount' = apCount
         /\ Return(c) => /\ pc' \in [Cpu -> Places]
                         /\ at' \in [Cpu -> 1 .. Len(BspProgram("traditional"))]
                         /\ bsp' \in [Cpu -> Cpu \cup {None}]
                         /\ apCount' \in [Cpu -> 0 .. Locked] /\ my' = my
         /\ \A p \in Places :
              Call(c, p) => /\ pc' \in [Cpu -> Places] /\ bsp' = bsp /\ apCount' = apCount
                            /\ at' \in [Cpu -> 1 .. Len(BspProgram("traditional"))]
<1>1. Len(BspProgram("traditional")) \in Nat /\ 1 <= Len(BspProgram("traditional"))
  BY BspPlacesCorrect, RendezvousAssumption, Bounds
<1>2. \A p \in Places :
        Goto(c, p) => /\ pc' \in [Cpu -> Places] /\ at' = at /\ my' = my /\ bsp' = bsp
                      /\ apCount' = apCount
  BY DEF TypeOK, Goto
<1>3. Return(c) => /\ pc' \in [Cpu -> Places]
                   /\ at' \in [Cpu -> 1 .. Len(BspProgram("traditional"))]
                   /\ bsp' \in [Cpu -> Cpu \cup {None}]
                   /\ apCount' \in [Cpu -> 0 .. Locked] /\ my' = my
  BY <1>1, CpuCount DEF TypeOK, Return, Places
<1>4. \A p \in Places :
        Call(c, p) => /\ pc' \in [Cpu -> Places] /\ bsp' = bsp /\ apCount' = apCount
                      /\ at' \in [Cpu -> 1 .. Len(BspProgram("traditional"))]
  BY <1>1 DEF TypeOK, Call
<1>5. QED
  BY <1>2, <1>3, <1>4

\* A step forward in a program stays in it.
LEMMA AdvanceType ==
  ASSUME TypeOK, Shape, NEW c \in Cpu, NEW n \in 1 .. 2,
         \/ \E step \in BspSteps \ {"exit"} :
              /\ InBsp(c, step) /\ (n = 1 \/ step = "gather")
         \/ \E step \in ApSteps \ {"exit"} : InAp(c, step) /\ n = 1,
         at' = [at EXCEPT ![c] = @ + n]
  PROVE  /\ at' \in [Cpu -> 1 .. Len(BspProgram("traditional"))]
         /\ pc[c] = "bspHandler" => at[c] + n <= BspExit(my[c])
         /\ pc[c] = "apHandler" => at[c] + 1 <= ApExit(my[c]) /\ n = 1
<1>1. /\ Len(BspProgram("traditional")) = BspExit("traditional")
      /\ \A m \in Modes : BspExit(m) <= BspExit("traditional") /\ ApExit(m) <= BspExit("traditional")
      /\ \A m \in Modes : BspExit(m) \in Nat /\ ApExit(m) \in Nat
  BY BspPlacesCorrect, RendezvousAssumption, Bounds
<1>2. my[c] \in Modes /\ at[c] \in Nat /\ at[c] >= 1
  BY WhereItIs
<1>3. CASE \E step \in BspSteps \ {"exit"} : InBsp(c, step) /\ (n = 1 \/ step = "gather")
  <2>1. PICK step \in BspSteps \ {"exit"} : InBsp(c, step) /\ (n = 1 \/ step = "gather")
    BY <1>3
  <2>2. pc[c] = "bspHandler" /\ at[c] \in BspPlaces(my[c], step)
    BY <2>1, WhereItIs
  <2>3. at[c] + n <= BspExit(my[c])
    BY <1>2, <2>1, <2>2 DEF BspSteps, QuietSteps, BspPlaces, Pick, BspExit, BspCore, BspLeaves,
       BspMode, LastRelease
  <2>4. at[c] + n \in 1 .. Len(BspProgram("traditional"))
    BY <1>1, <1>2, <2>3
  <2>5. at \in [Cpu -> 1 .. Len(BspProgram("traditional"))]
    BY DEF TypeOK
  <2>6. QED
    BY <2>2, <2>3, <2>4, <2>5
<1>4. CASE \E step \in ApSteps \ {"exit"} : InAp(c, step) /\ n = 1
  <2>1. PICK step \in ApSteps \ {"exit"} : InAp(c, step) /\ n = 1
    BY <1>4
  <2>2. pc[c] = "apHandler" /\ at[c] \in ApPlacesOf(my[c], step)
    BY <2>1, WhereItIs
  <2>3. at[c] + n <= ApExit(my[c])
    BY <1>2, <2>1, <2>2 DEF ApSteps, ApPlacesOf, Pick, ApLookAt, ApExit
  <2>4. at[c] + n \in 1 .. Len(BspProgram("traditional"))
    BY <1>1, <1>2, <2>3
  <2>5. at \in [Cpu -> 1 .. Len(BspProgram("traditional"))]
    BY DEF TypeOK
  <2>6. QED
    BY <2>1, <2>2, <2>3, <2>4, <2>5
<1>5. QED
  BY <1>3, <1>4

\* Semaphores.
LEMMA SemaphoreType ==
  ASSUME TypeOK, NEW c \in Cpu
  PROVE  /\ \A n \in Nat : WaitForSemaphore(c, n) => run' \in [Cpu -> Nat]
         /\ \A cs \in SUBSET Cpu : ReleaseSemaphore(cs) => run' \in [Cpu -> Nat]
<1>1. run \in [Cpu -> Nat]
  BY DEF TypeOK
<1>2. ASSUME NEW n \in Nat, WaitForSemaphore(c, n)
      PROVE  run' \in [Cpu -> Nat]
  <2>1. run[c] - n \in Nat
    BY <1>1, <1>2 DEF WaitForSemaphore
  <2>2. QED
    BY <1>1, <1>2, <2>1 DEF WaitForSemaphore
<1>3. ASSUME NEW cs \in SUBSET Cpu, ReleaseSemaphore(cs)
      PROVE  run' \in [Cpu -> Nat]
  BY <1>1, <1>3 DEF ReleaseSemaphore
<1>4. QED
  BY <1>2, <1>3

\* The steps of SmiRendezvous outside the handlers.
LEMMA EntryType ==
  ASSUME TypeOK, Shape, NEW c \in Cpu,
         SmiEntry(c) \/ BspInProgress(c) \/ CheckIn(c) \/ TooLate(c) \/ Elect(c)
           \/ CallApHandler(c) \/ Exit(c)
  PROVE  TypeOK'
<1> USE DEF vars, local, sync, modes, data, chipset
<1>1. CASE SmiEntry(c)
  <2>1. {"valid", "invalid"} \subseteq Places
    BY DEF Places
  <2>2. pending' \subseteq Cpu
    BY <1>1 DEF SmiEntry, TypeOK
  <2>3. QED
    BY <1>1, <2>1, <2>2, MovesType DEF SmiEntry, TypeOK
<1>2. CASE BspInProgress(c)
  <2>1. {"checkInAp", "checkIn"} \subseteq Places
    BY DEF Places
  <2>2. QED
    BY <1>2, <2>1, MovesType DEF BspInProgress, TypeOK
<1>3. CASE CheckIn(c)
  <2>1. {"elect", "apCall"} \subseteq Places
    BY DEF Places
  <2>2. counter' \in 0 .. Locked /\ busy' \subseteq Cpu
    BY <1>3, CpuCount DEF CheckIn, TypeOK
  <2>3. QED
    BY <1>3, <2>1, <2>2, MovesType DEF CheckIn, TypeOK
<1>4. CASE TooLate(c)
  <2>1. "late" \in Places
    BY DEF Places
  <2>2. QED
    BY <1>4, <2>1, MovesType DEF TooLate, TypeOK
<1>5. CASE Elect(c)
  <2>1. {"bspHandler", "apCall"} \subseteq Places
    BY DEF Places
  <2>2. bspIndex' \in Cpu \cup {None}
    BY <1>5 DEF Elect, TypeOK
  <2>3. my' = my \/ my' = [my EXCEPT ![c] = mode]
    BY <1>5 DEF Elect, Goto
  <2>4. my' \in [Cpu -> Modes]
    BY <2>3 DEF TypeOK
  <2>5. QED
    BY <1>5, <2>1, <2>2, <2>4, MovesType DEF Elect, TypeOK
<1>6. CASE CallApHandler(c)
  <2>1. "ap" \in Places
    BY DEF Places
  <2>2. my' \in [Cpu -> Modes]
    BY <1>6 DEF CallApHandler, TypeOK
  <2>3. QED
    BY <1>6, <2>1, <2>2, MovesType DEF CallApHandler, TypeOK
<1>7. CASE Exit(c)
  BY <1>7, MovesType DEF Exit, TypeOK
<1>8. QED
  BY <1>1, <1>2, <1>3, <1>4, <1>5, <1>6, <1>7

LEMMA BspType ==
  ASSUME TypeOK, Shape, NEW c \in Cpu, BSPHandler(c)
  PROVE  TypeOK' /\ (pc[c] = "bspHandler" /\ pc' = pc /\ my' = my /\ bsp' = bsp)
                 /\ at'[c] <= BspExit(my[c]) /\ at' = [at EXCEPT ![c] = at'[c]]
<1> USE DEF vars, local, sync, modes, data, chipset
<1> DEFINE Stays == pc[c] = "bspHandler" /\ pc' = pc /\ my' = my /\ bsp' = bsp
           Moved(n) == at' = [at EXCEPT ![c] = @ + n]
           Place == /\ at' \in [Cpu -> 1 .. Len(BspProgram("traditional"))]
                    /\ at'[c] <= BspExit(my[c]) /\ at' = [at EXCEPT ![c] = at'[c]]
<1>0. "gather" \in BspSteps \ {"exit"} /\ 1 \in 1 .. 2 /\ 2 \in 1 .. 2
  BY DEF BspSteps, QuietSteps
<1>1. ASSUME NEW step \in BspSteps \ {"exit"}, InBsp(c, step), NEW n \in 1 .. 2,
             n = 1 \/ step = "gather", Moved(n)
      PROVE  Place
  <2>1. at' \in [Cpu -> 1 .. Len(BspProgram("traditional"))] /\ at[c] + n <= BspExit(my[c])
    BY <1>1, AdvanceType DEF InBsp
  <2>2. at'[c] = at[c] + n
    BY <1>1 DEF TypeOK
  <2>3. QED
    BY <1>1, <2>1, <2>2
<1>2. \A step : InBsp(c, step) /\ Advance(c) => Stays /\ Moved(1) /\ apCount' = apCount
  BY DEF Advance, Skip, InBsp
<1>3. {"enter", "clear", "gather", "gatherAgain", "sync", "lock", "wait", "release", "core",
       "drain", "count", "leave", "mode", "absent", "forget", "reset", "unsync"}
         \subseteq BspSteps \ {"exit"}
  BY DEF BspSteps, QuietSteps
<1>4. \A step \in BspSteps \ {"exit"} : InBsp(c, step) /\ Advance(c) => Place
  BY <1>0, <1>1, <1>2
<1> HIDE DEF Place
<1>5. /\ \A step \in BspSteps \ {"exit"} : InBsp(c, step) => pc[c] = "bspHandler"
      /\ at \in [Cpu -> 1 .. Len(BspProgram("traditional"))]
  BY DEF InBsp, TypeOK
<1>6. CASE BspEnter(c)
  <2>1. present' \subseteq Cpu
    BY <1>6 DEF BspEnter, TypeOK
  <2>2. Place /\ Stays /\ apCount' = apCount
    BY <1>2, <1>3, <1>4, <1>6 DEF BspEnter
  <2>3. QED
    BY <1>6, <2>1, <2>2 DEF BspEnter, TypeOK, Place
<1>7. CASE BspClearStatus(c)
  <2>1. Place /\ Stays /\ apCount' = apCount
    BY <1>2, <1>3, <1>4, <1>7 DEF BspClearStatus
  <2>2. QED
    BY <1>7, <2>1 DEF BspClearStatus, TypeOK, Place
<1>8. CASE BspGather(c)
  <2>1. Stays /\ apCount' = apCount /\ (Moved(1) \/ Moved(2))
    BY <1>8 DEF BspGather, Skip, Advance, InBsp
  <2>2. Place
    BY <1>0, <1>1, <1>8, <2>1 DEF BspGather
  <2>3. pending' \subseteq Cpu /\ UNCHANGED <<smiStatus, smis, unserved>>
    BY <1>8 DEF BspGather, SendSmiIpi, TypeOK
  <2>4. QED
    BY <1>8, <2>1, <2>2, <2>3 DEF BspGather, TypeOK, Place
<1>9. CASE BspGatherAgain(c)
  <2>1. Place /\ Stays /\ apCount' = apCount
    BY <1>2, <1>3, <1>4, <1>9 DEF BspGatherAgain
  <2>2. QED
    BY <1>9, <2>1 DEF BspGatherAgain, TypeOK, Place
<1>10. CASE BspSync(c)
  <2>1. Place /\ Stays /\ apCount' = apCount
    BY <1>2, <1>3, <1>4, <1>10 DEF BspSync
  <2>2. QED
    BY <1>10, <2>1 DEF BspSync, TypeOK, Place
<1>11. CASE BspLock(c)
  <2>1. Stays /\ Moved(1)
    BY <1>11 DEF BspLock, InBsp
  <2>2. Place
    BY <1>0, <1>1, <1>3, <1>11, <2>1 DEF BspLock
  <2>3. (counter + Locked) % CounterSize \in 0 .. Locked /\ Locked \in 0 .. Locked
    BY CpuCount, RendezvousAssumption DEF TypeOK, Locked
  <2>4. apCount' \in [Cpu -> 0 .. Locked] /\ counter' \in 0 .. Locked
    BY <1>11, <2>3 DEF BspLock, TypeOK, LockdownSemaphore
  <2>5. QED
    BY <1>11, <2>1, <2>2, <2>4 DEF BspLock, TypeOK, Place
<1>12. CASE WaitForAllAPs(c)
  <2>1. Place /\ Stays /\ apCount' = apCount
    BY <1>2, <1>3, <1>4, <1>12 DEF WaitForAllAPs
  <2>2. apCount[c] \in Nat
    BY CpuCount DEF TypeOK
  <2>3. run' \in [Cpu -> Nat]
    BY <1>12, <2>2, SemaphoreType DEF WaitForAllAPs
  <2>4. QED
    BY <1>12, <2>1, <2>3 DEF WaitForAllAPs, TypeOK, Place
<1>13. CASE ReleaseAllAPs(c)
  <2>1. Place /\ Stays /\ apCount' = apCount
    BY <1>2, <1>3, <1>4, <1>13 DEF ReleaseAllAPs
  <2>2. present \ {c} \in SUBSET Cpu
    BY DEF TypeOK
  <2>3. run' \in [Cpu -> Nat]
    BY <1>13, <2>2, SemaphoreType DEF ReleaseAllAPs
  <2>4. QED
    BY <1>13, <2>1, <2>3 DEF ReleaseAllAPs, TypeOK, Place
<1>14. CASE \E o \in Cpu : SmmStartupThisAp(c, o)
  <2>1. PICK o \in Cpu : SmmStartupThisAp(c, o)
    BY <1>14
  <2>2. run' \in [Cpu -> Nat] /\ busy' \subseteq Cpu
    BY <2>1, SemaphoreType DEF SmmStartupThisAp, TypeOK
  <2>3. pc[c] = "bspHandler" /\ at[c] <= BspExit(my[c]) /\ at = [at EXCEPT ![c] = at[c]]
    BY <1>5, <2>1 DEF SmmStartupThisAp, InBsp, Shape
  <2>4. QED
    BY <2>1, <2>2, <2>3 DEF SmmStartupThisAp, TypeOK
<1>15. CASE SmmCoreEntry(c)
  <2>1. Place /\ Stays /\ apCount' = apCount
    BY <1>2, <1>3, <1>4, <1>15 DEF SmmCoreEntry
  <2>2. busy' \subseteq Cpu
    BY <1>15 DEF SmmCoreEntry, TypeOK
  <2>3. QED
    BY <1>15, <2>1, <2>2 DEF SmmCoreEntry, TypeOK, Place
<1>16. CASE BspDrain(c)
  <2>1. Place /\ Stays /\ apCount' = apCount
    BY <1>2, <1>3, <1>4, <1>16 DEF BspDrain
  <2>2. QED
    BY <1>16, <2>1 DEF BspDrain, TypeOK, Place
<1>17. CASE BspCount(c)
  <2>1. Place /\ Stays /\ apCount' = apCount
    BY <1>2, <1>3, <1>4, <1>17 DEF BspCount
  <2>2. QED
    BY <1>17, <2>1 DEF BspCount, TypeOK, Place
<1>18. CASE BspLeave(c)
  <2>1. Place /\ Stays /\ apCount' = apCount
    BY <1>2, <1>3, <1>4, <1>18 DEF BspLeave
  <2>2. QED
    BY <1>18, <2>1 DEF BspLeave, TypeOK, Place
<1>19. CASE BspSetMode(c)
  <2>1. Place /\ Stays /\ apCount' = apCount
    BY <1>2, <1>3, <1>4, <1>19 DEF BspSetMode
  <2>2. QED
    BY <1>19, <2>1 DEF BspSetMode, TypeOK, Place
<1>20. CASE BspAbsent(c)
  <2>1. Place /\ Stays /\ apCount' = apCount
    BY <1>2, <1>3, <1>4, <1>20 DEF BspAbsent
  <2>2. present' \subseteq Cpu
    BY <1>20 DEF BspAbsent, TypeOK
  <2>3. QED
    BY <1>20, <2>1, <2>2 DEF BspAbsent, TypeOK, Place
<1>21. CASE BspForget(c)
  <2>1. Place /\ Stays /\ apCount' = apCount
    BY <1>2, <1>3, <1>4, <1>21 DEF BspForget
  <2>2. bspIndex' \in Cpu \cup {None}
    BY <1>21 DEF BspForget, TypeOK
  <2>3. QED
    BY <1>21, <2>1, <2>2 DEF BspForget, TypeOK, Place
<1>22. CASE BspReset(c)
  <2>1. Place /\ Stays /\ apCount' = apCount
    BY <1>2, <1>3, <1>4, <1>22 DEF BspReset
  <2>2. counter' \in 0 .. Locked
    BY <1>22, CpuCount DEF BspReset
  <2>3. QED
    BY <1>22, <2>1, <2>2 DEF BspReset, TypeOK, Place
<1>23. CASE BspUnsync(c)
  <2>1. Place /\ Stays /\ apCount' = apCount
    BY <1>2, <1>3, <1>4, <1>23 DEF BspUnsync
  <2>2. QED
    BY <1>23, <2>1 DEF BspUnsync, TypeOK, Place
<1>24. QED
  BY <1>6, <1>7, <1>8, <1>9, <1>10, <1>11, <1>12, <1>13, <1>14, <1>15, <1>16, <1>17, <1>18,
     <1>19, <1>20, <1>21, <1>22, <1>23 DEF BSPHandler

LEMMA ApType ==
  ASSUME TypeOK, Shape, NEW c \in Cpu, APHandler(c), InAp(c, "join") => bspIndex \in Cpu
  PROVE  TypeOK' /\ Shape'
<1> USE DEF vars, local, sync, modes, data, chipset
<1> DEFINE Stays == pc[c] = "apHandler" /\ pc' = pc /\ my' = my /\ apCount' = apCount
           Moved == at' = [at EXCEPT ![c] = @ + 1]
           Place == /\ at' \in [Cpu -> 1 .. Len(BspProgram("traditional"))] /\ pc[c] = "apHandler"
                    /\ at[c] + 1 <= ApExit(my[c]) /\ at' = [at EXCEPT ![c] = at[c] + 1]
                    /\ at[c] \in Nat /\ at[c] >= 1
<1>1. ASSUME NEW step \in ApSteps \ {"exit"}, InAp(c, step), Moved
      PROVE  Place
  <2>1. at' \in [Cpu -> 1 .. Len(BspProgram("traditional"))] /\ at[c] + 1 <= ApExit(my[c])
    <3>1. 1 \in 1 .. 2
      OBVIOUS
    <3>2. pc[c] = "apHandler"
      BY <1>1 DEF InAp
    <3>3. QED
      BY <1>1, <3>1, <3>2, AdvanceType
  <2>2. at[c] \in Nat /\ at[c] >= 1
    BY WhereItIs
  <2>3. QED
    BY <1>1, <2>1, <2>2 DEF InAp
<1>2. \A step : InAp(c, step) /\ Advance(c) => Stays /\ Moved /\ bsp' = bsp
  BY DEF Advance, Skip, InAp
<1>3. {"join", "signal", "await", "look", "absent"} \subseteq ApSteps \ {"exit"}
  BY DEF ApSteps
<1>4. \A step \in ApSteps \ {"exit"} : InAp(c, step) /\ Advance(c) => Place
  BY <1>1, <1>2
<1> HIDE DEF Place
<1>5. Place /\ Stays /\ bsp' = bsp /\ bsp[c] \in Cpu => Shape'
  BY DEF Place, Shape, TypeOK
<1>6. \A p \in Places : Goto(c, p) /\ pc[c] \notin {"bspHandler", "apHandler", "procedure"}
                         /\ p \notin {"bspHandler", "procedure"} => Shape'
  <2>1. my[c] \in Modes /\ ApExit(my[c]) >= 1
    BY WhereItIs, Bounds
  <2>2. QED
    BY <2>1 DEF Goto, Shape, TypeOK
<1>7. \A step \in ApSteps : InAp(c, step) /\ step # "join" => bsp[c] \in Cpu
  <2>1. ASSUME NEW step \in ApSteps, InAp(c, step), step # "join"
        PROVE  at[c] > 1 /\ pc[c] = "apHandler"
    <3>1. my[c] \in Modes /\ pc[c] = "apHandler" /\ at[c] \in ApPlacesOf(my[c], step)
      BY <2>1, WhereItIs
    <3>2. at[c] > 1
      BY <2>1, <3>1 DEF ApSteps, ApPlacesOf, Pick, ApLookAt, ApExit
    <3>3. QED
      BY <3>1, <3>2
  <2>2. QED
    BY <2>1 DEF Shape
<1>8. CASE ApSeesBsp(c)
  <2>1. "apHandler" \in Places
    BY DEF Places
  <2>2. Goto(c, "apHandler") /\ pc[c] \notin {"bspHandler", "apHandler", "procedure"}
    BY <1>8 DEF ApSeesBsp
  <2>3. QED
    BY <1>6, <1>8, <2>1, <2>2, MovesType DEF ApSeesBsp, TypeOK
<1>9. CASE ApTimeout(c)
  <2>1. "apTimeout" \in Places
    BY DEF Places
  <2>2. Goto(c, "apTimeout") /\ pc[c] \notin {"bspHandler", "apHandler", "procedure"}
    BY <1>9 DEF ApTimeout
  <2>3. QED
    BY <1>6, <1>9, <2>1, <2>2, MovesType DEF ApTimeout, TypeOK
<1>10. CASE ApCallsBsp(c)
  <2>1. {"apAgain", "giveUp"} \subseteq Places
    BY DEF Places
  <2>2. /\ Goto(c, "apAgain") \/ Goto(c, "giveUp")
        /\ pc[c] \notin {"bspHandler", "apHandler", "procedure"}
    BY <1>10 DEF ApCallsBsp
  <2>3. pending' \subseteq Cpu /\ UNCHANGED <<smiStatus, smis, unserved>>
    BY <1>10 DEF ApCallsBsp, SendSmiIpi, TypeOK
  <2>4. QED
    BY <1>6, <1>10, <2>1, <2>2, <2>3, MovesType DEF ApCallsBsp, TypeOK
<1>11. CASE ApTimeoutAgain(c)
  <2>1. "giveUp" \in Places
    BY DEF Places
  <2>2. Goto(c, "giveUp") /\ pc[c] \notin {"bspHandler", "apHandler", "procedure"}
    BY <1>11 DEF ApTimeoutAgain
  <2>3. QED
    BY <1>6, <1>11, <2>1, <2>2, MovesType DEF ApTimeoutAgain, TypeOK
<1>12. CASE ApGiveUp(c)
  <2>1. "gaveUp" \in Places
    BY DEF Places
  <2>2. Goto(c, "gaveUp") /\ pc[c] \notin {"bspHandler", "apHandler", "procedure"}
    BY <1>12 DEF ApGiveUp
  <2>3. counter' \in 0 .. Locked
    BY <1>12, CpuCount DEF ApGiveUp, TypeOK
  <2>4. QED
    BY <1>6, <1>12, <2>1, <2>2, <2>3, MovesType DEF ApGiveUp, TypeOK
<1>13. CASE ApJoin(c)
  <2>1. Stays /\ Moved /\ InAp(c, "join")
    BY <1>13 DEF ApJoin, InAp
  <2>2. Place
    BY <1>1, <1>3, <2>1
  <2>3. bsp' = [bsp EXCEPT ![c] = bspIndex] /\ bspIndex \in Cpu
    BY <1>13, <2>1 DEF ApJoin
  <2>4. bsp' \in [Cpu -> Cpu \cup {None}] /\ present' \subseteq Cpu
    BY <1>13, <2>3 DEF TypeOK, ApJoin
  <2>5. Shape'
    BY <2>1, <2>2, <2>3 DEF Place, Shape, TypeOK
  <2>6. QED
    BY <1>13, <2>1, <2>2, <2>4, <2>5 DEF ApJoin, TypeOK, Place
<1>14. CASE ApSignal(c)
  <2>1. Place /\ Stays /\ bsp' = bsp
    BY <1>2, <1>3, <1>4, <1>14 DEF ApSignal
  <2>2. "signal" \in ApSteps /\ InAp(c, "signal")
    BY <1>14 DEF ApSignal, ApSteps
  <2>3. bsp[c] \in Cpu
    BY <1>7, <2>2
  <2>4. run' \in [Cpu -> Nat]
    BY <1>14, <2>3, SemaphoreType DEF ApSignal
  <2>5. QED
    BY <1>5, <1>14, <2>1, <2>3, <2>4 DEF ApSignal, TypeOK, Place
<1>15. CASE ApAwait(c)
  <2>1. Place /\ Stays /\ bsp' = bsp
    BY <1>2, <1>3, <1>4, <1>15 DEF ApAwait
  <2>2. "await" \in ApSteps /\ InAp(c, "await")
    BY <1>15 DEF ApAwait, ApSteps
  <2>3. bsp[c] \in Cpu
    BY <1>7, <2>2
  <2>4. run' \in [Cpu -> Nat]
    BY <1>15, SemaphoreType DEF ApAwait
  <2>5. QED
    BY <1>5, <1>15, <2>1, <2>3, <2>4 DEF ApAwait, TypeOK, Place
<1>16. CASE ApLook(c)
  <2>1. "look" \in ApSteps /\ InAp(c, "look") /\ "procedure" \in Places
    BY <1>16 DEF ApLook, ApSteps, Places
  <2>2. bsp[c] \in Cpu
    BY <1>7, <2>1
  <2>3. CASE Goto(c, "procedure")
    <3>1. my[c] \in Modes /\ at[c] \in ApPlacesOf(my[c], "look")
      BY <2>1, WhereItIs
    <3>2. at[c] = ApLookAt(my[c])
      BY <3>1, LookPlace
    <3>3. Shape'
      BY <2>2, <2>3, <3>2 DEF Shape, Goto, TypeOK
    <3>4. QED
      BY <1>16, <2>1, <2>3, <3>3, MovesType DEF ApLook, TypeOK
  <2>4. CASE Advance(c)
    <3>1. Place /\ Stays /\ bsp' = bsp
      BY <1>2, <1>3, <1>4, <2>1, <2>4
    <3>2. QED
      BY <1>5, <1>16, <2>2, <3>1 DEF ApLook, TypeOK, Place
  <2>5. QED
    BY <1>16, <2>3, <2>4 DEF ApLook
<1>17. CASE Procedure(c)
  <2>1. my[c] \in Modes /\ at[c] = ApLookAt(my[c]) /\ bsp[c] \in Cpu /\ at[c] \in Nat
    BY <1>17, WhereItIs DEF Procedure, Shape
  <2>2. 1 < at[c] - 1 /\ at[c] < ApExit(my[c]) /\ ApExit(my[c]) \in Nat
    BY <2>1, Bounds
  <2>3. /\ Len(BspProgram("traditional")) \in Nat
        /\ at \in [Cpu -> 1 .. Len(BspProgram("traditional"))]
    <3>1. "traditional" \in Modes
      BY RendezvousAssumption
    <3>2. Len(BspProgram("traditional")) \in Nat
      BY <3>1, BspPlacesCorrect, Bounds
    <3>3. QED
      BY <3>2 DEF TypeOK
  <2>4. at' \in [Cpu -> 1 .. Len(BspProgram("traditional"))]
    BY <1>17, <2>1, <2>2, <2>3 DEF Procedure
  <2>5. pc' \in [Cpu -> Places] /\ busy' \subseteq Cpu
    BY <1>17 DEF Procedure, Places, TypeOK
  <2>6. Shape'
    BY <1>17, <2>1, <2>2 DEF Procedure, Shape, TypeOK
  <2>7. QED
    BY <1>17, <2>4, <2>5, <2>6 DEF Procedure, TypeOK
<1>18. CASE ApAbsent(c)
  <2>1. Place /\ Stays /\ bsp' = bsp
    BY <1>2, <1>3, <1>4, <1>18 DEF ApAbsent
  <2>2. "absent" \in ApSteps /\ InAp(c, "absent")
    BY <1>18 DEF ApAbsent, ApSteps
  <2>3. bsp[c] \in Cpu
    BY <1>7, <2>2
  <2>4. present' \subseteq Cpu
    BY <1>18 DEF ApAbsent, TypeOK
  <2>5. QED
    BY <1>5, <1>18, <2>1, <2>3, <2>4 DEF ApAbsent, TypeOK, Place
<1>19. QED
  BY <1>8, <1>9, <1>10, <1>11, <1>12, <1>13, <1>14, <1>15, <1>16, <1>17, <1>18 DEF APHandler

LEMMA EntryShape ==
  ASSUME TypeOK, Shape, NEW c \in Cpu,
         SmiEntry(c) \/ BspInProgress(c) \/ CheckIn(c) \/ TooLate(c) \/ Elect(c)
           \/ CallApHandler(c) \/ Exit(c)
  PROVE  Shape'
<1>1. my[c] \in Modes /\ mode \in Modes
  BY WhereItIs DEF TypeOK
<1>2. BspExit(my[c]) >= 1 /\ BspExit(mode) >= 1
  BY <1>1, Bounds
<1>3. \A o \in Cpu \ {c} : pc'[o] = pc[o] /\ at'[o] = at[o] /\ my'[o] = my[o] /\ bsp'[o] = bsp[o]
  BY DEF SmiEntry, BspInProgress, CheckIn, TooLate, Elect, CallApHandler, Exit, Goto, Call, Return,
     TypeOK
<1>4. /\ at'[c] = 1 /\ pc'[c] \notin {"apHandler", "procedure"}
      /\ pc'[c] = "bspHandler" => my'[c] = mode
  <2>1. ASSUME NEW p, Goto(c, p), pc[c] \notin {"bspHandler", "apHandler", "procedure"}
        PROVE  at'[c] = 1 /\ pc'[c] = p
    BY <2>1 DEF Goto, Shape, TypeOK
  <2>2. Return(c) => at'[c] = 1 /\ pc'[c] = "outside"
    BY DEF Return, TypeOK
  <2>3. \A p : Call(c, p) => at'[c] = 1 /\ pc'[c] = p
    BY DEF Call, TypeOK
  <2>4. my' = [my EXCEPT ![c] = mode] => my'[c] = mode
    BY DEF TypeOK
  <2>5. QED
    BY <2>1, <2>2, <2>3, <2>4 DEF SmiEntry, BspInProgress, CheckIn, TooLate, Elect, CallApHandler, Exit
<1>5. QED
  BY <1>2, <1>3, <1>4 DEF Shape

LEMMA BspShape ==
  ASSUME TypeOK, Shape, NEW c \in Cpu, BSPHandler(c)
  PROVE  Shape'
  BY BspType DEF Shape, TypeOK

---------------------------------------------------------------------------
\* The steps outside the handshakes.

\* The places in the handlers; those before them, with Counter raised.
Handlers == {"bspHandler", "apHandler", "procedure"}
CheckedIn == {"elect", "apCall", "ap", "apTimeout", "apAgain", "giveUp"}

\* The move of a processor that is in no handler before and after it.
LEMMA OutsiderMove ==
  ASSUME IInv, TypeOK', Shape', NEW c \in Cpu, Alone(c),
         pc[c] \notin Handlers, pc'[c] \notin Handlers,
         UNCHANGED <<insideSmm, bspIndex, mode, run, present>>,
         busy' = busy \/ busy' = busy \ {c},
         \/ (pc'[c] \in CheckedIn <=> pc[c] \in CheckedIn) /\ counter' = counter
         \/ pc[c] \notin CheckedIn /\ pc'[c] \in CheckedIn /\ counter # Locked
              /\ counter' = counter + 1 /\ c \notin busy'
         \/ pc[c] \in CheckedIn /\ pc'[c] \notin CheckedIn /\ counter' = counter - 1,
         pc'[c] \in CheckedIn \ {"elect", "apCall"} => my'[c] = mode,
         ~Election => (c = DefaultBsp => pc'[c] \notin ApPlaces)
  PROVE  Roles'
<1>1. ~Joined(c) /\ ~Leads(c) /\ ~Joined(c)' /\ ~Leads(c)' /\ ~Follows(c)'
  BY DEF Joined, Leads, Follows, Handlers
<1>2. Arriving(c) <=> pc[c] \in CheckedIn
  BY DEF Arriving, Follows, Handlers, CheckedIn
<1>3. Arriving(c)' <=> pc'[c] \in CheckedIn
  BY DEF Arriving, Follows, Handlers, CheckedIn
<1>4. pc'[c] # "bspHandler"
  BY DEF Handlers
<1>5. Arriving(c)' /\ pc'[c] \notin {"elect", "apCall"} => my'[c] = mode
  BY <1>3
<1>6. \/ (Arriving(c)' <=> Arriving(c)) /\ counter' = counter
      \/ ~Arriving(c) /\ Arriving(c)' /\ counter # Locked /\ counter' = counter + 1
           /\ c \notin busy'
      \/ Arriving(c) /\ ~Arriving(c)' /\ counter' = counter - 1
  BY <1>2, <1>3
<1>7. QED
  BY <1>1, <1>4, <1>5, <1>6, OutsiderStep

\* What Goto, Call and Return do to the processor and leave to the others.
LEMMA Moves ==
  ASSUME TypeOK, NEW c \in Cpu
  PROVE  /\ \A p \in Places : Goto(c, p) => Alone(c) /\ pc'[c] = p /\ my'[c] = my[c]
         /\ Return(c) => Alone(c) /\ pc'[c] = "outside"
         /\ \A p \in Places : Call(c, p) /\ my' = [my EXCEPT ![c] = mode] =>
              Alone(c) /\ pc'[c] = p /\ my'[c] = mode /\ at'[c] = 1
  BY DEF TypeOK, Goto, Call, Return, Alone

\* A processor that is at the end of its handler.
LEMMA AtExitIsOut ==
  ASSUME TypeOK, Shape, NEW c \in Cpu, AtExit(c)
  PROVE  ~Joined(c) /\ ~Leads(c) /\ ~Arriving(c)
<1>1. CASE pc[c] = "gaveUp"
  BY <1>1 DEF Joined, Leads, Arriving, Follows
<1>2. CASE InBsp(c, "exit")
  <2>1. "exit" \in BspSteps /\ my[c] \in Modes
    BY WhereItIs DEF BspSteps
  <2>2. pc[c] = "bspHandler" /\ at[c] = BspExit(my[c]) /\ BspExit(my[c]) \in Nat
    BY <1>2, <2>1, WhereItIs, Bounds DEF BspPlaces
  <2>3. QED
    BY <2>2 DEF Joined, Leads, Arriving, Follows
<1>3. CASE InAp(c, "exit")
  <2>1. "exit" \in ApSteps /\ my[c] \in Modes
    BY WhereItIs DEF ApSteps
  <2>2. pc[c] = "apHandler" /\ at[c] = ApExit(my[c]) /\ ApExit(my[c]) \in Nat
    BY <1>3, <2>1, WhereItIs, Bounds DEF ApPlacesOf
  <2>3. QED
    BY <2>2 DEF Joined, Leads, Arriving, Follows
<1>4. QED
  BY <1>1, <1>2, <1>3 DEF AtExit

\* The processor whose election succeeds is the only one that leads.
LEMMA ElectedAlone ==
  ASSUME IInv, NEW c \in Cpu, Elect(c), bspIndex' = c
  PROVE  \A b \in Cpu : ~Leads(b)
<1>1. SUFFICES ASSUME NEW b \in Cpu, Leads(b) PROVE FALSE
  OBVIOUS
<1>2. pc[c] = "elect" /\ Arriving(c) /\ ~Leads(c)
  BY DEF Elect, Arriving, Leads
<1>3. my[b] \in Modes /\ at[b] \in Nat /\ at[b] >= 1
  BY WhereItIs DEF IInv
<1>4. BspExit(my[b]) \in Nat /\ BspExit(my[b]) > 13
  BY <1>3, Bounds
<1>5. CASE Election /\ bspIndex = None
  <2>1. at[b] > BspExit(my[b]) - 3
    BY <1>1, <1>3, <1>4, <1>5, RendezvousAssumption DEF IInv, Roles, Leader
  <2>2. at[b] > 7
    BY <1>3, <1>4, <2>1
  <2>3. ~Arriving(c)
    BY <1>1, <2>2 DEF IInv, Roles, Counted, CountedBy
  <2>4. QED
    BY <1>2, <2>3
<1>6. CASE Election /\ bspIndex # None
  <2>1. bspIndex = c
    BY <1>6 DEF Elect
  <2>2. Leads(c)
    BY <1>6, <2>1 DEF IInv, Roles, Leader
  <2>3. QED
    BY <1>2, <2>2
<1>7. CASE ~Election
  <2>1. bspIndex = c /\ c = DefaultBsp /\ b = DefaultBsp
    BY <1>1, <1>7 DEF Elect, IInv, Roles, Leader, Leads
  <2>2. QED
    BY <1>1, <1>2, <2>1
<1>8. QED
  BY <1>5, <1>6, <1>7

LEMMA ElectBsp ==
  ASSUME IInv, TypeOK', Shape', NEW c \in Cpu, Elect(c), bspIndex' = c
  PROVE  Roles'
<1>0. \A b \in Cpu : ~Leads(b)
  BY ElectedAlone
<1>1. /\ pc[c] = "elect" /\ Alone(c) /\ pc'[c] = "bspHandler" /\ my'[c] = mode /\ at'[c] = 1
      /\ UNCHANGED <<counter, insideSmm, mode, run, present, busy>>
      /\ bspIndex' = IF Election /\ bspIndex = None THEN c ELSE bspIndex
  <2>1. TypeOK /\ "bspHandler" \in Places
    BY DEF IInv, Places
  <2>2. QED
    BY <2>1, Moves DEF Elect, data, modes
<1>2. mode \in Modes /\ \A o \in Cpu : my[o] \in Modes /\ at[o] \in Nat /\ at[o] >= 1
  BY WhereItIs DEF IInv, TypeOK
<1>3. BspExit(mode) \in Nat /\ BspExit(mode) > 13
  BY <1>2, Bounds
<1>4. /\ Leads(c)' /\ ~Joined(c)' /\ ~Arriving(c)' /\ ~Follows(c)'
      /\ Arriving(c) /\ ~Joined(c) /\ ~Follows(c)
  BY <1>1, <1>3 DEF Leads, Joined, Arriving, Follows
<1>5. \A o \in Cpu : ~Follows(o) /\ ~Joined(o)
  BY <1>0 DEF IInv, Roles, InStep, Joined
<1>6. \A o \in Cpu \ {c} : ~Leads(o)' /\ ~Follows(o)' /\ ~Joined(o)' /\ (Arriving(o)' <=> Arriving(o))
  BY <1>0, <1>1, <1>5, OthersKeep
<1>7. \A o \in Cpu : (Leads(o)' <=> o = c) /\ ~Follows(o)' /\ ~Joined(o)'
  BY <1>4, <1>6
<1>8. Leader'
  <2>1. ~Election => /\ bspIndex' = DefaultBsp /\ pc'[DefaultBsp] \notin ApPlaces
                     /\ \A o \in Cpu : pc'[o] = "bspHandler" => o = DefaultBsp
    BY <1>1, RendezvousAssumption DEF IInv, Roles, Leader, Alone, ApPlaces
  <2>3. at'[c] <= BspExit(my'[c]) - 3
    BY <1>1, <1>3
  <2>4. Leads(c)' /\ bspIndex' = c
    BY <1>4
  <2>5. Leads(bspIndex)'
    BY <1>1, <1>3 DEF Leads
  <2>6. QED
    BY <1>7, <2>1, <2>3, <2>4, <2>5 DEF Leader
<1>9. Inside'
  <2>1. ~insideSmm
    <3>1. \A b \in Cpu : ~(pc[b] = "bspHandler" /\ at[b] \in 2 .. BspLeaves(my[b]))
      BY <1>0, <1>2, Bounds DEF Leads
    <3>2. QED
      BY <3>1 DEF IInv, Roles, Inside
  <2>2. \A b \in Cpu : ~(pc'[b] = "bspHandler" /\ at'[b] \in 2 .. BspLeaves(my'[b]))
    <3>1. \A b \in Cpu : my'[b] \in Modes
      BY DEF TypeOK
    <3>2. \A b \in Cpu : pc'[b] = "bspHandler" /\ at'[b] \in 2 .. BspLeaves(my'[b]) => Leads(b)'
      BY <3>1, Bounds DEF Leads
    <3>3. QED
      BY <1>1, <1>7, <3>2
  <2>3. QED
    BY <1>1, <2>1, <2>2 DEF Inside
<1>10. ModeRead'
  BY <1>1, <1>4, <1>6, <1>7 DEF IInv, Roles, ModeRead, Alone
<1>11. Counted'
  <2>1. Members' = Members
    BY <1>4, <1>5, <1>0, <1>6 DEF Members
  <2>2. counter' = Cardinality(Members')
    BY <1>0, <1>1, <2>1 DEF IInv, Roles, Counted
  <2>3. LastRelease(mode) \in Nat /\ LastRelease(mode) > 7
    BY <1>2, Bounds
  <2>4. CountedBy(c)'
    BY <1>1, <2>3 DEF CountedBy
  <2>5. QED
    BY <1>7, <2>2, <2>4 DEF Counted
<1>12. InStep'
  <2>1. Signalled(c)' = {}
    BY <1>7 DEF Signalled
  <2>2. run[c] = 0
    BY <1>0, <1>5 DEF IInv, Roles, InStep
  <2>3. Cardinality({}) = 0
    BY FS_EmptySet
  <2>4. \A o \in Cpu : ~Joined(o) /\ ~Leads(o) /\ run'[o] = 0
    BY <1>0, <1>1, <1>5 DEF IInv, Roles, InStep
  <2>5. \A b \in Cpu : Leads(b)' /\ at'[b] <= LastRelease(my'[b]) => run'[b] = Cardinality(Signalled(b)')
    BY <1>7, <2>1, <2>3, <2>4
  <2>6. QED
    BY <1>7, <2>4, <2>5 DEF InStep
<1>13. Presence'
  BY <1>0, <1>1, <1>4, <1>5, <1>6, <1>7 DEF IInv, Roles, Presence, Alone
<1>14. QED
  BY <1>8, <1>9, <1>10, <1>11, <1>12, <1>13 DEF Roles

LEMMA EntryRoles ==
  ASSUME IInv, TypeOK', Shape', NEW c \in Cpu,
         SmiEntry(c) \/ BspInProgress(c) \/ CheckIn(c) \/ TooLate(c) \/ Elect(c)
           \/ CallApHandler(c) \/ Exit(c)
  PROVE  Roles'
<1> USE DEF local, sync, modes, data, chipset, Handlers, CheckedIn
<1>0. TypeOK /\ Shape /\ Leader /\ Inside
  BY DEF IInv, Roles
<1>1. CASE SmiEntry(c)
  <2>1. {"valid", "invalid"} \subseteq Places
    BY DEF Places
  <2>2. Alone(c) /\ pc[c] = "outside" /\ pc'[c] \in {"valid", "invalid"}
    BY <1>0, <1>1, <2>1, Moves DEF SmiEntry
  <2>3. QED
    BY <1>1, <2>2, OutsiderMove DEF SmiEntry, ApPlaces
<1>2. CASE BspInProgress(c)
  <2>1. {"checkInAp", "checkIn"} \subseteq Places
    BY DEF Places
  <2>2. /\ Alone(c) /\ pc[c] \in {"valid", "invalid"}
        /\ pc'[c] \in {"checkInAp", "checkIn", "outside"}
        /\ pc'[c] = "checkInAp" => insideSmm
    BY <1>0, <1>2, <2>1, Moves DEF BspInProgress
  <2>3. ~Election => (c = DefaultBsp => pc'[c] # "checkInAp")
    BY <1>0, <2>2 DEF Leader, Inside
  <2>4. QED
    BY <1>2, <2>2, <2>3, OutsiderMove DEF BspInProgress, ApPlaces
<1>3. CASE CheckIn(c)
  <2>1. {"elect", "apCall"} \subseteq Places
    BY DEF Places
  <2>2. /\ Alone(c) /\ pc[c] \in {"checkIn", "checkInAp"} /\ pc'[c] \in {"elect", "apCall"}
        /\ pc'[c] = "apCall" => pc[c] = "checkInAp"
    BY <1>0, <1>3, <2>1, Moves DEF CheckIn
  <2>3. ~Election => (c = DefaultBsp => pc'[c] # "apCall")
    BY <1>0, <2>2 DEF Leader, ApPlaces
  <2>4. counter # Locked /\ counter' = counter + 1 /\ busy' = busy \ {c}
    BY <1>3 DEF CheckIn
  <2>5. QED
    BY <1>3, <2>2, <2>3, <2>4, OutsiderMove DEF CheckIn, ApPlaces
<1>4. CASE TooLate(c)
  <2>1. "late" \in Places
    BY DEF Places
  <2>2. Alone(c) /\ pc[c] \in {"checkIn", "checkInAp"} /\ pc'[c] = "late"
    BY <1>0, <1>4, <2>1, Moves DEF TooLate
  <2>3. QED
    BY <1>4, <2>2, OutsiderMove DEF TooLate, ApPlaces
<1>5. CASE Elect(c) /\ bspIndex' = c
  BY <1>5, ElectBsp
<1>6. CASE Elect(c) /\ bspIndex' # c
  <2>1. "apCall" \in Places
    BY DEF Places
  <2>2. Alone(c) /\ pc[c] = "elect" /\ pc'[c] = "apCall"
    BY <1>0, <1>6, <2>1, Moves DEF Elect
  <2>3. bspIndex' = bspIndex
    BY <1>6 DEF Elect
  <2>4. ~Election => c # DefaultBsp
    BY <1>0, <1>6, <2>3 DEF Leader
  <2>5. QED
    BY <1>6, <2>2, <2>3, <2>4, OutsiderMove DEF Elect
<1>7. CASE CallApHandler(c)
  <2>1. "ap" \in Places
    BY DEF Places
  <2>2. Alone(c) /\ pc[c] = "apCall" /\ pc'[c] = "ap" /\ my'[c] = mode
    BY <1>0, <1>7, <2>1, Moves DEF CallApHandler
  <2>3. ~Election => c # DefaultBsp
    BY <1>0, <2>2 DEF Leader, ApPlaces
  <2>4. QED
    BY <1>7, <2>2, <2>3, OutsiderMove DEF CallApHandler
<1>8. CASE Exit(c)
  <2>1. Alone(c) /\ pc'[c] = "outside"
    BY <1>0, <1>8, Moves DEF Exit
  <2>2. ~Joined(c) /\ ~Leads(c) /\ ~Arriving(c)
    BY <1>0, <1>8, AtExitIsOut DEF Exit, Joined, Leads, Arriving, Follows
  <2>3. ~Joined(c)' /\ ~Leads(c)' /\ ~Arriving(c)' /\ ~Follows(c)'
    BY <2>1 DEF Joined, Leads, Arriving, Follows
  <2>4. UNCHANGED <<counter, insideSmm, bspIndex, mode, run, present, busy>>
    BY <1>8 DEF Exit
  <2>5. QED
    BY <2>1, <2>2, <2>3, <2>4, OutsiderStep DEF ApPlaces
<1>9. QED
  BY <1>1, <1>2, <1>3, <1>4, <1>5, <1>6, <1>7, <1>8

---------------------------------------------------------------------------
\* The steps of an AP in the handshakes.

LEMMA FollowerStep ==
  ASSUME IInv, TypeOK', Shape', NEW b \in Cpu, NEW c \in Cpu, Leads(b), Follows(c), Alone(c),
         ~Leads(c)', ~Arriving(c)', pc'[c] # "bspHandler",
         UNCHANGED <<counter, insideSmm, bspIndex, mode>>,
         \A o \in Cpu \ {c} : /\ o # b => run'[o] = run[o]
                              /\ o \in present' <=> o \in present
                              /\ o \in busy' <=> o \in busy,
         Joined(c)' => InStepWith(c, b)',
         ~Joined(c)' => run'[c] = 0,
         c \in present' <=> Joined(c)' /\ at'[c] <= ApExit(my'[c]) - 2,
         c \in busy' /\ Joined(c)' =>
           c \in busy /\ at'[c] \in ApLookAt(my'[c]) - 1 .. ApLookAt(my'[c]),
         pc'[c] = "procedure" => c \in busy',
         \/ Joined(c)' /\ run'[b] = run[b]
              /\ (at[b] <= LastRelease(my[b]) => Signalled(b)' = Signalled(b))
         \/ Joined(c) /\ Joined(c)' /\ run'[b] = run[b] + 1 /\ at[b] <= LastRelease(my[b])
              /\ Signalled(b)' = Signalled(b) \cup {c} /\ c \notin Signalled(b)
         \/ Joined(c) /\ ~Joined(c)' /\ run'[b] = run[b] + 1 /\ at[b] > LastRelease(my[b])
  PROVE  Roles'
<1>0. /\ \A o \in Cpu \ {c} : /\ Leads(o)' <=> Leads(o)
                              /\ Follows(o)' <=> Follows(o)
                              /\ Joined(o)' <=> Joined(o)
                              /\ Arriving(o)' <=> Arriving(o)
      /\ ~Leads(c) /\ ~Leads(c)' /\ b # c /\ (Joined(c) \/ Arriving(c))
  <2>1. at[c] \in Nat /\ at[c] >= 1
    BY WhereItIs DEF IInv
  <2>2. QED
    BY <2>1, OthersKeep, RolesDiffer
<1>1. \A o \in Cpu : my[o] \in Modes /\ at[o] \in Nat /\ at[o] >= 1
  BY WhereItIs DEF IInv
<1>2. \A o \in Cpu : Leads(o)' <=> Leads(o)
  BY <1>0
<1>3. \A o \in Cpu : Leads(o) => o = b
  BY DEF IInv, Roles, Leader
<1>4. at'[b] = at[b] /\ my'[b] = my[b] /\ pc'[b] = pc[b] /\ apCount'[b] = apCount[b] /\ Leads(b)'
  BY <1>0 DEF Alone
<1>5. LastRelease(my[b]) \in Nat /\ LastRelease(my[b]) > 7
  BY <1>1, Bounds
<1>6. at[b] <= LastRelease(my[b]) + 2 /\ CountedBy(b)
  BY <1>0, <1>1, <1>5 DEF IInv, Roles, Counted, CountedBy
<1>7. Leader'
  <2>1. ~Election => /\ bspIndex' = DefaultBsp /\ pc'[DefaultBsp] \notin ApPlaces
                     /\ \A o \in Cpu : pc'[o] = "bspHandler" => o = DefaultBsp
    BY RendezvousAssumption DEF IInv, Roles, Leader, Alone, Follows, ApPlaces
  <2>2. Election /\ bspIndex' # None =>
          Leads(bspIndex') /\ at[bspIndex'] <= BspExit(my[bspIndex']) - 3 /\ bspIndex' = b
    BY <1>3 DEF IInv, Roles, Leader, TypeOK, Leads
  <2>3. Election /\ bspIndex' # None =>
          Leads(bspIndex)' /\ at'[bspIndex'] <= BspExit(my'[bspIndex']) - 3
    BY <1>4, <2>2
  <2>4. \A o \in Cpu : Leads(o)' /\ at'[o] <= BspExit(my'[o]) - 3 => bspIndex' = o
    BY <1>2, <1>3, <1>4 DEF IInv, Roles, Leader
  <2>5. QED
    BY <1>2, <1>3, <2>1, <2>3, <2>4 DEF Leader
<1>8. Inside'
  <2>1. pc[c] # "bspHandler"
    BY DEF Follows
  <2>2. \A o \in Cpu : (pc'[o] = "bspHandler" /\ at'[o] \in 2 .. BspLeaves(my'[o]))
                         <=> (pc[o] = "bspHandler" /\ at[o] \in 2 .. BspLeaves(my[o]))
    BY <2>1 DEF Alone
  <2>3. QED
    BY <2>2 DEF IInv, Roles, Inside
<1>9. ModeRead'
  BY <1>0, <1>2, <1>3, <1>4 DEF IInv, Roles, ModeRead, Alone
<1>10. Counted'
  <2>1. Members \subseteq Cpu /\ c \in Members
    BY <1>0 DEF Members
  <2>2. /\ Joined(c)' => Members' = Members
        /\ ~Joined(c)' => Members' = Members \ {c}
    BY <1>0 DEF Members
  <2>3. /\ Joined(c)' => Cardinality(Members') = Cardinality(Members)
        /\ ~Joined(c)' => Cardinality(Members') = Cardinality(Members) - 1
        /\ Cardinality(Members) \in Nat
    BY <2>1, <2>2, Counting
  <2>4. at[b] <= 6 => counter' = Cardinality(Members')
    BY <1>1, <1>3, <1>5, <2>3 DEF IInv, Roles, Counted
  <2>5. CountedBy(b)'
    <3>1. run[b] \in Nat /\ apCount[b] \in Nat
      BY CpuCount DEF IInv, TypeOK
    <3>2. at[b] \in 7 .. LastRelease(my[b]) =>
            counter' + apCount[b] + 1 = Locked + Cardinality(Members')
      BY <1>5, <1>6, <2>3 DEF CountedBy
    <3>3. at[b] > 7 => counter' = Locked /\ \A o \in Cpu : ~Arriving(o)'
      BY <1>0, <1>6 DEF CountedBy
    <3>4. at[b] \in LastRelease(my[b]) + 1 .. LastRelease(my[b]) + 2 =>
            run'[b] + Cardinality(Members') = apCount[b] + 1
      BY <1>1, <1>5, <1>6, <2>3, <3>1 DEF CountedBy
    <3>5. QED
      BY <1>1, <1>4, <1>5, <1>6, <3>2, <3>3, <3>4 DEF CountedBy
  <2>6. QED
    BY <1>2, <1>3, <1>4, <2>4, <2>5 DEF Counted
<1>11. InStep'
  <2>1. \A o \in Cpu : Follows(o)' => \E l \in Cpu : Leads(l)' /\ at'[l] > 1
    <3>1. at[b] > 1
      BY <1>3 DEF IInv, Roles, InStep
    <3>2. QED
      BY <1>4, <3>1
  <2>2. ASSUME NEW o \in Cpu, Joined(o)'
        PROVE  InStepWith(o, b)'
    <3>1. CASE o # c
      <4>1. InStepWith(o, b) /\ o # b
        BY <1>0, <2>2, <3>1, RolesDiffer DEF IInv, Roles, InStep
      <4>2. /\ run'[o] = run[o] /\ at'[o] = at[o] /\ my'[o] = my[o] /\ bsp'[o] = bsp[o]
            /\ o \in busy' <=> o \in busy
        BY <3>1, <4>1 DEF Alone
      <4>3. QED
        BY <1>4, <4>1, <4>2 DEF InStepWith
    <3>2. QED
      BY <2>2, <3>1
  <2>3. at[b] <= LastRelease(my[b]) => run'[b] = Cardinality(Signalled(b)')
    <3>1. SUFFICES ASSUME at[b] <= LastRelease(my[b]) PROVE run'[b] = Cardinality(Signalled(b)')
      OBVIOUS
    <3>2. run[b] = Cardinality(Signalled(b)) /\ Signalled(b) \subseteq Cpu
      BY <3>1 DEF IInv, Roles, InStep, Signalled
    <3>3. \/ run'[b] = run[b] /\ Signalled(b)' = Signalled(b)
          \/ run'[b] = run[b] + 1 /\ Signalled(b)' = Signalled(b) \cup {c} /\ c \notin Signalled(b)
      BY <1>1, <1>5, <3>1
    <3>4. QED
      BY <3>2, <3>3, Counting
  <2>4. ASSUME NEW o \in Cpu, ~Joined(o)', ~Leads(o)'
        PROVE  run'[o] = 0
    <3>1. CASE o # c
      <4>1. ~Joined(o) /\ ~Leads(o) /\ o # b
        BY <1>0, <2>4, <3>1
      <4>2. QED
        BY <3>1, <4>1 DEF IInv, Roles, InStep
    <3>2. QED
      BY <2>4, <3>1
  <2>5. QED
    BY <1>2, <1>3, <1>4, <2>1, <2>2, <2>3, <2>4 DEF InStep
<1>12. Presence'
  <2>1. \A o \in Cpu : o \in present' <=> \/ Joined(o)' /\ at'[o] <= ApExit(my'[o]) - 2
                                          \/ Leads(o)' /\ at'[o] \in 2 .. LastRelease(my'[o]) + 1
    BY <1>0 DEF IInv, Roles, Presence, Alone
  <2>2. ASSUME NEW o \in Cpu, o \in busy', Arriving(o)' \/ Joined(o)'
        PROVE  /\ Joined(o)' /\ at'[o] \in ApLookAt(my'[o]) - 1 .. ApLookAt(my'[o])
               /\ \E l \in Cpu : Leads(l)' /\ at'[l] \in BspCore(my'[l]) .. BspCore(my'[l]) + 1
    <3>1. o \in busy /\ (Arriving(o) \/ Joined(o))
      BY <1>0, <2>2
    <3>2. /\ Joined(o) /\ at[o] \in ApLookAt(my[o]) - 1 .. ApLookAt(my[o])
          /\ \E l \in Cpu : Leads(l) /\ at[l] \in BspCore(my[l]) .. BspCore(my[l]) + 1
      BY <3>1 DEF IInv, Roles, Presence
    <3>3. at[b] \in BspCore(my[b]) .. BspCore(my[b]) + 1
      BY <1>3, <3>2
    <3>4. Joined(o)' /\ at'[o] \in ApLookAt(my'[o]) - 1 .. ApLookAt(my'[o])
      BY <1>0, <2>2, <3>2 DEF Alone
    <3>5. QED
      BY <1>4, <3>3, <3>4
  <2>3. \A o \in Cpu : pc'[o] = "procedure" => o \in busy'
    BY DEF IInv, Roles, Presence, Alone
  <2>4. QED
    BY <2>1, <2>2, <2>3 DEF Presence
<1>13. QED
  BY <1>7, <1>8, <1>9, <1>10, <1>11, <1>12 DEF Roles

\* An AP in the handshakes and the BSP it follows.
LEMMA JoinedFacts ==
  ASSUME IInv, NEW c \in Cpu, Joined(c)
  PROVE  /\ bsp[c] \in Cpu /\ Leads(bsp[c]) /\ bsp[c] # c /\ InStepWith(c, bsp[c])
         /\ my[c] \in Modes /\ my[bsp[c]] = my[c] /\ at[c] \in Nat /\ at[c] > 1
         /\ at[bsp[c]] \in Nat /\ at[bsp[c]] > 1 /\ at[bsp[c]] <= LastRelease(my[c]) + 2
         /\ run[c] \in Nat /\ run[bsp[c]] \in Nat
         /\ c \notin busy => Awaits(my[c], at[c]) <= Releases(my[c], at[bsp[c]])
                             /\ run[c] + Awaits(my[c], at[c]) = Releases(my[c], at[bsp[c]])
<1>1. PICK b \in Cpu : Leads(b) /\ at[b] > 1
  BY DEF IInv, Roles, InStep, Joined
<1>2. InStepWith(c, b) /\ bsp[c] = b /\ my[c] = my[b]
  BY <1>1 DEF IInv, Roles, InStep, InStepWith
<1>3. b # c
  BY <1>1, RolesDiffer
<1>4. /\ my[c] \in Modes /\ at[c] \in Nat /\ at[c] > 1 /\ at[b] \in Nat
      /\ run[c] \in Nat /\ run[b] \in Nat
  BY WhereItIs DEF IInv, TypeOK, Joined
<1>5. at[b] <= LastRelease(my[c]) + 2
  <2>1. LastRelease(my[c]) \in Nat
    BY <1>4, Bounds
  <2>2. QED
    BY <1>1, <1>2, <1>4, <2>1 DEF IInv, Roles, Counted, CountedBy
<1>6. c \notin busy => /\ Awaits(my[c], at[c]) <= Releases(my[c], at[b])
                       /\ run[c] + Awaits(my[c], at[c]) = Releases(my[c], at[b])
  <2>1. Awaits(my[c], at[c]) \in Nat /\ Releases(my[c], at[b]) \in Nat
    BY <1>4, Tallies
  <2>2. QED
    BY <1>2, <1>4, <2>1 DEF InStepWith, One
<1>7. QED
  BY <1>1, <1>2, <1>3, <1>4, <1>5, <1>6

\* The places of an AP in the handshakes.
LEMMA ApPlaceFacts ==
  ASSUME IInv, NEW c \in Cpu, NEW step \in {"signal", "await", "look", "absent"}, InAp(c, step)
  PROVE  Joined(c) /\ pc[c] = "apHandler" /\ at[c] \in ApPlacesOf(my[c], step)
<1>1. step \in ApSteps
  BY DEF ApSteps
<1>2. pc[c] = "apHandler" /\ at[c] \in ApPlacesOf(my[c], step) /\ my[c] \in Modes
  BY <1>1, WhereItIs DEF IInv
<1>3. at[c] > 1 /\ at[c] < ApExit(my[c])
  BY <1>2 DEF ApPlacesOf, Pick, ApLookAt, ApExit
<1>4. QED
  BY <1>2, <1>3 DEF Joined, Follows

LEMMA AdvanceMoves ==
  ASSUME TypeOK, NEW c \in Cpu, Advance(c)
  PROVE  /\ Alone(c) /\ pc' = pc /\ my' = my /\ bsp' = bsp /\ apCount' = apCount
         /\ at'[c] = at[c] + 1
  BY DEF TypeOK, Advance, Skip, Alone

LEMMA ApSignalRoles ==
  ASSUME IInv, TypeOK', Shape', NEW c \in Cpu, ApSignal(c)
  PROVE  Roles'
<1>0. PICK b \in Cpu, m \in Modes : b = bsp[c] /\ m = my[c]
  BY ApPlaceFacts, JoinedFacts DEF ApSignal
<1>1. /\ Joined(c) /\ pc[c] = "apHandler" /\ at[c] \in ApPlacesOf(m, "signal")
      /\ ReleaseSemaphore({b}) /\ Advance(c)
      /\ UNCHANGED <<counter, insideSmm, bspIndex, mode, present, busy>>
  BY <1>0, ApPlaceFacts DEF ApSignal, sync, modes
<1>2. /\ b \in Cpu /\ Leads(b) /\ b # c /\ InStepWith(c, b) /\ m \in Modes /\ my[b] = m
      /\ at[b] \in Nat /\ at[b] <= LastRelease(m) + 2 /\ at[b] > 1
      /\ run[c] \in Nat /\ run[b] \in Nat
  BY <1>0, <1>1, JoinedFacts
<1>3. /\ Alone(c) /\ pc' = pc /\ my' = my /\ bsp' = bsp /\ at'[c] = at[c] + 1
      /\ at'[b] = at[b] /\ my[c] = m /\ my[b] = m
  BY <1>0, <1>1, <1>2, AdvanceMoves DEF IInv, Alone
<1>4. /\ run'[b] = run[b] + 1 /\ run'[c] = run[c]
      /\ \A o \in Cpu \ {c} : o # b => run'[o] = run[o]
  BY <1>1, <1>2 DEF ReleaseSemaphore
<1>5. /\ at[c] \in Nat /\ at[c] > 1 /\ at[c] < ApExit(m) /\ at[c] # ApExit(m) - 2
      /\ ApExit(m) \in Nat /\ LastRelease(m) \in Nat /\ BspExit(m) = LastRelease(m) + 6
      /\ Signals(m, at[c] + 1) = Signals(m, at[c]) + 1 /\ Awaits(m, at[c] + 1) = Awaits(m, at[c])
      /\ at[c] # ApLookAt(m) /\ at[c] # ApLookAt(m) - 1 /\ ApLookAt(m) \in Nat
  BY <1>1, <1>2, SignalPlace, Bounds
<1>6. c \notin busy
  BY <1>0, <1>1, <1>5 DEF IInv, Roles, Presence
<1>7. Awaits(m, at[c]) <= Releases(m, at[b]) /\ run[c] + Awaits(m, at[c]) = Releases(m, at[b])
  BY <1>0, <1>1, <1>6, JoinedFacts
<1>8. /\ Signals(m, at[c]) <= Waits(m, at[b])
      /\ at[b] <= LastRelease(m) => at[c] + 1 < ApExit(m)
      /\ at[b] \in LastRelease(m) + 1 .. LastRelease(m) + 2 /\ Signals(m, at[c]) = Waits(m, at[b])
           => at[c] + 1 = ApExit(m)
      /\ at[c] + 1 = ApExit(m) => Awaits(m, at[c]) = Releases(m, at[b])
  <2>1. at[b] <= BspExit(m) - 2
    BY <1>2, <1>5
  <2>2. QED
    BY <1>1, <1>2, <1>7, <2>1, SignalPlace
<1>9. /\ Signals(m, at[c]) = Waits(m, at[b])
      /\ {Signals(m, at[c]), Waits(m, at[b]), Awaits(m, at[c]), Releases(m, at[b])} \subseteq Nat
  <2>1. {Signals(m, at[c]), Waits(m, at[b]), Awaits(m, at[c]), Releases(m, at[b])} \subseteq Nat
    BY <1>2, <1>5, Tallies
  <2>2. QED
    BY <1>2, <1>3, <1>8, <2>1 DEF InStepWith
<1>10. /\ ~Leads(c)' /\ ~Arriving(c)' /\ pc'[c] # "bspHandler" /\ pc'[c] # "procedure"
       /\ Joined(c)' <=> at[c] + 1 < ApExit(m)
       /\ Follows(c)
  BY <1>1, <1>3, <1>5 DEF Leads, Arriving, Joined, Follows
<1>11. Joined(c)' => InStepWith(c, b)'
  BY <1>2, <1>3, <1>4, <1>5, <1>1, <1>9 DEF InStepWith
<1>12. ~Joined(c)' => run'[c] = 0
  BY <1>4, <1>5, <1>7, <1>8, <1>9, <1>10, <1>2
<1>13. c \in present' <=> Joined(c)' /\ at'[c] <= ApExit(my'[c]) - 2
  BY <1>1, <1>3, <1>5, <1>10, RolesDiffer DEF IInv, Roles, Presence
<1>14. \/ Joined(c) /\ Joined(c)' /\ run'[b] = run[b] + 1 /\ at[b] <= LastRelease(my[b])
              /\ Signalled(b)' = Signalled(b) \cup {c} /\ c \notin Signalled(b)
       \/ Joined(c) /\ ~Joined(c)' /\ run'[b] = run[b] + 1 /\ at[b] > LastRelease(my[b])
  <2>1. CASE at[b] <= LastRelease(m)
    <3>1. Joined(c)'
      BY <1>8, <1>10, <2>1
    <3>2. c \notin Signalled(b)
      BY <1>3, <1>9 DEF Signalled
    <3>3. \A o \in Cpu \ {c} : (Joined(o)' <=> Joined(o)) /\ at'[o] = at[o]
      BY <1>3, OthersKeep DEF Alone
    <3>4. Signals(m, at'[c]) = Waits(m, at[b]) + 1
      BY <1>3, <1>5, <1>9
    <3>5. Signalled(b)' = Signalled(b) \cup {c}
      BY <1>2, <1>3, <3>1, <3>3, <3>4 DEF Signalled
    <3>6. QED
      BY <1>1, <1>2, <1>4, <2>1, <3>1, <3>2, <3>5
  <2>2. CASE at[b] > LastRelease(m)
    BY <1>1, <1>2, <1>4, <1>5, <1>8, <1>9, <1>10, <2>2
  <2>3. QED
    BY <1>2, <1>5, <2>1, <2>2
<1>15. QED
  BY <1>1, <1>2, <1>3, <1>4, <1>6, <1>10, <1>11, <1>12, <1>13, <1>14, FollowerStep

\* A step of an AP in the handshakes that sends no signal.
LEMMA JoinedStep ==
  ASSUME IInv, TypeOK', Shape', NEW c \in Cpu, Joined(c), Joined(c)', Alone(c),
         my'[c] = my[c], bsp'[c] = bsp[c],
         UNCHANGED <<counter, insideSmm, bspIndex, mode>>,
         Signals(my[c], at'[c]) = Signals(my[c], at[c]),
         run'[c] + Awaits(my[c], at'[c]) + One(c \in busy) =
           run[c] + Awaits(my[c], at[c]) + One(c \in busy'),
         \A o \in Cpu \ {c} : /\ run'[o] = run[o]
                              /\ o \in present' <=> o \in present
                              /\ o \in busy' <=> o \in busy,
         c \in present' <=> at'[c] <= ApExit(my[c]) - 2,
         c \in busy' => c \in busy /\ at'[c] \in ApLookAt(my[c]) - 1 .. ApLookAt(my[c]),
         pc'[c] = "procedure" => c \in busy'
  PROVE  Roles'
<1>0. PICK b \in Cpu, m \in Modes : b = bsp[c] /\ m = my[c]
  BY JoinedFacts
<1>1. /\ Leads(b) /\ b # c /\ InStepWith(c, b) /\ my[b] = m /\ at[b] \in Nat
      /\ run[c] \in Nat /\ at[c] \in Nat
  BY <1>0, JoinedFacts
<1>2. my[c] = m /\ my'[c] = m /\ my'[b] = m /\ at'[b] = at[b] /\ run'[b] = run[b]
  BY <1>0, <1>1 DEF Alone
<1>3. ~Leads(c)' /\ ~Arriving(c)' /\ pc'[c] # "bspHandler" /\ Follows(c)
  BY DEF Joined, Follows, Arriving, Leads
<1>4. {Awaits(m, at[c]), Awaits(m, at'[c]), Releases(m, at[b]), run'[c]} \subseteq Nat
  <2>1. run'[c] \in Nat /\ at'[c] \in 1 .. Len(BspProgram("traditional"))
    BY DEF TypeOK
  <2>2. at'[c] \in Nat
    BY <2>1
  <2>3. QED
    BY <1>1, <2>1, <2>2, Tallies
<1>5. InStepWith(c, b)'
  <2>1. run'[c] + Awaits(m, at'[c]) = Releases(m, at[b]) + One(c \in busy')
    BY <1>1, <1>2, <1>4 DEF InStepWith, One
  <2>2. QED
    BY <1>0, <1>1, <1>2, <2>1 DEF InStepWith
<1>6. Signalled(b)' = Signalled(b)
  <2>1. \A o \in Cpu \ {c} : (Joined(o)' <=> Joined(o)) /\ at'[o] = at[o] /\ my'[o] = my[o]
    BY OthersKeep DEF Alone
  <2>2. QED
    BY <1>2, <2>1 DEF Signalled
<1>7. QED
  BY <1>1, <1>2, <1>3, <1>5, <1>6, FollowerStep

LEMMA ApAwaitRoles ==
  ASSUME IInv, TypeOK', Shape', NEW c \in Cpu, ApAwait(c)
  PROVE  Roles'
<1>1. /\ Joined(c) /\ pc[c] = "apHandler" /\ at[c] \in ApPlacesOf(my[c], "await")
      /\ WaitForSemaphore(c, 1) /\ Advance(c)
      /\ UNCHANGED <<counter, insideSmm, bspIndex, mode, present, busy>>
  BY ApPlaceFacts DEF ApAwait, sync, modes
<1>2. Alone(c) /\ pc' = pc /\ my' = my /\ bsp' = bsp /\ at'[c] = at[c] + 1 /\ my[c] \in Modes
  BY <1>1, AdvanceMoves, JoinedFacts DEF IInv
<1>3. /\ at[c] \in Nat /\ at[c] > 1 /\ at[c] + 1 <= ApExit(my[c]) - 2 /\ ApExit(my[c]) \in Nat
      /\ Signals(my[c], at[c] + 1) = Signals(my[c], at[c])
      /\ Awaits(my[c], at[c] + 1) = Awaits(my[c], at[c]) + 1
      /\ Awaits(my[c], at[c]) \in Nat
      /\ at[c] # ApLookAt(my[c]) /\ ApLookAt(my[c]) \in Nat
  BY <1>1, <1>2, AwaitPlace, Bounds, Tallies
<1>4. run[c] \in Nat /\ run'[c] = run[c] - 1 /\ \A o \in Cpu \ {c} : run'[o] = run[o]
  BY <1>1 DEF WaitForSemaphore, IInv, TypeOK
<1>5. Joined(c)' /\ pc'[c] # "procedure"
  BY <1>1, <1>2, <1>3 DEF Joined, Follows
<1>6. c \in present
  BY <1>1, <1>3 DEF IInv, Roles, Presence
<1>7. c \in busy => at[c] \in ApLookAt(my[c]) - 1 .. ApLookAt(my[c])
  BY <1>1 DEF IInv, Roles, Presence
<1>8. c \in busy => at'[c] \in ApLookAt(my[c]) - 1 .. ApLookAt(my[c])
  BY <1>2, <1>3, <1>7
<1>9. run'[c] + Awaits(my[c], at'[c]) + One(c \in busy) =
        run[c] + Awaits(my[c], at[c]) + One(c \in busy')
  BY <1>1, <1>2, <1>3, <1>4 DEF One
<1>10. QED
  BY <1>1, <1>2, <1>3, <1>4, <1>5, <1>6, <1>8, <1>9, JoinedStep

LEMMA ApLookRoles ==
  ASSUME IInv, TypeOK', Shape', NEW c \in Cpu, ApLook(c)
  PROVE  Roles'
<1>0. PICK b \in Cpu, m \in Modes : b = bsp[c] /\ m = my[c]
  BY ApPlaceFacts, JoinedFacts DEF ApLook
<1>1. /\ Joined(c) /\ pc[c] = "apHandler" /\ at[c] \in ApPlacesOf(m, "look") /\ my[c] = m
      /\ UNCHANGED <<counter, insideSmm, bspIndex, mode, run, present, busy>>
  BY <1>0, ApPlaceFacts DEF ApLook, sync, modes, data
<1>2. /\ Leads(b) /\ InStepWith(c, b) /\ my[b] = m /\ at[b] \in Nat /\ run[c] \in Nat
  BY <1>0, <1>1, JoinedFacts
<1>3. /\ at[c] = ApLookAt(m) /\ ApLookAt(m) \in Nat /\ ApLookAt(m) > 2 /\ ApLookAt(m) < ApExit(m) - 2
      /\ ApExit(m) \in Nat
      /\ Signals(m, at[c] + 1) = Signals(m, at[c]) /\ Awaits(m, at[c] + 1) = Awaits(m, at[c])
      /\ at[b] <= BspLeaves(m) => Releases(m, at[b]) < Awaits(m, at[c])
      /\ Releases(m, at[b]) \in Nat /\ Awaits(m, at[c]) \in Nat
  BY <1>1, <1>2, LookPlace, Bounds, Tallies
<1>4. c \in present
  BY <1>1, <1>3 DEF IInv, Roles, Presence
<1>5. \A l \in Cpu : pc[l] = "bspHandler" /\ at[l] \in 2 .. BspLeaves(my[l]) => l = b
  <2>1. \A l \in Cpu : my[l] \in Modes
    BY WhereItIs DEF IInv
  <2>2. \A l \in Cpu : pc[l] = "bspHandler" /\ at[l] \in 2 .. BspLeaves(my[l]) => Leads(l)
    BY <2>1, Bounds DEF Leads
  <2>3. QED
    BY <1>2, <2>2 DEF IInv, Roles, Leader
<1>6. CASE insideSmm
  <2>1. Goto(c, "procedure") /\ "procedure" \in Places
    BY <1>6 DEF ApLook, Places
  <2>2. Alone(c) /\ pc'[c] = "procedure" /\ my' = my /\ bsp' = bsp /\ at' = at
    BY <2>1, Moves DEF IInv, Goto
  <2>3. at[b] <= BspLeaves(m)
    BY <1>2, <1>5, <1>6 DEF IInv, Roles, Inside
  <2>4. c \in busy
    BY <1>1, <1>2, <1>3, <2>3 DEF InStepWith, One
  <2>5. Joined(c)'
    BY <1>1, <1>3, <2>2 DEF Joined, Follows
  <2>6. QED
    BY <1>1, <1>3, <1>4, <2>2, <2>4, <2>5, JoinedStep
<1>7. CASE ~insideSmm
  <2>1. Advance(c)
    BY <1>7 DEF ApLook
  <2>2. Alone(c) /\ pc' = pc /\ my' = my /\ bsp' = bsp /\ at'[c] = at[c] + 1
    BY <2>1, AdvanceMoves DEF IInv
  <2>3. c \notin busy
    <3>1. SUFFICES ASSUME c \in busy PROVE FALSE
      OBVIOUS
    <3>2. PICK l \in Cpu : Leads(l) /\ at[l] \in BspCore(my[l]) .. BspCore(my[l]) + 1
      BY <1>1, <3>1 DEF IInv, Roles, Presence
    <3>3. my[l] \in Modes
      BY WhereItIs DEF IInv
    <3>4. at[l] \in 2 .. BspLeaves(my[l])
      BY <3>2, <3>3, Bounds
    <3>5. QED
      BY <1>7, <3>2, <3>4 DEF IInv, Roles, Inside, Leads
  <2>4. Joined(c)' /\ pc'[c] # "procedure"
    BY <1>1, <1>3, <2>2 DEF Joined, Follows
  <2>5. at'[c] <= ApExit(m) - 2
    BY <1>3, <2>2
  <2>6. QED
    BY <1>1, <1>3, <1>4, <2>2, <2>3, <2>4, <2>5, JoinedStep
<1>8. QED
  BY <1>6, <1>7

LEMMA ProcedureRoles ==
  ASSUME IInv, TypeOK', Shape', NEW c \in Cpu, Procedure(c)
  PROVE  Roles'
<1>1. /\ pc[c] = "procedure" /\ at[c] = ApLookAt(my[c]) /\ my[c] \in Modes /\ c \in busy
  BY WhereItIs DEF Procedure, IInv, Roles, Presence, Shape
<1>2. /\ ApLookAt(my[c]) \in Nat /\ ApLookAt(my[c]) > 2 /\ ApLookAt(my[c]) < ApExit(my[c]) - 2
      /\ ApExit(my[c]) \in Nat
      /\ Signals(my[c], at[c] - 1) = Signals(my[c], at[c])
      /\ Awaits(my[c], at[c]) = Awaits(my[c], at[c] - 1) + 1
      /\ {Awaits(my[c], at[c]), Awaits(my[c], at[c] - 1), run[c]} \subseteq Nat
  <2>1. ApLookAt(my[c]) \in Nat /\ ApLookAt(my[c]) > 2 /\ ApLookAt(my[c]) < ApExit(my[c]) - 2
        /\ ApExit(my[c]) \in Nat
    BY <1>1, Bounds
  <2>2. ApLookAt(my[c]) - 1 \in Nat
    BY <2>1
  <2>3. run[c] \in Nat
    BY DEF IInv, TypeOK
  <2>4. QED
    BY <1>1, <2>1, <2>2, <2>3, LookPlace, Tallies
<1>3. /\ pc'[c] = "apHandler" /\ at'[c] = at[c] - 1 /\ my' = my /\ bsp' = bsp
      /\ run' = run /\ present' = present /\ busy' = busy \ {c}
      /\ UNCHANGED <<counter, insideSmm, bspIndex, mode>>
  BY DEF Procedure, IInv, TypeOK, sync, modes
<1>4. Alone(c)
  BY DEF Procedure, Alone, IInv, TypeOK
<1>5. Joined(c) /\ Joined(c)'
  BY <1>1, <1>2, <1>3 DEF Joined, Follows
<1>6. c \in present /\ at'[c] <= ApExit(my[c]) - 2
  BY <1>1, <1>2, <1>3, <1>5 DEF IInv, Roles, Presence
<1>7. run'[c] + Awaits(my[c], at'[c]) + One(c \in busy) =
        run[c] + Awaits(my[c], at[c]) + One(c \in busy')
  BY <1>1, <1>2, <1>3 DEF One
<1>8. QED
  BY <1>2, <1>3, <1>4, <1>5, <1>6, <1>7, JoinedStep

LEMMA ApAbsentRoles ==
  ASSUME IInv, TypeOK', Shape', NEW c \in Cpu, ApAbsent(c)
  PROVE  Roles'
<1>1. /\ Joined(c) /\ pc[c] = "apHandler" /\ at[c] \in ApPlacesOf(my[c], "absent") /\ Advance(c)
      /\ UNCHANGED <<counter, insideSmm, bspIndex, mode, run, busy>> /\ present' = present \ {c}
  BY ApPlaceFacts DEF ApAbsent, sync, modes
<1>2. Alone(c) /\ pc' = pc /\ my' = my /\ bsp' = bsp /\ at'[c] = at[c] + 1 /\ my[c] \in Modes
  BY <1>1, AdvanceMoves, JoinedFacts DEF IInv
<1>3. /\ at[c] = ApExit(my[c]) - 2 /\ ApExit(my[c]) \in Nat
      /\ Signals(my[c], at[c] + 1) = Signals(my[c], at[c])
      /\ Awaits(my[c], at[c] + 1) = Awaits(my[c], at[c])
      /\ ApLookAt(my[c]) \in Nat /\ ApLookAt(my[c]) < ApExit(my[c]) - 2 /\ ApLookAt(my[c]) > 2
  BY <1>1, <1>2, AbsentPlace, Bounds
<1>4. Joined(c)' /\ pc'[c] # "procedure"
  BY <1>1, <1>2, <1>3 DEF Joined, Follows
<1>5. c \notin busy
  BY <1>1, <1>3 DEF IInv, Roles, Presence
<1>6. c \notin present' /\ ~(at'[c] <= ApExit(my[c]) - 2)
  BY <1>1, <1>2, <1>3
<1>7. QED
  BY <1>1, <1>2, <1>3, <1>4, <1>5, <1>6, JoinedStep

LEMMA ApJoinRoles ==
  ASSUME IInv, TypeOK', Shape', NEW c \in Cpu, ApJoin(c)
  PROVE  Roles'
<1>1. /\ pc[c] = "apHandler" /\ at[c] = 1 /\ my[c] \in Modes
      /\ bsp'[c] = bspIndex /\ present' = present \cup {c} /\ at'[c] = 2 /\ my' = my /\ pc' = pc
      /\ UNCHANGED <<counter, insideSmm, bspIndex, mode, run, busy>>
  <2>1. "join" \in ApSteps /\ InAp(c, "join")
    BY DEF ApSteps, ApJoin
  <2>2. pc[c] = "apHandler" /\ at[c] \in ApPlacesOf(my[c], "join") /\ my[c] \in Modes
    BY <2>1, WhereItIs DEF IInv
  <2>3. QED
    BY <2>2 DEF ApPlacesOf, ApJoin, IInv, TypeOK, sync, modes
<1>2. Alone(c)
  BY DEF ApJoin, Alone, IInv, TypeOK
<1>3. /\ ApLookAt(my[c]) > 2 /\ ApLookAt(my[c]) \in Nat /\ ApLookAt(my[c]) < ApExit(my[c]) - 2
      /\ ApExit(my[c]) \in Nat
  BY <1>1, Bounds
<1>4. /\ Follows(c) /\ Arriving(c) /\ ~Joined(c) /\ ~Leads(c)
      /\ Joined(c)' /\ ~Leads(c)' /\ ~Arriving(c)'
  BY <1>1, <1>3 DEF Follows, Arriving, Joined, Leads
<1>5. PICK b \in Cpu : Leads(b) /\ at[b] > 1
  BY <1>4 DEF IInv, Roles, InStep
<1>6. b # c /\ at[b] \in Nat /\ my[b] \in Modes
  BY <1>4, <1>5, WhereItIs DEF IInv
<1>7. at[b] <= 7
  BY <1>4, <1>5, <1>6 DEF IInv, Roles, Counted, CountedBy
<1>8. /\ at[b] <= BspMode(my[b]) /\ at[b] <= BspExit(my[b]) - 3 /\ at[b] <= LastRelease(my[b])
  BY <1>6, <1>7, Bounds
<1>9. bspIndex = b /\ my[b] = mode /\ my[c] = mode
  BY <1>1, <1>4, <1>5, <1>8 DEF IInv, Roles, Leader, ModeRead
<1>10. at'[b] = at[b] /\ my'[b] = my[b]
  BY <1>2, <1>6 DEF Alone
<1>11. run[c] = 0 /\ c \notin busy
  BY <1>4 DEF IInv, Roles, InStep, Presence
<1>12. /\ Waits(mode, at[b]) = 0 /\ Releases(mode, at[b]) = 0
       /\ Signals(mode, 2) = 0 /\ Awaits(mode, 2) = 0
  BY <1>6, <1>7, <1>9, Tallies
<1>13. InStepWith(c, b)'
  BY <1>1, <1>9, <1>10, <1>11, <1>12 DEF InStepWith, One
<1>14. Signalled(b)' = Signalled(b)
  <2>1. \A o \in Cpu \ {c} : (Joined(o)' <=> Joined(o)) /\ at'[o] = at[o] /\ my'[o] = my[o]
    BY <1>2, OthersKeep DEF Alone
  <2>2. Signals(my'[c], at'[c]) # Waits(my'[b], at'[b]) + 1
    BY <1>1, <1>9, <1>10, <1>12
  <2>3. QED
    BY <1>4, <1>10, <2>1, <2>2 DEF Signalled
<1>15. at'[c] <= ApExit(my'[c]) - 2
  BY <1>1, <1>3
<1>16. QED
  BY <1>1, <1>2, <1>4, <1>5, <1>6, <1>11, <1>13, <1>14, <1>15, FollowerStep

LEMMA ApRoles ==
  ASSUME IInv, TypeOK', Shape', NEW c \in Cpu, APHandler(c)
  PROVE  Roles'
<1> USE DEF local, sync, modes, data, chipset, CheckedIn
<1>0. TypeOK /\ Leader /\ ModeRead
  BY DEF IInv, Roles
<1>1. CASE ApSeesBsp(c)
  <2>1. "apHandler" \in Places
    BY DEF Places
  <2>2. /\ Alone(c) /\ pc[c] \in {"ap", "apAgain"} /\ pc'[c] = "apHandler" /\ my' = my /\ at' = at
        /\ UNCHANGED <<counter, insideSmm, bspIndex, mode, run, present, busy>> /\ insideSmm
    BY <1>0, <1>1, <2>1, Moves DEF ApSeesBsp, Goto
  <2>3. at[c] = 1 /\ my[c] \in Modes /\ ApExit(my[c]) \in Nat /\ ApExit(my[c]) > 1
    BY <2>2, WhereItIs, Bounds DEF IInv, Shape
  <2>4. /\ Arriving(c) /\ Arriving(c)' /\ ~Joined(c) /\ ~Joined(c)' /\ ~Leads(c) /\ ~Leads(c)'
    BY <2>2, <2>3 DEF Arriving, Joined, Leads, Follows
  <2>5. my'[c] = mode
    BY <1>0, <2>2, <2>4 DEF ModeRead
  <2>6. ~Election => c # DefaultBsp
    BY <1>0, <2>2 DEF Leader, ApPlaces
  <2>7. QED
    BY <2>2, <2>4, <2>5, <2>6, OutsiderStep
<1>2. CASE ApTimeout(c) \/ ApTimeoutAgain(c) \/ ApCallsBsp(c) \/ ApGiveUp(c)
  <2>1. {"apTimeout", "giveUp", "apAgain", "gaveUp"} \subseteq Places
    BY DEF Places
  <2>2. /\ Alone(c) /\ my'[c] = my[c] /\ pc[c] \in {"ap", "apTimeout", "apAgain", "giveUp"}
        /\ pc'[c] \in {"apTimeout", "giveUp", "apAgain", "gaveUp"}
        /\ UNCHANGED <<insideSmm, bspIndex, mode, run, present, busy>>
        /\ \/ pc'[c] # "gaveUp" /\ counter' = counter
           \/ pc'[c] = "gaveUp" /\ counter' = counter - 1
    BY <1>0, <1>2, <2>1, Moves DEF ApTimeout, ApTimeoutAgain, ApCallsBsp, ApGiveUp
  <2>3. my'[c] = mode
    BY <1>0, <2>2 DEF ModeRead, Arriving
  <2>4. ~Election => c # DefaultBsp
    BY <1>0, <2>2 DEF Leader, ApPlaces
  <2>5. QED
    BY <2>2, <2>3, <2>4, OutsiderMove DEF Handlers
<1>3. QED
  BY <1>1, <1>2, ApJoinRoles, ApSignalRoles, ApAwaitRoles, ApLookRoles, ProcedureRoles,
     ApAbsentRoles DEF APHandler

---------------------------------------------------------------------------
\* The steps of the BSP.

\* What a step of the BSP leaves alone.
LEMMA LeaderKeeps ==
  ASSUME IInv, NEW c \in Cpu, Leads(c), Leads(c)', Alone(c), pc' = pc, my' = my
  PROVE  /\ \A o \in Cpu : /\ Leads(o) <=> o = c
                           /\ Leads(o)' <=> o = c
                           /\ Follows(o)' <=> Follows(o)
                           /\ Joined(o)' <=> Joined(o)
                           /\ Arriving(o)' <=> Arriving(o)
                           /\ o # c => at'[o] = at[o]
                           /\ Joined(o) \/ Arriving(o) => o # c
         /\ Members' = Members /\ c \in Members
<1>1. \A o \in Cpu : Leads(o) <=> o = c
  BY DEF IInv, Roles, Leader
<1>2. /\ ~Follows(c) /\ ~Joined(c) /\ ~Arriving(c)
      /\ ~Follows(c)' /\ ~Joined(c)' /\ ~Arriving(c)'
  BY DEF Leads, Follows, Joined, Arriving
<1>3. ASSUME NEW o \in Cpu
      PROVE  /\ Leads(o)' <=> o = c
             /\ Follows(o)' <=> Follows(o)
             /\ Joined(o)' <=> Joined(o)
             /\ Arriving(o)' <=> Arriving(o)
             /\ o # c => at'[o] = at[o]
             /\ Joined(o) \/ Arriving(o) => o # c
  <2>1. CASE o = c
    BY <1>2, <2>1
  <2>2. CASE o # c
    BY <1>1, <2>2, OthersKeep DEF Alone
  <2>3. QED
    BY <2>1, <2>2
<1>4. Members' = Members /\ c \in Members
  BY <1>1, <1>3 DEF Members
<1>5. QED
  BY <1>1, <1>3, <1>4

LEMMA LeaderStep ==
  ASSUME IInv, TypeOK', NEW c \in Cpu, Leads(c), Leads(c)', Alone(c), pc' = pc, my' = my,
         \/ /\ at[c] <= BspExit(my[c]) - 3 /\ at'[c] <= BspExit(my[c]) - 3
            /\ bspIndex' = bspIndex
         \/ /\ ~(at'[c] <= BspExit(my[c]) - 3)
            /\ bspIndex' = IF Election THEN None ELSE bspIndex,
         insideSmm' <=> at'[c] \in 2 .. BspLeaves(my[c]),
         at'[c] <= BspMode(my[c]) => at[c] <= BspMode(my[c]) /\ mode' = mode,
         mode' = mode \/ \A o \in Cpu : ~Arriving(o),
         \A o \in Cpu \ {c} : o \in present' <=> o \in present,
         c \in present' <=> at'[c] \in 2 .. LastRelease(my[c]) + 1,
         \A o \in Cpu : /\ Arriving(o) => o \notin busy'
                        /\ pc[o] = "procedure" => o \in busy'
                        /\ Joined(o) /\ o \in busy' =>
                             /\ at[o] \in ApLookAt(my[o]) - 1 .. ApLookAt(my[o])
                             /\ at'[c] \in BspCore(my[c]) .. BspCore(my[c]) + 1,
         Counted', InStep'
  PROVE  Roles'
<1>1. \A o \in Cpu : /\ Leads(o) <=> o = c
                     /\ Leads(o)' <=> o = c
                     /\ Follows(o)' <=> Follows(o)
                     /\ Joined(o)' <=> Joined(o)
                     /\ Arriving(o)' <=> Arriving(o)
                     /\ o # c => at'[o] = at[o]
                     /\ Joined(o) \/ Arriving(o) => o # c
  BY LeaderKeeps
<1>2. Leader'
  <2>1. ~Election => /\ bspIndex' = DefaultBsp /\ pc'[DefaultBsp] \notin ApPlaces
                     /\ \A o \in Cpu : pc'[o] = "bspHandler" => o = DefaultBsp
    BY DEF IInv, Roles, Leader
  <2>2. at'[c] <= BspExit(my'[c]) - 3 => bspIndex' = c
    BY <1>1 DEF IInv, Roles, Leader
  <2>3. Election /\ bspIndex' # None =>
          Leads(bspIndex)' /\ at'[bspIndex'] <= BspExit(my'[bspIndex']) - 3
    <3>1. SUFFICES ASSUME Election, bspIndex' # None
                   PROVE  Leads(bspIndex)' /\ at'[bspIndex'] <= BspExit(my'[bspIndex']) - 3
      OBVIOUS
    <3>2. at'[c] <= BspExit(my[c]) - 3 /\ bspIndex' = c
      BY <1>1, <3>1 DEF IInv, Roles, Leader
    <3>3. QED
      BY <3>2 DEF Leads
  <2>4. QED
    BY <1>1, <2>1, <2>2, <2>3 DEF Leader
<1>3. Inside'
  <2>1. \A o \in Cpu : my'[o] \in Modes
    BY DEF TypeOK
  <2>2. \A o \in Cpu : pc'[o] = "bspHandler" /\ at'[o] \in 2 .. BspLeaves(my'[o]) => Leads(o)'
    BY <2>1, Bounds DEF Leads
  <2>3. pc'[c] = "bspHandler"
    BY DEF Leads
  <2>4. QED
    BY <1>1, <2>2, <2>3 DEF Inside
<1>4. ModeRead'
  BY <1>1 DEF IInv, Roles, ModeRead
<1>5. Presence'
  <2>1. \A o \in Cpu : o \in present' <=> \/ Joined(o)' /\ at'[o] <= ApExit(my'[o]) - 2
                                          \/ Leads(o)' /\ at'[o] \in 2 .. LastRelease(my'[o]) + 1
    BY <1>1 DEF IInv, Roles, Presence
  <2>2. ASSUME NEW o \in Cpu, o \in busy', Arriving(o)' \/ Joined(o)'
        PROVE  /\ Joined(o)' /\ at'[o] \in ApLookAt(my'[o]) - 1 .. ApLookAt(my'[o])
               /\ \E l \in Cpu : Leads(l)' /\ at'[l] \in BspCore(my'[l]) .. BspCore(my'[l]) + 1
    BY <1>1, <2>2
  <2>3. QED
    BY <2>1, <2>2 DEF Presence
<1>6. QED
  BY <1>2, <1>3, <1>4, <1>5 DEF Roles

\* The BSP neither counts nor exchanges signals.
LEMMA QuietInStep ==
  ASSUME IInv, NEW c \in Cpu, Leads(c), Leads(c)', Alone(c), pc' = pc, my' = my, bsp' = bsp,
         UNCHANGED run, \A o \in Cpu \ {c} : o \in busy' <=> o \in busy,
         at'[c] > at[c], at'[c] \in Nat,
         Waits(my[c], at'[c]) = Waits(my[c], at[c]),
         Releases(my[c], at'[c]) = Releases(my[c], at[c])
  PROVE  InStep'
<1>1. \A o \in Cpu : /\ Leads(o) <=> o = c
                     /\ Leads(o)' <=> o = c
                     /\ Follows(o)' <=> Follows(o)
                     /\ Joined(o)' <=> Joined(o)
                     /\ o # c => at'[o] = at[o]
                     /\ Joined(o) => o # c
  BY LeaderKeeps
<1>2. at[c] \in Nat /\ at[c] >= 1 /\ my[c] \in Modes
  BY WhereItIs DEF IInv
<1>3. \A o \in Cpu : Follows(o)' => \E l \in Cpu : Leads(l)' /\ at'[l] > 1
  BY <1>1, <1>2
<1>4. ASSUME NEW o \in Cpu, Joined(o)'
      PROVE  InStepWith(o, c)'
  <2>1. InStepWith(o, c) /\ o # c
    BY <1>1, <1>4 DEF IInv, Roles, InStep
  <2>2. at'[o] = at[o] /\ (o \in busy' <=> o \in busy)
    BY <1>1, <2>1
  <2>3. QED
    BY <2>1, <2>2 DEF InStepWith
<1>5. Signalled(c)' = Signalled(c)
  BY <1>1 DEF Signalled
<1>6. at'[c] <= LastRelease(my[c]) => run'[c] = Cardinality(Signalled(c)')
  BY <1>1, <1>2, <1>5, Bounds DEF IInv, Roles, InStep
<1>7. \A o \in Cpu : ~Joined(o)' /\ ~Leads(o)' => run'[o] = 0
  BY <1>1 DEF IInv, Roles, InStep
<1>8. QED
  BY <1>1, <1>3, <1>4, <1>6, <1>7 DEF InStep

LEMMA QuietCounted ==
  ASSUME IInv, NEW c \in Cpu, Leads(c), Leads(c)', Alone(c), pc' = pc, my' = my,
         UNCHANGED <<run, counter>>, apCount'[c] = apCount[c],
         at'[c] > at[c], at'[c] \in Nat, at[c] <= 6 => at'[c] <= 6,
         at[c] # 7, at[c] # LastRelease(my[c]), at[c] # LastRelease(my[c]) + 2,
         at'[c] = at[c] + 1 \/ at'[c] <= 6
  PROVE  Counted'
<1>1. \A o \in Cpu : /\ Leads(o) <=> o = c
                     /\ Leads(o)' <=> o = c
                     /\ Joined(o)' <=> Joined(o)
                     /\ Arriving(o)' <=> Arriving(o)
  BY LeaderKeeps
<1>2. Members' = Members
  BY LeaderKeeps
<1>3. at[c] \in Nat /\ LastRelease(my[c]) \in Nat /\ LastRelease(my[c]) > 7
  BY WhereItIs, Bounds DEF IInv
<1>4. (at'[c] <= 6) => counter' = Cardinality(Members')
  BY <1>1, <1>2, <1>3 DEF IInv, Roles, Counted
<1>5. CountedBy(c)'
  <2>1. CountedBy(c)
    BY DEF IInv, Roles, Counted
  <2>2. at'[c] \in 7 .. LastRelease(my[c]) => at[c] \in 7 .. LastRelease(my[c])
    BY <1>3
  <2>3. at'[c] > 7 => at[c] > 7
    BY <1>3
  <2>4. at'[c] \in LastRelease(my[c]) + 1 .. LastRelease(my[c]) + 2 =>
          at[c] \in LastRelease(my[c]) + 1 .. LastRelease(my[c]) + 2
    BY <1>3
  <2>5. at'[c] > LastRelease(my[c]) + 2 => at[c] > LastRelease(my[c]) + 2
    BY <1>3
  <2>6. QED
    BY <1>1, <1>2, <2>1, <2>2, <2>3, <2>4, <2>5 DEF CountedBy
<1>6. QED
  BY <1>1, <1>4, <1>5 DEF Counted

\* What the BSP may conclude from its own place.
LEMMA LeaderFacts ==
  ASSUME IInv, NEW c \in Cpu, Leads(c)
  PROVE  /\ my[c] \in Modes /\ at[c] \in Nat /\ at[c] >= 1
         /\ insideSmm <=> at[c] \in 2 .. BspLeaves(my[c])
         /\ c \in present <=> at[c] \in 2 .. LastRelease(my[c]) + 1
         /\ \A o \in Cpu : Joined(o) /\ o \in busy =>
              /\ o # c /\ o \in present /\ at[o] \in ApLookAt(my[o]) - 1 .. ApLookAt(my[o])
              /\ at[c] \in BspCore(my[c]) .. BspCore(my[c]) + 1
         /\ \A o \in Cpu : Arriving(o) => o # c /\ o \notin busy
         /\ at[c] > 7 => \A o \in Cpu : ~Arriving(o)
<1>0. \A o \in Cpu : Leads(o) => o = c
  BY DEF IInv, Roles, Leader
<1>1. \A o \in Cpu : my[o] \in Modes /\ at[o] \in Nat /\ at[o] >= 1
  BY WhereItIs DEF IInv
<1>2. insideSmm <=> at[c] \in 2 .. BspLeaves(my[c])
  <2>1. \A b \in Cpu : pc[b] = "bspHandler" /\ at[b] \in 2 .. BspLeaves(my[b]) => Leads(b)
    BY <1>1, Bounds DEF Leads
  <2>2. QED
    BY <1>0, <2>1 DEF IInv, Roles, Inside, Leads
<1>3. c \in present <=> at[c] \in 2 .. LastRelease(my[c]) + 1
  BY RolesDiffer DEF IInv, Roles, Presence
<1>4. ASSUME NEW o \in Cpu, Joined(o), o \in busy
      PROVE  /\ o # c /\ o \in present /\ at[o] \in ApLookAt(my[o]) - 1 .. ApLookAt(my[o])
             /\ at[c] \in BspCore(my[c]) .. BspCore(my[c]) + 1
  <2>1. at[o] \in ApLookAt(my[o]) - 1 .. ApLookAt(my[o])
    BY <1>4 DEF IInv, Roles, Presence
  <2>2. PICK b \in Cpu : Leads(b) /\ at[b] \in BspCore(my[b]) .. BspCore(my[b]) + 1
    BY <1>4 DEF IInv, Roles, Presence
  <2>3. b = c
    BY <1>0, <2>2
  <2>4. at[o] <= ApExit(my[o]) - 2
    BY <1>1, <2>1, Bounds
  <2>5. o \in present
    BY <1>4, <2>4 DEF IInv, Roles, Presence
  <2>6. QED
    BY <1>4, <2>1, <2>2, <2>3, <2>5, RolesDiffer
<1>5. \A o \in Cpu : Arriving(o) => o # c /\ o \notin busy
  BY RolesDiffer DEF IInv, Roles, Presence
<1>6. at[c] > 7 => \A o \in Cpu : ~Arriving(o)
  BY DEF IInv, Roles, Counted, CountedBy
<1>7. QED
  BY <1>1, <1>2, <1>3, <1>4, <1>5, <1>6

\* The steps of the BSP that neither count processors nor exchange signals.
LEMMA QuietStep ==
  ASSUME IInv, TypeOK', NEW c \in Cpu, NEW step \in QuietSteps, InBsp(c, step),
         Advance(c) \/ (step = "gather" /\ Skip(c, 2)),
         UNCHANGED <<counter, run>>,
         bspIndex' = IF step = "forget" /\ Election THEN None ELSE bspIndex,
         insideSmm' <=> step = "enter" \/ (step # "leave" /\ insideSmm),
         step # "mode" => mode' = mode,
         present' = IF step = "enter" THEN present \cup {c}
                    ELSE IF step = "absent" THEN present \ {c} ELSE present,
         busy' = busy \/ (step = "core" /\ busy' = busy \cup {c}),
         step = "drain" => present \cap busy \subseteq {c}
  PROVE  Roles'
<1>0. PICK m \in Modes : m = my[c]
  BY WhereItIs DEF IInv
<1>1. /\ pc[c] = "bspHandler" /\ at[c] \in BspPlaces(m, step)
      /\ {BspCore(m), BspLeaves(m), BspMode(m), LastRelease(m), BspExit(m)} \subseteq Nat
      /\ 2 < BspCore(m) /\ BspCore(m) + 1 < BspLeaves(m) /\ BspLeaves(m) < BspMode(m)
      /\ BspMode(m) < LastRelease(m) /\ LastRelease(m) + 6 = BspExit(m) /\ 7 < BspLeaves(m)
  <2>1. step \in BspSteps
    BY DEF BspSteps
  <2>2. QED
    BY <1>0, <2>1, WhereItIs, Bounds DEF IInv
<1>2. /\ at[c] \in Nat /\ at[c] >= 1 /\ at[c] # 6 /\ at[c] # 7 /\ at[c] <= BspExit(m) - 3
      /\ Waits(m, at[c] + 1) = Waits(m, at[c]) /\ Releases(m, at[c] + 1) = Releases(m, at[c])
      /\ at[c] # LastRelease(m) /\ at[c] # LastRelease(m) + 2
      /\ step = "gather" => at[c] = 3 /\ BspCore(m) > 7
      /\ step # "leave" <=> at[c] # BspLeaves(m)
      /\ step # "mode" <=> at[c] # BspMode(m)
      /\ step # "core" <=> at[c] # BspCore(m)
      /\ step # "drain" <=> at[c] # BspCore(m) + 1
      /\ step # "forget" <=> at[c] # BspExit(m) - 3
      /\ step # "absent" <=> at[c] # LastRelease(m) + 1
      /\ step # "enter" <=> at[c] > 1
  <2>1. /\ step = "leave" => at[c] = BspLeaves(m)
        /\ step = "mode" => at[c] = BspMode(m)
        /\ step = "core" => at[c] = BspCore(m)
        /\ step = "drain" => at[c] = BspCore(m) + 1
        /\ step = "forget" => at[c] = BspExit(m) - 3
        /\ step = "absent" => at[c] = LastRelease(m) + 1
        /\ step = "enter" => at[c] = 1
    BY <1>1 DEF BspPlaces
  <2>2. QED
    BY <1>1, <2>1, QuietPlace
<1>3. /\ Alone(c) /\ pc' = pc /\ my' = my /\ bsp' = bsp /\ apCount' = apCount
      /\ at'[c] = at[c] + 1 \/ (step = "gather" /\ at'[c] = 5)
  BY <1>2 DEF Advance, Skip, Alone, IInv, TypeOK
<1>4. at'[c] \in Nat /\ at'[c] > at[c] /\ at'[c] <= BspExit(m) - 2
  BY <1>1, <1>2, <1>3
<1>5. Leads(c) /\ Leads(c)'
  BY <1>0, <1>1, <1>2, <1>3, <1>4 DEF Leads
<1>6. Waits(m, at'[c]) = Waits(m, at[c]) /\ Releases(m, at'[c]) = Releases(m, at[c])
  <2>1. CASE at'[c] = at[c] + 1
    BY <1>2, <2>1
  <2>2. CASE step = "gather" /\ at'[c] = 5
    <3>1. at[c] = 3
      BY <1>2, <2>2
    <3>2. QED
      BY <2>2, <3>1, Tallies
  <2>3. QED
    BY <1>3, <2>1, <2>2
<1>7. InStep'
  <2>1. \A o \in Cpu \ {c} : o \in busy' <=> o \in busy
    OBVIOUS
  <2>2. QED
    BY <1>0, <1>3, <1>4, <1>5, <1>6, <2>1, QuietInStep
<1>8. Counted'
  <2>1. at[c] <= 6 => at'[c] <= 6
    BY <1>2, <1>3
  <2>2. at'[c] = at[c] + 1 \/ at'[c] <= 6
    BY <1>3
  <2>3. QED
    BY <1>0, <1>2, <1>3, <1>4, <1>5, <2>1, <2>2, QuietCounted
<1>9. \/ /\ at[c] <= BspExit(m) - 3 /\ at'[c] <= BspExit(m) - 3
         /\ bspIndex' = bspIndex
      \/ /\ ~(at'[c] <= BspExit(m) - 3)
         /\ bspIndex' = IF Election THEN None ELSE bspIndex
  BY <1>1, <1>2, <1>3
<1>10. insideSmm' <=> at'[c] \in 2 .. BspLeaves(m)
  <2>1. insideSmm <=> at[c] \in 2 .. BspLeaves(m)
    BY <1>0, <1>5, LeaderFacts
  <2>2. QED
    BY <1>1, <1>2, <1>3, <2>1
<1>11. at'[c] <= BspMode(m) => at[c] <= BspMode(m) /\ mode' = mode
  BY <1>1, <1>2, <1>3
<1>12. mode' = mode \/ \A o \in Cpu : ~Arriving(o)
  BY <1>1, <1>2, <1>5, LeaderFacts
<1>13. c \in present' <=> at'[c] \in 2 .. LastRelease(m) + 1
  <2>1. c \in present <=> at[c] \in 2 .. LastRelease(m) + 1
    BY <1>0, <1>5, LeaderFacts
  <2>2. QED
    BY <1>1, <1>2, <1>3, <2>1
<1>14. ASSUME NEW o \in Cpu
       PROVE  /\ Arriving(o) => o \notin busy'
              /\ pc[o] = "procedure" => o \in busy'
              /\ Joined(o) /\ o \in busy' =>
                   /\ at[o] \in ApLookAt(my[o]) - 1 .. ApLookAt(my[o])
                   /\ at'[c] \in BspCore(m) .. BspCore(m) + 1
  <2>1. Arriving(o) \/ Joined(o) => o # c
    BY <1>5, LeaderFacts, RolesDiffer
  <2>2. Arriving(o) => o \notin busy'
    BY <1>5, <2>1, LeaderFacts
  <2>3. pc[o] = "procedure" => o \in busy'
    BY DEF IInv, Roles, Presence
  <2>4. ASSUME Joined(o), o \in busy'
        PROVE  /\ at[o] \in ApLookAt(my[o]) - 1 .. ApLookAt(my[o])
               /\ at'[c] \in BspCore(m) .. BspCore(m) + 1
    <3>1. o # c /\ o \in busy
      BY <2>1, <2>4
    <3>2. /\ o \in present /\ at[o] \in ApLookAt(my[o]) - 1 .. ApLookAt(my[o])
          /\ at[c] \in BspCore(m) .. BspCore(m) + 1
      BY <1>0, <1>5, <2>4, <3>1, LeaderFacts
    <3>3. step # "drain"
      BY <3>1, <3>2
    <3>4. step = "core"
      BY <1>1, <1>2, <3>2, <3>3
    <3>5. QED
      BY <1>1, <1>2, <1>3, <3>2, <3>4
  <2>5. QED
    BY <2>2, <2>3, <2>4
<1>15. \A o \in Cpu \ {c} : o \in present' <=> o \in present
  OBVIOUS
<1>16. QED
  BY <1>0, <1>3, <1>5, <1>7, <1>8, <1>9, <1>10, <1>11, <1>12, <1>13, <1>14, <1>15, LeaderStep

LEMMA QuietRoles ==
  ASSUME IInv, TypeOK', NEW c \in Cpu,
         \/ BspEnter(c) \/ BspClearStatus(c) \/ BspGather(c) \/ BspGatherAgain(c) \/ BspSync(c)
         \/ SmmCoreEntry(c) \/ BspDrain(c) \/ BspLeave(c) \/ BspSetMode(c) \/ BspAbsent(c)
         \/ BspForget(c)
  PROVE  Roles'
<1> USE DEF sync, modes, data, QuietSteps
<1>1. CASE BspEnter(c)
  BY <1>1, QuietStep DEF BspEnter
<1>2. CASE BspClearStatus(c)
  BY <1>2, QuietStep DEF BspClearStatus
<1>3. CASE BspGather(c)
  BY <1>3, QuietStep DEF BspGather
<1>4. CASE BspGatherAgain(c)
  BY <1>4, QuietStep DEF BspGatherAgain
<1>5. CASE BspSync(c)
  BY <1>5, QuietStep DEF BspSync
<1>6. CASE SmmCoreEntry(c)
  BY <1>6, QuietStep DEF SmmCoreEntry
<1>7. CASE BspDrain(c)
  BY <1>7, QuietStep DEF BspDrain
<1>8. CASE BspLeave(c)
  BY <1>8, QuietStep DEF BspLeave
<1>9. CASE BspSetMode(c)
  BY <1>9, QuietStep DEF BspSetMode
<1>10. CASE BspAbsent(c)
  BY <1>10, QuietStep DEF BspAbsent
<1>11. CASE BspForget(c)
  BY <1>11, QuietStep DEF BspForget
<1>12. QED
  BY <1>1, <1>2, <1>3, <1>4, <1>5, <1>6, <1>7, <1>8, <1>9, <1>10, <1>11

\* The steps of the BSP at which InsideSmm, BspIndex, the mode and Present stay.
LEMMA LeaderMove ==
  ASSUME IInv, TypeOK', NEW c \in Cpu, Leads(c), Leads(c)', Alone(c), pc' = pc, my' = my,
         UNCHANGED <<insideSmm, bspIndex, mode, present, busy>>,
         at'[c] = at[c] + 1, at[c] > 1,
         at[c] # BspCore(my[c]), at[c] # BspCore(my[c]) + 1, at[c] # BspLeaves(my[c]),
         at[c] # LastRelease(my[c]) + 1, at[c] # BspExit(my[c]) - 3,
         Counted', InStep'
  PROVE  Roles'
<1>0. PICK m \in Modes : m = my[c]
  BY WhereItIs DEF IInv
<1>1. /\ at[c] \in Nat /\ {BspCore(m), BspLeaves(m), BspMode(m), LastRelease(m), BspExit(m)} \subseteq Nat
      /\ 2 < BspCore(m) /\ BspCore(m) + 1 < BspLeaves(m) /\ BspLeaves(m) < BspMode(m)
      /\ BspMode(m) < LastRelease(m) /\ LastRelease(m) + 6 = BspExit(m)
  BY <1>0, WhereItIs, Bounds DEF IInv
<1>2. at'[c] <= BspExit(m) - 2
  BY <1>0 DEF Leads
<1>3. at[c] <= BspExit(m) - 3 /\ at'[c] <= BspExit(m) - 3
  BY <1>0, <1>1, <1>2
<1>4. insideSmm' <=> at'[c] \in 2 .. BspLeaves(m)
  <2>1. insideSmm <=> at[c] \in 2 .. BspLeaves(m)
    BY <1>0, LeaderFacts
  <2>2. QED
    BY <1>0, <1>1, <2>1
<1>5. c \in present' <=> at'[c] \in 2 .. LastRelease(m) + 1
  <2>1. c \in present <=> at[c] \in 2 .. LastRelease(m) + 1
    BY <1>0, LeaderFacts
  <2>2. QED
    BY <1>0, <1>1, <2>1
<1>6. ASSUME NEW o \in Cpu
      PROVE  /\ Arriving(o) => o \notin busy'
             /\ pc[o] = "procedure" => o \in busy'
             /\ Joined(o) /\ o \in busy' =>
                  /\ at[o] \in ApLookAt(my[o]) - 1 .. ApLookAt(my[o])
                  /\ at'[c] \in BspCore(m) .. BspCore(m) + 1
  <2>1. Arriving(o) => o \notin busy'
    BY LeaderFacts
  <2>2. pc[o] = "procedure" => o \in busy'
    BY DEF IInv, Roles, Presence
  <2>3. ~(Joined(o) /\ o \in busy)
    <3>1. Joined(o) /\ o \in busy => at[c] \in BspCore(m) .. BspCore(m) + 1
      BY <1>0, LeaderFacts
    <3>2. QED
      BY <1>0, <1>1, <3>1
  <2>4. QED
    BY <2>1, <2>2, <2>3
<1>7. at'[c] <= BspMode(m) => at[c] <= BspMode(m) /\ mode' = mode
  BY <1>1
<1>8. QED
  BY <1>0, <1>3, <1>4, <1>5, <1>6, <1>7, LeaderStep

LEMMA LockRoles ==
  ASSUME IInv, TypeOK', NEW c \in Cpu, BspLock(c)
  PROVE  Roles'
<1>0. PICK m \in Modes : m = my[c]
  BY WhereItIs DEF IInv
<1>1. /\ pc[c] = "bspHandler" /\ at[c] = 6 /\ my[c] = m
      /\ at[c] # BspCore(m) /\ at[c] # BspCore(m) + 1
  <2>1. "lock" \in BspSteps /\ InBsp(c, "lock")
    BY DEF BspSteps, BspLock
  <2>2. pc[c] = "bspHandler" /\ at[c] \in BspPlaces(m, "lock")
    BY <1>0, <2>1, WhereItIs DEF IInv
  <2>3. QED
    BY <1>0, <2>2 DEF BspPlaces, BspCore, Pick
<1>2. /\ Alone(c) /\ pc' = pc /\ my' = my /\ bsp' = bsp /\ at'[c] = 7 /\ counter' = Locked
      /\ apCount'[c] = (counter + Locked) % CounterSize
      /\ UNCHANGED <<insideSmm, bspIndex, mode, present, busy, run>>
  BY <1>1 DEF BspLock, LockdownSemaphore, Alone, IInv, TypeOK, modes, data
<1>3. /\ {BspLeaves(m), LastRelease(m), BspExit(m)} \subseteq Nat
      /\ BspLeaves(m) > 7 /\ LastRelease(m) > 7 /\ LastRelease(m) + 6 = BspExit(m)
  BY <1>0, Bounds
<1>4. Leads(c) /\ Leads(c)'
  BY <1>1, <1>2, <1>3 DEF Leads
<1>5. /\ \A o \in Cpu : Leads(o) <=> o = c
      /\ \A o \in Cpu : Leads(o)' <=> o = c
      /\ Members' = Members /\ c \in Members
  BY <1>2, <1>4, LeaderKeeps
<1>6. counter = Cardinality(Members) /\ counter \in Nat /\ counter >= 1 /\ counter < Locked
  <2>1. counter = Cardinality(Members)
    BY <1>1, <1>5 DEF IInv, Roles, Counted
  <2>2. Members \subseteq Cpu /\ Members # {}
    BY <1>5 DEF Members
  <2>3. /\ Cardinality(Members) \in Nat /\ Cardinality(Members) <= NumberOfCpus
        /\ Cardinality(Members) # 0
    BY <2>2, Counting
  <2>4. QED
    BY <2>1, <2>3, CpuCount
<1>7. apCount'[c] = counter - 1
  <2>1. CounterSize \in Nat /\ Locked = CounterSize - 1
    BY RendezvousAssumption DEF Locked
  <2>2. counter + Locked = CounterSize + (counter - 1) /\ counter - 1 \in 0 .. CounterSize - 1
    BY <1>6, <2>1
  <2>3. (CounterSize + (counter - 1)) % CounterSize = counter - 1
    BY <2>1, <2>2
  <2>4. QED
    BY <1>2, <2>2, <2>3
<1>8. Counted'
  <2>1. counter' + apCount'[c] + 1 = Locked + Cardinality(Members')
    BY <1>2, <1>5, <1>6, <1>7, CpuCount
  <2>2. CountedBy(c)'
    BY <1>0, <1>1, <1>2, <1>3, <2>1 DEF CountedBy
  <2>3. QED
    BY <1>2, <1>5, <2>2 DEF Counted
<1>9. InStep'
  <2>1. Waits(m, 7) = Waits(m, 6) /\ Releases(m, 7) = Releases(m, 6)
    BY <1>0, Tallies
  <2>2. QED
    BY <1>1, <1>2, <1>4, <2>1, QuietInStep
<1>10. QED
  BY <1>1, <1>2, <1>3, <1>4, <1>8, <1>9, LeaderMove

\* The BSP that has met as many APs as it has counted has met all members.
LEMMA MeetAll ==
  ASSUME IInv, NEW c \in Cpu, Leads(c), at[c] \in 7 .. LastRelease(my[c]),
         NEW S, S \subseteq Members \ {c}, Cardinality(S) >= apCount[c]
  PROVE  /\ S = Members \ {c} /\ counter = Locked /\ Cardinality(S) = apCount[c]
         /\ \A o \in Cpu : Arriving(o) => o \in S
         /\ \A o \in Cpu : Joined(o) => o \in S
<1>1. c \in Members /\ Members \subseteq Cpu /\ S \subseteq Cpu /\ Members \ {c} \subseteq Cpu
  BY DEF Members
<1>2. counter + apCount[c] + 1 = Locked + Cardinality(Members)
  BY DEF IInv, Roles, Counted, CountedBy
<1>3. counter \in 0 .. Locked /\ apCount[c] \in Nat /\ Locked \in Nat
  BY CpuCount DEF IInv, TypeOK
<1>4. /\ Cardinality(Members) \in Nat /\ Cardinality(Members \ {c}) = Cardinality(Members) - 1
      /\ Cardinality(S) \in Nat /\ Cardinality(S) <= Cardinality(Members \ {c})
      /\ Cardinality(S) = Cardinality(Members \ {c}) => S = Members \ {c}
  BY <1>1, Counting
<1>5. /\ Cardinality(S) = Cardinality(Members \ {c}) /\ counter = Locked
      /\ Cardinality(S) = apCount[c]
  BY <1>2, <1>3, <1>4
<1>6. S = Members \ {c}
  BY <1>4, <1>5
<1>7. QED
  BY <1>5, <1>6, RolesDiffer DEF Members

\* A wait for the signals of all APs but the last.
LEMMA WaitRoles ==
  ASSUME IInv, TypeOK', NEW c \in Cpu, WaitForAllAPs(c)
  PROVE  Roles'
<1>0. PICK m \in Modes : m = my[c]
  BY WhereItIs DEF IInv
<1>1. pc[c] = "bspHandler" /\ at[c] \in BspPlaces(m, "wait") /\ my[c] = m
  <2>1. "wait" \in BspSteps /\ InBsp(c, "wait")
    BY DEF BspSteps, WaitForAllAPs
  <2>2. QED
    BY <1>0, <2>1, WhereItIs DEF IInv
<1>2. /\ Alone(c) /\ pc' = pc /\ my' = my /\ bsp' = bsp /\ apCount' = apCount
      /\ at'[c] = at[c] + 1
      /\ UNCHANGED <<counter, insideSmm, bspIndex, mode, present, busy>>
      /\ run[c] >= apCount[c] /\ run'[c] = run[c] - apCount[c]
      /\ \A o \in Cpu \ {c} : run'[o] = run[o]
      /\ run[c] \in Nat /\ apCount[c] \in Nat
  <2>1. run \in [Cpu -> Nat] /\ apCount[c] \in Nat
    BY CpuCount DEF IInv, TypeOK
  <2>2. QED
    BY <2>1, AdvanceMoves DEF WaitForAllAPs, WaitForSemaphore, IInv, sync, modes
<1>3. /\ at[c] \in Nat /\ at[c] >= 7 /\ at[c] <= BspExit(m) - 4
      /\ Waits(m, at[c] + 1) = Waits(m, at[c]) + 1 /\ Releases(m, at[c] + 1) = Releases(m, at[c])
      /\ at[c] < LastRelease(m) \/ at[c] = LastRelease(m) + 2
      /\ at[c] # BspCore(m) /\ at[c] # BspCore(m) + 1 /\ at[c] # BspLeaves(m)
      /\ at[c] # LastRelease(m) + 1 /\ at[c] # BspExit(m) - 3 /\ Waits(m, at[c]) \in Nat
      /\ {LastRelease(m), BspExit(m)} \subseteq Nat /\ LastRelease(m) + 6 = BspExit(m)
      /\ LastRelease(m) > 7
  BY <1>0, <1>1, WaitPlace, Bounds, Tallies
<1>4. Leads(c) /\ Leads(c)'
  BY <1>1, <1>2, <1>3 DEF Leads
<1>5. /\ \A o \in Cpu : /\ Leads(o) <=> o = c
                        /\ Leads(o)' <=> o = c
                        /\ Follows(o)' <=> Follows(o)
                        /\ Joined(o)' <=> Joined(o)
                        /\ Arriving(o)' <=> Arriving(o)
                        /\ o # c => at'[o] = at[o]
                        /\ Joined(o) \/ Arriving(o) => o # c
      /\ Members' = Members /\ c \in Members
  BY <1>2, <1>4, LeaderKeeps
<1>6. \A o \in Cpu : Follows(o) => \E l \in Cpu : Leads(l)' /\ at'[l] > 1
  BY <1>2, <1>3, <1>5
<1>7. \A o \in Cpu : ~Joined(o) /\ ~Leads(o) => run'[o] = 0
  BY <1>2, <1>5 DEF IInv, Roles, InStep
<1>8. Counted' /\ InStep'
  <2>1. CASE at[c] < LastRelease(m)
    <3>1. Signalled(c) \subseteq Members \ {c} /\ run[c] = Cardinality(Signalled(c))
      BY <1>1, <1>3, <1>4, <1>5, <2>1 DEF Signalled, Members, IInv, Roles, InStep
    <3>2. /\ counter = Locked /\ run[c] = apCount[c]
          /\ \A o \in Cpu : Arriving(o) => o \in Signalled(c)
          /\ \A o \in Cpu : Joined(o) => o \in Signalled(c)
      BY <1>1, <1>2, <1>3, <1>4, <2>1, <3>1, MeetAll
    <3>3. \A o \in Cpu : ~Arriving(o)
      BY <3>2, RolesDiffer DEF Signalled
    <3>4. run'[c] = 0 /\ at'[c] > 7 /\ at'[c] \in 7 .. LastRelease(m)
      BY <1>2, <1>3, <2>1, <3>2
    <3>5. Counted'
      <4>1. counter' + apCount'[c] + 1 = Locked + Cardinality(Members')
        BY <1>1, <1>2, <1>3, <1>4, <1>5, <2>1 DEF IInv, Roles, Counted, CountedBy
      <4>2. CountedBy(c)'
        BY <1>1, <1>2, <1>3, <1>5, <3>2, <3>3, <3>4, <4>1 DEF CountedBy
      <4>3. ~(at'[c] <= 6)
        BY <1>2, <1>3
      <4>4. QED
        BY <1>5, <4>2, <4>3 DEF Counted
    <3>6. \A o \in Cpu : Joined(o) => Signals(my[o], at[o]) = Waits(m, at[c]) + 1
      BY <1>1, <3>2 DEF Signalled
    <3>7. \A o \in Cpu : Joined(o) => InStepWith(o, c)'
      <4>1. SUFFICES ASSUME NEW o \in Cpu, Joined(o) PROVE InStepWith(o, c)'
        OBVIOUS
      <4>2. InStepWith(o, c) /\ o # c
        BY <1>4, <1>5, <4>1 DEF IInv, Roles, InStep
      <4>3. Signals(my[o], at[o]) = Waits(m, at'[c])
        BY <1>2, <1>3, <3>6, <4>1
      <4>4. QED
        BY <1>1, <1>2, <1>3, <1>5, <4>2, <4>3 DEF InStepWith
    <3>8. Signalled(c)' = {}
      <4>1. \A o \in Cpu : Joined(o)' => Signals(my'[o], at'[o]) # Waits(my'[c], at'[c]) + 1
        BY <1>1, <1>2, <1>3, <1>5, <3>6
      <4>2. QED
        BY <4>1 DEF Signalled
    <3>9. run'[c] = Cardinality(Signalled(c)')
      BY <3>4, <3>8, FS_EmptySet
    <3>10. QED
      BY <1>5, <1>6, <1>7, <3>5, <3>7, <3>9 DEF InStep
  <2>2. CASE at[c] = LastRelease(m) + 2
    <3>1. /\ run[c] + Cardinality(Members) = apCount[c] + 1 /\ counter = Locked
          /\ \A o \in Cpu : ~Arriving(o)
      BY <1>1, <1>3, <1>4, <2>2 DEF IInv, Roles, Counted, CountedBy
    <3>2. Members \subseteq Cpu /\ Members \ {c} \subseteq Cpu
      BY DEF Members
    <3>3. /\ Cardinality(Members) \in Nat /\ Cardinality(Members \ {c}) = Cardinality(Members) - 1
          /\ Cardinality(Members \ {c}) \in Nat
          /\ Cardinality(Members \ {c}) = 0 => Members \ {c} = {}
      BY <1>5, <3>2, Counting
    <3>4. run'[c] = 0 /\ Members \ {c} = {}
      BY <1>2, <3>1, <3>3
    <3>5. \A o \in Cpu : ~Joined(o)
      BY <1>5, <3>4 DEF Members
    <3>6. \A o \in Cpu : ~Follows(o)
      BY <3>1, <3>5, WhereItIs, RolesDiffer DEF IInv
    <3>7. Counted'
      BY <1>1, <1>2, <1>3, <1>5, <2>2, <3>1, <3>4, <3>5 DEF Counted, CountedBy
    <3>8. ~(at'[c] <= LastRelease(m))
      BY <1>2, <1>3, <2>2
    <3>9. QED
      BY <1>1, <1>2, <1>5, <1>7, <3>5, <3>6, <3>7, <3>8 DEF InStep
  <2>3. QED
    BY <1>3, <2>1, <2>2
<1>9. QED
  BY <1>1, <1>2, <1>3, <1>4, <1>8, LeaderMove

\* The relaxed flow counts the APs that are present.
LEMMA CountRoles ==
  ASSUME IInv, TypeOK', NEW c \in Cpu, BspCount(c)
  PROVE  Roles'
<1>0. PICK m \in Modes : m = my[c]
  BY WhereItIs DEF IInv
<1>1. /\ pc[c] = "bspHandler" /\ at[c] = 7 /\ my[c] = m
      /\ at[c] # BspCore(m) /\ at[c] # BspCore(m) + 1
      /\ Waits(m, 8) = Waits(m, 7) /\ Releases(m, 8) = Releases(m, 7)
  <2>1. "count" \in BspSteps /\ InBsp(c, "count")
    BY DEF BspSteps, BspCount
  <2>2. pc[c] = "bspHandler" /\ at[c] \in BspPlaces(m, "count")
    BY <1>0, <2>1, WhereItIs DEF IInv
  <2>3. QED
    BY <1>0, <2>2 DEF BspPlaces, BspCore, Pick, Waits, Releases, One
<1>2. /\ Alone(c) /\ pc' = pc /\ my' = my /\ bsp' = bsp /\ apCount' = apCount /\ at'[c] = 8
      /\ UNCHANGED <<counter, insideSmm, bspIndex, mode, present, busy, run>>
      /\ Cardinality(present) > apCount[c] /\ apCount[c] \in Nat
  <2>1. apCount[c] \in Nat
    BY CpuCount DEF IInv, TypeOK
  <2>2. QED
    BY <1>1, <2>1, AdvanceMoves DEF BspCount, IInv, sync, modes, data
<1>3. /\ {BspLeaves(m), LastRelease(m), BspExit(m)} \subseteq Nat
      /\ BspLeaves(m) > 7 /\ LastRelease(m) > 8 /\ LastRelease(m) + 6 = BspExit(m)
  BY <1>0, Bounds
<1>4. Leads(c) /\ Leads(c)'
  BY <1>1, <1>2, <1>3 DEF Leads
<1>5. /\ \A o \in Cpu : Leads(o) <=> o = c
      /\ \A o \in Cpu : Leads(o)' <=> o = c
      /\ \A o \in Cpu : Joined(o)' <=> Joined(o)
      /\ \A o \in Cpu : Arriving(o)' <=> Arriving(o)
      /\ Members' = Members /\ c \in Members
  BY <1>2, <1>4, LeaderKeeps
<1>6. \A o \in present \ {c} : Joined(o)
  BY <1>5 DEF IInv, TypeOK, Roles, Presence
<1>7. present \ {c} \subseteq Members \ {c}
  BY <1>6 DEF Members, IInv, TypeOK
<1>8. Cardinality(present \ {c}) >= apCount[c]
  <2>1. c \in present /\ present \subseteq Cpu
    <3>1. at[c] \in 2 .. LastRelease(my[c]) + 1
      BY <1>1, <1>3
    <3>2. present \subseteq Cpu
      BY DEF IInv, TypeOK
    <3>3. QED
      BY <1>4, <3>1, <3>2, LeaderFacts
  <2>2. Cardinality(present) \in Nat /\ Cardinality(present \ {c}) = Cardinality(present) - 1
    BY <2>1, Counting
  <2>3. QED
    BY <1>2, <2>2
<1>9. counter = Locked /\ \A o \in Cpu : ~Arriving(o)
  <2>1. at[c] \in 7 .. LastRelease(my[c])
    BY <1>1, <1>3
  <2>2. counter = Locked /\ \A o \in Cpu : Arriving(o) => o \in present \ {c}
    BY <1>4, <1>7, <1>8, <2>1, MeetAll
  <2>3. QED
    BY <1>6, <2>2, RolesDiffer
<1>10. Counted'
  <2>1. counter' + apCount'[c] + 1 = Locked + Cardinality(Members')
    BY <1>1, <1>2, <1>3, <1>4, <1>5 DEF IInv, Roles, Counted, CountedBy
  <2>2. CountedBy(c)'
    BY <1>1, <1>2, <1>3, <1>5, <1>9, <2>1 DEF CountedBy
  <2>3. QED
    BY <1>2, <1>5, <2>2 DEF Counted
<1>11. InStep'
  BY <1>1, <1>2, <1>4, QuietInStep
<1>12. QED
  BY <1>1, <1>2, <1>3, <1>4, <1>10, <1>11, LeaderMove

\* All APs are released.
LEMMA ReleaseRoles ==
  ASSUME IInv, TypeOK', NEW c \in Cpu, ReleaseAllAPs(c)
  PROVE  Roles'
<1>0. PICK m \in Modes : m = my[c]
  BY WhereItIs DEF IInv
<1>1. pc[c] = "bspHandler" /\ at[c] \in BspPlaces(m, "release") /\ my[c] = m
  <2>1. "release" \in BspSteps /\ InBsp(c, "release")
    BY DEF BspSteps, ReleaseAllAPs
  <2>2. QED
    BY <1>0, <2>1, WhereItIs DEF IInv
<1>2. /\ Alone(c) /\ pc' = pc /\ my' = my /\ bsp' = bsp /\ apCount' = apCount
      /\ at'[c] = at[c] + 1
      /\ UNCHANGED <<counter, insideSmm, bspIndex, mode, present, busy>>
      /\ run' = [o \in Cpu |-> IF o \in present \ {c} THEN run[o] + 1 ELSE run[o]]
  BY AdvanceMoves DEF ReleaseAllAPs, ReleaseSemaphore, IInv, sync, modes
<1>3. /\ at[c] \in Nat /\ at[c] > 7 /\ at[c] <= LastRelease(m)
      /\ Releases(m, at[c] + 1) = Releases(m, at[c]) + 1 /\ Waits(m, at[c] + 1) = Waits(m, at[c])
      /\ at[c] # BspCore(m) /\ at[c] # BspCore(m) + 1 /\ at[c] # BspLeaves(m)
      /\ \A j \in Nat : Awaits(m, j) <= Releases(m, at[c]) => j < ApExit(m) - 1
      /\ at[c] = LastRelease(m) => \A j \in Nat : j < ApExit(m) => Signals(m, j) <= Waits(m, at[c])
      /\ {LastRelease(m), BspExit(m), ApExit(m), BspCore(m)} \subseteq Nat
      /\ LastRelease(m) + 6 = BspExit(m)
      /\ LastRelease(m) > 7 /\ {Waits(m, at[c]), Releases(m, at[c])} \subseteq Nat
  <2>1. at[c] \in Nat /\ {Waits(m, at[c]), Releases(m, at[c])} \subseteq Nat
    BY <1>0, <1>1, ReleasePlace, Tallies
  <2>2. /\ {LastRelease(m), BspExit(m), ApExit(m), BspCore(m)} \subseteq Nat
        /\ LastRelease(m) + 6 = BspExit(m) /\ LastRelease(m) > 7
    BY Bounds
  <2>3. QED
    BY <1>1, <2>1, <2>2, ReleasePlace
<1>4. Leads(c) /\ Leads(c)'
  BY <1>1, <1>2, <1>3 DEF Leads
<1>5. /\ \A o \in Cpu : /\ Leads(o) <=> o = c
                        /\ Leads(o)' <=> o = c
                        /\ Follows(o)' <=> Follows(o)
                        /\ Joined(o)' <=> Joined(o)
                        /\ Arriving(o)' <=> Arriving(o)
                        /\ o # c => at'[o] = at[o]
                        /\ Joined(o) \/ Arriving(o) => o # c
      /\ Members' = Members /\ c \in Members
  BY <1>2, <1>4, LeaderKeeps
<1>6. ASSUME NEW o \in Cpu, Joined(o)
      PROVE  /\ o \in present /\ InStepWith(o, c)' /\ my[o] = m
  <2>1. o # c /\ o \notin busy /\ InStepWith(o, c) /\ at[o] \in Nat /\ run[o] \in Nat
    <3>1. o # c /\ InStepWith(o, c) /\ at[o] \in Nat /\ run[o] \in Nat
      BY <1>4, <1>5, <1>6, JoinedFacts DEF IInv, Roles, InStep
    <3>2. ~(at[c] \in BspCore(m) .. BspCore(m) + 1)
      BY <1>3
    <3>3. QED
      BY <1>1, <1>4, <1>6, <3>1, <3>2, LeaderFacts
  <2>2. my[o] = m /\ bsp[o] = c
    BY <1>1, <2>1 DEF InStepWith
  <2>3. /\ run[o] + Awaits(m, at[o]) = Releases(m, at[c])
        /\ Signals(m, at[o]) \in {Waits(m, at[c]), Waits(m, at[c]) + 1}
    BY <1>1, <1>3, <2>1, <2>2 DEF InStepWith, One
  <2>4. Awaits(m, at[o]) \in Nat
    BY <1>0, <2>1, Tallies
  <2>5. at[o] <= ApExit(m) - 2
    BY <1>3, <2>1, <2>3, <2>4
  <2>6. o \in present
    BY <1>6, <2>2, <2>5 DEF IInv, Roles, Presence
  <2>7. run'[o] = run[o] + 1 /\ at'[o] = at[o]
    BY <1>2, <1>5, <2>1, <2>6
  <2>8. run'[o] + Awaits(m, at[o]) = Releases(m, at'[c])
    BY <1>2, <1>3, <2>1, <2>3, <2>4, <2>7
  <2>9. InStepWith(o, c)'
    BY <1>1, <1>2, <1>3, <2>1, <2>2, <2>3, <2>7, <2>8 DEF InStepWith, One
  <2>10. QED
    BY <2>2, <2>6, <2>9
<1>7. \A o \in Cpu : Follows(o) => \E l \in Cpu : Leads(l)' /\ at'[l] > 1
  BY <1>2, <1>3, <1>5
<1>8. \A o \in Cpu : ~Joined(o) /\ ~Leads(o) => run'[o] = 0
  BY <1>2, <1>5 DEF IInv, Roles, InStep, Presence
<1>9. run'[c] = run[c] /\ run[c] = Cardinality(Signalled(c)) /\ run[c] \in Nat
  BY <1>1, <1>2, <1>3, <1>4 DEF IInv, Roles, InStep, TypeOK
<1>10. Signalled(c)' = Signalled(c)
  <2>1. Waits(my'[c], at'[c]) = Waits(my[c], at[c])
    BY <1>1, <1>2, <1>3
  <2>2. \A o \in Cpu : Joined(o) => my'[o] = my[o] /\ at'[o] = at[o]
    BY <1>2, <1>5
  <2>3. QED
    BY <1>5, <2>1, <2>2 DEF Signalled
<1>11. InStep'
  BY <1>5, <1>6, <1>7, <1>8, <1>9, <1>10 DEF InStep
<1>12. counter = Locked /\ (\A o \in Cpu : ~Arriving(o))
         /\ counter + apCount[c] + 1 = Locked + Cardinality(Members)
  BY <1>1, <1>3, <1>4 DEF IInv, Roles, Counted, CountedBy
<1>13. Counted'
  <2>1. CASE at[c] < LastRelease(m)
    BY <1>1, <1>2, <1>3, <1>5, <1>12, <2>1 DEF Counted, CountedBy
  <2>2. CASE at[c] = LastRelease(m)
    <3>1. \A o \in Cpu : Joined(o) => Signals(my[o], at[o]) # Waits(m, at[c]) + 1
      <4>1. SUFFICES ASSUME NEW o \in Cpu, Joined(o)
                     PROVE  Signals(my[o], at[o]) # Waits(m, at[c]) + 1
        OBVIOUS
      <4>2. my[o] = m /\ at[o] \in Nat /\ at[o] < ApExit(m)
        BY <1>6, <4>1, JoinedFacts DEF Joined, Follows
      <4>3. Signals(m, at[o]) <= Waits(m, at[c]) /\ Signals(m, at[o]) \in Nat
        BY <1>0, <1>3, <2>2, <4>2, Tallies
      <4>4. QED
        BY <1>3, <4>2, <4>3
    <3>2. Signalled(c) = {}
      BY <1>1, <3>1 DEF Signalled
    <3>3. run'[c] = 0
      BY <1>9, <3>2, FS_EmptySet
    <3>4. Members \subseteq Cpu
      BY DEF Members
    <3>5. Cardinality(Members) \in Nat /\ apCount[c] \in Nat /\ Locked \in Nat
      <4>1. apCount[c] \in Nat /\ Locked \in Nat
        BY CpuCount DEF IInv, TypeOK
      <4>2. QED
        BY <3>4, <4>1, Counting
    <3>6. run'[c] + Cardinality(Members') = apCount'[c] + 1
      BY <1>2, <1>5, <1>12, <3>3, <3>5
    <3>7. QED
      BY <1>1, <1>2, <1>3, <1>5, <1>12, <2>2, <3>6 DEF Counted, CountedBy
  <2>3. QED
    BY <1>3, <2>1, <2>2
<1>14. QED
  BY <1>1, <1>2, <1>3, <1>4, <1>11, <1>13, LeaderMove

\* The BSP gives a procedure to an AP that waits to be released.
LEMMA StartupRoles ==
  ASSUME IInv, TypeOK', NEW c \in Cpu, NEW o \in Cpu, SmmStartupThisAp(c, o)
  PROVE  Roles'
<1>0. PICK m \in Modes : m = my[c]
  BY WhereItIs DEF IInv
<1>1. pc[c] = "bspHandler" /\ at[c] \in BspPlaces(m, "core") /\ my[c] = m
  <2>1. "core" \in BspSteps /\ InBsp(c, "core")
    BY DEF BspSteps, QuietSteps, SmmStartupThisAp
  <2>2. QED
    BY <1>0, <2>1, WhereItIs DEF IInv
<1>2. /\ Alone(c) /\ pc' = pc /\ my' = my /\ bsp' = bsp /\ apCount' = apCount /\ at' = at
      /\ UNCHANGED <<counter, insideSmm, bspIndex, mode, present>>
      /\ busy' = busy \cup {o, c} /\ o \in present /\ o \notin busy /\ o # c
      /\ run' = [x \in Cpu |-> IF x = o THEN run[x] + 1 ELSE run[x]]
  BY DEF SmmStartupThisAp, ReleaseSemaphore, Alone, local, sync, modes
<1>3. /\ at[c] = BspCore(m)
      /\ {BspCore(m), BspLeaves(m), BspMode(m), LastRelease(m), BspExit(m)} \subseteq Nat
      /\ 2 < BspCore(m) /\ BspCore(m) + 1 < BspLeaves(m) /\ BspLeaves(m) < BspMode(m)
      /\ BspMode(m) < LastRelease(m) /\ LastRelease(m) + 6 = BspExit(m)
      /\ {Releases(m, at[c]), Waits(m, at[c])} \subseteq Nat
  <2>1. at[c] = BspCore(m)
    BY <1>1 DEF BspPlaces
  <2>2. QED
    BY <1>0, <2>1, Bounds, Tallies
<1>4. Leads(c) /\ Leads(c)'
  BY <1>1, <1>2, <1>3 DEF Leads
<1>5. /\ \A x \in Cpu : /\ Leads(x) <=> x = c
                        /\ Leads(x)' <=> x = c
                        /\ Follows(x)' <=> Follows(x)
                        /\ Joined(x)' <=> Joined(x)
                        /\ Arriving(x)' <=> Arriving(x)
                        /\ Joined(x) \/ Arriving(x) => x # c
      /\ Members' = Members /\ c \in Members
  BY <1>2, <1>4, LeaderKeeps
<1>6. Joined(o) /\ ~Arriving(o)
  BY <1>2, <1>5, RolesDiffer DEF IInv, Roles, Presence
<1>7. ASSUME NEW x \in Cpu, Joined(x)
      PROVE  InStepWith(x, c)'
  <2>1. InStepWith(x, c)
    BY <1>4, <1>7 DEF IInv, Roles, InStep
  <2>2. CASE x = o
    <3>1. run'[o] = run[o] + 1 /\ o \in busy'
      BY <1>2
    <3>2. One(o \in busy) = 0 /\ One((o \in busy)') = 1
      BY <1>2, <3>1 DEF One
    <3>3. /\ run[o] \in Nat /\ Awaits(my[o], at[o]) \in Nat
      BY <1>6, JoinedFacts, Tallies
    <3>4. run'[o] + Awaits(my[o], at[o]) = Releases(my[c], at[c]) + 1
      BY <1>1, <1>3, <2>1, <2>2, <3>1, <3>2, <3>3 DEF InStepWith
    <3>5. QED
      BY <1>2, <2>1, <2>2, <3>2, <3>4 DEF InStepWith
  <2>3. CASE x # o
    <3>1. x # c
      BY <1>5, <1>7
    <3>2. run'[x] = run[x] /\ (x \in busy' <=> x \in busy)
      BY <1>2, <2>3, <3>1
    <3>3. One((x \in busy)') = One(x \in busy)
      BY <3>2 DEF One
    <3>4. QED
      BY <1>2, <2>1, <3>2, <3>3 DEF InStepWith
  <2>4. QED
    BY <2>2, <2>3
<1>8. run'[c] = run[c] /\ Signalled(c)' = Signalled(c)
  <2>1. Signalled(c)' = Signalled(c)
    BY <1>2 DEF Signalled, Joined, Follows
  <2>2. QED
    BY <1>2, <2>1
<1>9. InStep'
  <2>1. \A x \in Cpu : ~Joined(x) /\ ~Leads(x) => run'[x] = 0
    BY <1>2, <1>6 DEF IInv, Roles, InStep
  <2>2. QED
    BY <1>2, <1>5, <1>7, <1>8, <2>1 DEF IInv, Roles, InStep
<1>10. Counted'
  BY <1>2, <1>5, <1>8 DEF IInv, Roles, Counted, CountedBy
<1>11. at[o] = ApLookAt(my[o]) - 1
  <2>1. /\ InStepWith(o, c) /\ my[o] = m /\ at[o] \in Nat /\ at[o] > 1 /\ run[o] \in Nat
    BY <1>1, <1>4, <1>6, JoinedFacts DEF IInv, Roles, InStep, InStepWith
  <2>2. Awaits(m, at[o]) \in Nat /\ Signals(m, at[o]) \in Nat
    BY <1>0, <2>1, Tallies
  <2>3. Awaits(m, at[o]) <= Releases(m, at[c]) /\ Signals(m, at[o]) >= Waits(m, at[c])
    BY <1>1, <1>2, <1>3, <2>1, <2>2 DEF InStepWith, One
  <2>4. QED
    BY <1>1, <2>1, <2>3, CorePlace
<1>12. ASSUME NEW x \in Cpu
       PROVE  /\ Arriving(x) => x \notin busy'
              /\ pc[x] = "procedure" => x \in busy'
              /\ Joined(x) /\ x \in busy' =>
                   /\ at[x] \in ApLookAt(my[x]) - 1 .. ApLookAt(my[x])
                   /\ at'[c] \in BspCore(m) .. BspCore(m) + 1
  <2>1. Arriving(x) => x \notin busy'
    BY <1>2, <1>4, <1>5, <1>6, LeaderFacts
  <2>2. pc[x] = "procedure" => x \in busy'
    BY <1>2 DEF IInv, Roles, Presence
  <2>3. Joined(x) /\ x \in busy' => at[x] \in ApLookAt(my[x]) - 1 .. ApLookAt(my[x])
    <3>1. CASE x = o
      <4>1. my[o] \in Modes
        BY WhereItIs DEF IInv
      <4>2. QED
        BY <1>11, <3>1, <4>1, Bounds
    <3>2. CASE x # o
      BY <1>2, <1>4, <1>5, <3>2, LeaderFacts
    <3>3. QED
      BY <3>1, <3>2
  <2>4. QED
    BY <1>2, <1>3, <2>1, <2>2, <2>3
<1>13. /\ at[c] <= BspExit(m) - 3 /\ at'[c] <= BspExit(m) - 3
       /\ insideSmm' <=> at'[c] \in 2 .. BspLeaves(m)
       /\ c \in present' <=> at'[c] \in 2 .. LastRelease(m) + 1
       /\ at'[c] <= BspMode(m) => at[c] <= BspMode(m) /\ mode' = mode
  BY <1>1, <1>2, <1>3, <1>4, LeaderFacts
<1>14. QED
  BY <1>1, <1>2, <1>4, <1>9, <1>10, <1>12, <1>13, LeaderStep

\* The counter is reset when no other member is left.
LEMMA ResetRoles ==
  ASSUME IInv, TypeOK', NEW c \in Cpu, BspReset(c)
  PROVE  Roles'
<1>0. PICK m \in Modes : m = my[c]
  BY WhereItIs DEF IInv
<1>1. pc[c] = "bspHandler" /\ at[c] = BspExit(m) - 2 /\ my[c] = m
  <2>1. "reset" \in BspSteps /\ InBsp(c, "reset")
    BY DEF BspSteps, BspReset
  <2>2. pc[c] = "bspHandler" /\ at[c] \in BspPlaces(m, "reset")
    BY <1>0, <2>1, WhereItIs DEF IInv
  <2>3. QED
    BY <1>0, <2>2 DEF BspPlaces
<1>2. /\ Alone(c) /\ pc' = pc /\ my' = my /\ at'[c] = at[c] + 1 /\ counter' = 0
      /\ UNCHANGED <<insideSmm, bspIndex, mode, present, busy, run>>
  BY AdvanceMoves DEF BspReset, IInv, data, modes
<1>3. /\ {BspLeaves(m), LastRelease(m), BspExit(m)} \subseteq Nat
      /\ BspLeaves(m) < LastRelease(m) /\ LastRelease(m) + 6 = BspExit(m) /\ LastRelease(m) > 7
  BY <1>0, Bounds
<1>4. Leads(c) /\ ~Leads(c)' /\ ~Follows(c)' /\ ~Arriving(c)' /\ ~Joined(c)'
  BY <1>1, <1>2, <1>3 DEF Leads, Follows, Arriving, Joined
<1>5. \A o \in Cpu : Leads(o) => o = c
  BY <1>4 DEF IInv, Roles, Leader
<1>6. run[c] = 0 /\ (\A o \in Cpu : ~Joined(o)) /\ (\A o \in Cpu : ~Arriving(o))
  BY <1>1, <1>3, <1>4 DEF IInv, Roles, Counted, CountedBy
<1>7. \A o \in Cpu : my[o] \in Modes /\ at[o] \in Nat /\ at[o] >= 1
  BY WhereItIs DEF IInv
<1>8. \A o \in Cpu : ~Leads(o)' /\ ~Follows(o)' /\ ~Arriving(o)' /\ ~Joined(o)'
  <2>1. \A o \in Cpu : ~Follows(o)
    BY <1>6, <1>7, RolesDiffer
  <2>2. QED
    BY <1>2, <1>4, <1>5, <1>6, <2>1, OthersKeep
<1>9. Leader'
  <2>1. Election => bspIndex = None
    <3>1. SUFFICES ASSUME Election, bspIndex # None PROVE FALSE
      OBVIOUS
    <3>2. bspIndex \in Cpu /\ Leads(bspIndex) /\ at[bspIndex] <= BspExit(my[bspIndex]) - 3
      BY <3>1 DEF IInv, TypeOK, Roles, Leader
    <3>3. bspIndex = c
      BY <1>5, <3>2
    <3>4. QED
      BY <1>1, <1>3, <3>2, <3>3
  <2>2. QED
    BY <1>2, <1>8, <2>1 DEF IInv, Roles, Leader
<1>10. Inside'
  <2>1. ~insideSmm
    BY <1>1, <1>3, <1>4, LeaderFacts
  <2>2. \A o \in Cpu : ~(pc'[o] = "bspHandler" /\ at'[o] \in 2 .. BspLeaves(my'[o]))
    BY <1>2, <1>7, <1>8, Bounds DEF Leads
  <2>3. QED
    BY <1>2, <2>1, <2>2 DEF Inside
<1>11. ModeRead'
  BY <1>8 DEF ModeRead
<1>12. Counted'
  <2>1. Members' = {}
    BY <1>8 DEF Members
  <2>2. QED
    BY <1>2, <1>8, <2>1, FS_EmptySet DEF Counted
<1>13. InStep'
  BY <1>2, <1>5, <1>6, <1>8 DEF IInv, Roles, InStep
<1>14. Presence'
  <2>1. \A o \in Cpu : o \notin present
    BY <1>1, <1>3, <1>5, <1>6 DEF IInv, Roles, Presence
  <2>2. \A o \in Cpu : pc'[o] = "procedure" => o \in busy'
    BY <1>2 DEF IInv, Roles, Presence
  <2>3. QED
    BY <1>2, <1>8, <2>1, <2>2 DEF Presence
<1>15. QED
  BY <1>9, <1>10, <1>11, <1>12, <1>13, <1>14 DEF Roles

LEMMA UnsyncRoles ==
  ASSUME IInv, TypeOK', Shape', NEW c \in Cpu, BspUnsync(c)
  PROVE  Roles'
<1>1. my[c] \in Modes /\ pc[c] = "bspHandler" /\ at[c] = BspExit(my[c]) - 1
  <2>1. "unsync" \in BspSteps /\ InBsp(c, "unsync")
    BY DEF BspSteps, BspUnsync
  <2>2. my[c] \in Modes /\ pc[c] = "bspHandler" /\ at[c] \in BspPlaces(my[c], "unsync")
    BY <2>1, WhereItIs DEF IInv
  <2>3. QED
    BY <2>2 DEF BspPlaces
<1>2. /\ Alone(c) /\ pc' = pc /\ my' = my /\ at'[c] = at[c] + 1
      /\ UNCHANGED <<counter, insideSmm, bspIndex, mode, present, busy, run>>
  BY AdvanceMoves DEF BspUnsync, IInv, data, modes
<1>3. BspExit(my[c]) \in Nat
  BY <1>1, Bounds
<1>4. /\ ~Leads(c) /\ ~Joined(c) /\ ~Arriving(c) /\ ~Follows(c)
      /\ ~Leads(c)' /\ ~Joined(c)' /\ ~Arriving(c)' /\ ~Follows(c)'
  BY <1>1, <1>2, <1>3 DEF Leads, Joined, Arriving, Follows
<1>5. pc'[c] \notin ApPlaces
  BY <1>1, <1>2 DEF ApPlaces
<1>6. QED
  BY <1>1, <1>2, <1>4, <1>5, OutsiderStep

LEMMA BspRoles ==
  ASSUME IInv, TypeOK', Shape', NEW c \in Cpu, BSPHandler(c)
  PROVE  Roles'
  BY QuietRoles, LockRoles, WaitRoles, CountRoles, ReleaseRoles, StartupRoles, ResetRoles,
     UnsyncRoles DEF BSPHandler

---------------------------------------------------------------------------
\* The invariant holds.

LEMMA InitInvariant == Init => IInv
<1>1. SUFFICES ASSUME Init PROVE IInv
  OBVIOUS
<1>2. TypeOK
  <2>1. Len(BspProgram("traditional")) \in Nat /\ 1 <= Len(BspProgram("traditional"))
    BY BspPlacesCorrect, RendezvousAssumption, Bounds
  <2>2. "traditional" \in Modes /\ "outside" \in Places /\ DefaultBsp \in Cpu /\ MaxSmi \in Nat
    BY RendezvousAssumption DEF Places
  <2>3. 0 \in 0 .. Locked /\ 0 \in 0 .. MaxSmi /\ 0 \in Nat
    BY <2>2, CpuCount
  <2>4. at \in [Cpu -> 1 .. Len(BspProgram("traditional"))]
    BY <1>1, <2>1 DEF Init
  <2>5. QED
    BY <1>1, <2>2, <2>3, <2>4 DEF Init, TypeOK
<1>3. Shape
  BY <1>1 DEF Init, Shape
<1>4. \A c \in Cpu : /\ ~Leads(c) /\ ~Follows(c) /\ ~Joined(c) /\ ~Arriving(c)
                     /\ pc[c] = "outside" /\ run[c] = 0 /\ c \notin present
  BY <1>1 DEF Init, Leads, Follows, Joined, Arriving
<1>5. Leader
  BY <1>1, <1>4, RendezvousAssumption DEF Init, Leader, ApPlaces
<1>6. Inside /\ ModeRead /\ InStep /\ Presence
  BY <1>1, <1>4 DEF Init, Inside, ModeRead, InStep, Presence
<1>7. Counted
  <2>1. Members = {}
    BY <1>4 DEF Members
  <2>2. QED
    BY <1>1, <1>4, <2>1, FS_EmptySet DEF Init, Counted
<1>8. QED
  BY <1>2, <1>3, <1>5, <1>6, <1>7 DEF IInv, Roles

\* A step of the chipset, or no step.
LEMMA ChipsetStep ==
  ASSUME IInv, RaiseSmi \/ Idle \/ UNCHANGED vars
  PROVE  IInv'
<1>1. UNCHANGED <<pc, at, my, bsp, apCount, counter, insideSmm, allCpusInSync, bspIndex, mode,
                  nextMode, run, present, busy>>
  BY DEF RaiseSmi, Idle, vars, local, sync, data, modes
<1>2. TypeOK'
  <2>1. /\ pending' \subseteq Cpu /\ smiStatus' \in BOOLEAN /\ unserved' \in BOOLEAN
        /\ smis' \in 0 .. MaxSmi
    <3>1. pending \subseteq Cpu /\ {smiStatus, unserved} \subseteq BOOLEAN /\ smis \in 0 .. MaxSmi
      BY DEF IInv, TypeOK
    <3>2. CASE RaiseSmi
      BY <3>1, <3>2, RendezvousAssumption DEF RaiseSmi
    <3>3. CASE Idle \/ UNCHANGED vars
      BY <3>1, <3>3 DEF Idle, vars, chipset
    <3>4. QED
      BY <3>2, <3>3
  <2>2. QED
    BY <1>1, <2>1 DEF IInv, TypeOK
<1>3. Shape'
  BY <1>1 DEF IInv, Shape
<1>4. \A o \in Cpu : /\ Leads(o)' <=> Leads(o)
                     /\ Follows(o)' <=> Follows(o)
                     /\ Joined(o)' <=> Joined(o)
                     /\ Arriving(o)' <=> Arriving(o)
  BY <1>1 DEF Leads, Follows, Joined, Arriving
<1>5. Leader'
  <2>1. Leads(bspIndex)' <=> Leads(bspIndex)
    BY <1>1 DEF Leads
  <2>2. QED
    BY <1>1, <1>4, <2>1 DEF IInv, Roles, Leader
<1>6. Inside' /\ ModeRead' /\ Presence'
  BY <1>1, <1>4 DEF IInv, Roles, Inside, ModeRead, Presence
<1>7. Counted'
  <2>1. Members' = Members
    BY <1>4 DEF Members
  <2>2. QED
    BY <1>1, <1>4, <2>1 DEF IInv, Roles, Counted, CountedBy
<1>8. InStep'
  <2>1. \A b \in Cpu : Signalled(b)' = Signalled(b)
    BY <1>1, <1>4 DEF Signalled
  <2>2. \A o, b \in Cpu : InStepWith(o, b)' <=> InStepWith(o, b)
    BY <1>1 DEF InStepWith
  <2>3. QED
    BY <1>1, <1>4, <2>1, <2>2 DEF IInv, Roles, InStep
<1>9. QED
  BY <1>2, <1>3, <1>5, <1>6, <1>7, <1>8 DEF IInv, Roles

LEMMA NextInvariant == IInv /\ [Next]_vars => IInv'
<1>1. SUFFICES ASSUME IInv, [Next]_vars PROVE IInv'
  OBVIOUS
<1>2. ASSUME NEW c \in Cpu, SmiRendezvous(c) PROVE IInv'
  <2>0. TypeOK /\ Shape
    BY <1>1 DEF IInv
  <2>1. CASE SmiEntry(c) \/ BspInProgress(c) \/ CheckIn(c) \/ TooLate(c) \/ Elect(c)
               \/ CallApHandler(c) \/ Exit(c)
    <3>1. TypeOK' /\ Shape'
      BY <2>0, <2>1, EntryType, EntryShape
    <3>2. QED
      BY <1>1, <2>1, <3>1, EntryRoles DEF IInv
  <2>2. CASE BSPHandler(c)
    <3>1. TypeOK' /\ Shape'
      BY <2>0, <2>2, BspType, BspShape
    <3>2. QED
      BY <1>1, <2>2, <3>1, BspRoles DEF IInv
  <2>3. CASE APHandler(c)
    <3>1. InAp(c, "join") => bspIndex \in Cpu
      <4>1. SUFFICES ASSUME InAp(c, "join") PROVE bspIndex \in Cpu
        OBVIOUS
      <4>2. "join" \in ApSteps
        BY DEF ApSteps
      <4>3. pc[c] = "apHandler" /\ at[c] \in ApPlacesOf(my[c], "join") /\ my[c] \in Modes
        BY <2>0, <4>1, <4>2, WhereItIs
      <4>4. at[c] = 1 /\ ApExit(my[c]) > 1
        BY <4>3, Bounds DEF ApPlacesOf
      <4>5. Follows(c) /\ Arriving(c)
        BY <4>3, <4>4 DEF Follows, Arriving
      <4>6. PICK b \in Cpu : Leads(b)
        BY <1>1, <4>5 DEF IInv, Roles, InStep
      <4>7. my[b] \in Modes /\ at[b] \in Nat /\ at[b] <= 7
        BY <1>1, <2>0, <4>5, <4>6, WhereItIs, LeaderFacts
      <4>8. at[b] <= BspExit(my[b]) - 3
        BY <4>7, Bounds
      <4>9. QED
        BY <1>1, <4>6, <4>8 DEF IInv, Roles, Leader
    <3>2. TypeOK' /\ Shape'
      BY <2>0, <2>3, <3>1, ApType
    <3>3. QED
      BY <1>1, <2>3, <3>2, ApRoles DEF IInv
  <2>4. QED
    BY <1>2, <2>1, <2>2, <2>3 DEF SmiRendezvous
<1>3. CASE RaiseSmi \/ Idle \/ UNCHANGED vars
  BY <1>1, <1>3, ChipsetStep
<1>4. QED
  BY <1>1, <1>2, <1>3 DEF Next

LEMMA Invariance == Spec => []IInv
  BY InitInvariant, NextInvariant, PTL DEF Spec

---------------------------------------------------------------------------
\* What the invariant says of the properties of SmmRendezvous.

\* Every variable has its type.
THEOREM TypeCorrect == Spec => []TypeOK
<1>1. IInv => TypeOK
  BY DEF IInv
<1>2. QED
  BY <1>1, Invariance, PTL

\* Where the BSP is between two statements of its program.
LEMMA BetweenPlaces ==
  ASSUME TypeOK, Shape, NEW c \in Cpu
  PROVE  /\ BspBetween(c, "enter", "reset") => Leads(c)
         /\ BspBetween(c, "enter", "forget") => Leads(c) /\ at[c] <= BspExit(my[c]) - 3
         /\ BspBetween(c, "core", "leave") =>
              Leads(c) /\ at[c] \in BspCore(my[c]) .. BspLeaves(my[c])
<1>1. my[c] \in Modes /\ at[c] \in Nat /\ at[c] >= 1
  BY WhereItIs
<1>2. Len(BspProgram(my[c])) = BspExit(my[c]) /\ BspExit(my[c]) \in Nat
  BY <1>1, BspPlacesCorrect, Bounds
<1>3. ASSUME NEW step \in BspSteps, NEW i \in 1 .. BspExit(my[c]), BspProgram(my[c])[i] = step
      PROVE  i \in BspPlaces(my[c], step)
  BY <1>1, <1>3, BspPlacesCorrect DEF BspSteps, QuietSteps
<1>4. ASSUME NEW first, NEW last, BspBetween(c, first, last)
      PROVE  /\ pc[c] = "bspHandler" /\ at[c] <= BspExit(my[c])
             /\ first \in BspSteps => \E i \in 1 .. at[c] : i \in BspPlaces(my[c], first)
             /\ last \in BspSteps =>
                  \E i \in at[c] .. BspExit(my[c]) : i \in BspPlaces(my[c], last)
  <2>1. pc[c] = "bspHandler" /\ at[c] <= BspExit(my[c])
    BY <1>4 DEF BspBetween, Shape
  <2>2. /\ \E i \in 1 .. at[c] : BspProgram(my[c])[i] = first
        /\ \E i \in at[c] .. BspExit(my[c]) : BspProgram(my[c])[i] = last
    BY <1>2, <1>4 DEF BspBetween
  <2>3. /\ 1 .. at[c] \subseteq 1 .. BspExit(my[c])
        /\ at[c] .. BspExit(my[c]) \subseteq 1 .. BspExit(my[c])
    BY <1>1, <1>2, <2>1
  <2>4. QED
    BY <1>3, <2>1, <2>2, <2>3
<1>5. {"core", "leave", "reset", "forget"} \subseteq BspSteps
  BY DEF BspSteps, QuietSteps
<1>6. /\ BspPlaces(my[c], "core") = {BspCore(my[c])}
      /\ BspPlaces(my[c], "leave") = {BspLeaves(my[c])}
      /\ BspPlaces(my[c], "reset") = {BspExit(my[c]) - 2}
      /\ BspPlaces(my[c], "forget") = {BspExit(my[c]) - 3}
  BY DEF BspPlaces
<1>7. BspBetween(c, "enter", "reset") => Leads(c)
  BY <1>1, <1>2, <1>4, <1>5, <1>6 DEF Leads
<1>8. BspBetween(c, "enter", "forget") => Leads(c) /\ at[c] <= BspExit(my[c]) - 3
  BY <1>1, <1>2, <1>4, <1>5, <1>6 DEF Leads
<1>9. BspBetween(c, "core", "leave") =>
        Leads(c) /\ at[c] \in BspCore(my[c]) .. BspLeaves(my[c])
  <2>1. SUFFICES ASSUME BspBetween(c, "core", "leave")
                 PROVE  Leads(c) /\ at[c] \in BspCore(my[c]) .. BspLeaves(my[c])
    OBVIOUS
  <2>2. /\ BspCore(my[c]) \in Nat /\ BspLeaves(my[c]) \in Nat /\ BspMode(my[c]) \in Nat
        /\ LastRelease(my[c]) \in Nat /\ BspLeaves(my[c]) < BspMode(my[c])
        /\ BspMode(my[c]) < LastRelease(my[c]) /\ LastRelease(my[c]) + 6 = BspExit(my[c])
    BY <1>1, Bounds
  <2>3. pc[c] = "bspHandler" /\ BspCore(my[c]) <= at[c] /\ at[c] <= BspLeaves(my[c])
    BY <1>1, <1>2, <1>4, <1>5, <1>6, <2>1, <2>2
  <2>4. QED
    BY <1>1, <2>2, <2>3 DEF Leads
<1>10. QED
  BY <1>7, <1>8, <1>9

\* One BSP at a time until the counter is reset, with BspIndex its own (the
\* ASSERTs of BSPHandler and APHandler), whether the BSP is elected or fixed.
THEOREM OneBspAtATime == Spec => []OneBsp
<1>1. IInv => OneBsp
  <2>1. SUFFICES ASSUME IInv PROVE OneBsp
    OBVIOUS
  <2>2. \A c, o \in Cpu :
          BspBetween(c, "enter", "reset") /\ BspBetween(o, "enter", "reset") => c = o
    BY <2>1, BetweenPlaces DEF IInv, Roles, Leader
  <2>3. \A c \in Cpu : BspBetween(c, "enter", "forget") => bspIndex = c
    BY <2>1, BetweenPlaces DEF IInv, Roles, Leader
  <2>4. ASSUME NEW c \in Cpu, pc[c] = "apTimeout" \/ InAp(c, "join")
        PROVE  bspIndex # c
    <3>1. pc[c] \in {"apTimeout", "apHandler"}
      BY <2>4 DEF InAp
    <3>2. ~Election => bspIndex # c
      BY <2>1, <3>1 DEF IInv, Roles, Leader, ApPlaces
    <3>3. Election /\ bspIndex # None => Leads(bspIndex)
      BY <2>1 DEF IInv, Roles, Leader
    <3>4. None # c
      BY RendezvousAssumption
    <3>5. QED
      BY <3>1, <3>2, <3>3, <3>4, RendezvousAssumption DEF Leads
  <2>5. QED
    BY <2>2, <2>3, <2>4 DEF OneBsp
<1>2. QED
  BY <1>1, Invariance, PTL

\* The ASSERTs of AllCpusInSmmWithExceptions and SmmWaitForApArrival: while the
\* BSP gathers the APs Counter counts no processor twice.
THEOREM CounterCounts == Spec => []CounterInRange
<1>1. IInv => CounterInRange
  <2>1. SUFFICES ASSUME IInv, NEW c \in Cpu, InBsp(c, "gather") \/ InBsp(c, "gatherAgain")
                 PROVE  counter <= NumberOfCpus
    BY DEF CounterInRange
  <2>2. {"gather", "gatherAgain"} \subseteq BspSteps
    BY DEF BspSteps, QuietSteps
  <2>3. /\ pc[c] = "bspHandler" /\ my[c] \in Modes
        /\ at[c] \in BspPlaces(my[c], "gather") \cup BspPlaces(my[c], "gatherAgain")
    BY <2>1, <2>2, WhereItIs DEF IInv
  <2>4. at[c] \in 3 .. 4 /\ LastRelease(my[c]) > 7 /\ LastRelease(my[c]) \in Nat
        /\ LastRelease(my[c]) + 6 = BspExit(my[c])
    BY <2>3, Bounds DEF BspPlaces, Pick
  <2>5. Leads(c)
    BY <2>3, <2>4 DEF Leads
  <2>6. counter = Cardinality(Members)
    BY <2>1, <2>4, <2>5 DEF IInv, Roles, Leader, Counted
  <2>7. Members \subseteq Cpu
    BY DEF Members
  <2>8. QED
    BY <2>6, <2>7, Counting
<1>2. QED
  BY <1>1, Invariance, PTL

\* The ASSERT of SmiRendezvous: a processor that is done or outside SMM has no
\* signal left in its Run semaphore, however often SMIs follow each other.
THEOREM NoSignalLeft == Spec => []RunConsumed
<1>1. IInv => RunConsumed
  <2>1. SUFFICES ASSUME IInv, NEW c \in Cpu, AtExit(c) \/ pc[c] = "outside" PROVE run[c] = 0
    BY DEF RunConsumed
  <2>2. ~Joined(c) /\ ~Leads(c)
    BY <2>1, AtExitIsOut DEF IInv, Joined, Leads, Follows
  <2>3. QED
    BY <2>1, <2>2 DEF IInv, Roles, InStep
<1>2. QED
  BY <1>1, Invariance, PTL

\* An AP that has joined and is not yet at the end of its program.
LEMMA JoinedAp ==
  ASSUME TypeOK, Shape, NEW o \in Cpu, pc[o] \in {"apHandler", "procedure"}, ~InAp(o, "exit")
  PROVE  Follows(o) /\ (at[o] > 1 => Joined(o))
<1>1. my[o] \in Modes /\ at[o] \in Nat /\ at[o] >= 1
  BY WhereItIs
<1>2. at[o] < ApExit(my[o])
  <2>1. CASE pc[o] = "procedure"
    BY <1>1, <2>1, Bounds DEF Shape
  <2>2. CASE pc[o] = "apHandler"
    <3>1. at[o] <= ApExit(my[o]) /\ ApExit(my[o]) \in Nat /\ at[o] \in 1 .. ApExit(my[o])
      BY <1>1, <2>2, Bounds DEF Shape
    <3>2. at[o] \notin ApPlacesOf(my[o], "exit")
      BY <1>1, <2>2, <3>1, ApPlacesCorrect DEF InAp
    <3>3. QED
      BY <1>1, <3>1, <3>2 DEF ApPlacesOf
  <2>3. QED
    BY <2>1, <2>2
<1>3. QED
  BY <1>2 DEF Follows, Joined

\* SmmSyncSetModeWorker: an AP in the handshakes follows the mode of the BSP it
\* signals, which is in its own handler: no mode changes inside a run.
THEOREM ModeIsShared == Spec => []SameMode
<1>1. IInv => SameMode
  <2>1. SUFFICES ASSUME IInv, NEW o \in Cpu, pc[o] \in {"apHandler", "procedure"}, at[o] > 1,
                        ~InAp(o, "exit")
                 PROVE  pc[bsp[o]] = "bspHandler" /\ my[o] = my[bsp[o]]
    BY DEF SameMode
  <2>2. Joined(o)
    BY <2>1, JoinedAp DEF IInv
  <2>3. QED
    BY <2>1, <2>2, JoinedFacts DEF Leads
<1>2. QED
  BY <1>1, Invariance, PTL

\* SmmStartupThisAp: an AP runs a procedure under its Busy lock and only while
\* the BSP is in the SMM core or waits for the procedures to end.
THEOREM ProceduresInside == Spec => []ProcedureInside
<1>1. IInv => ProcedureInside
  <2>1. SUFFICES ASSUME IInv, NEW o \in Cpu, pc[o] = "procedure"
                 PROVE  o \in busy /\ \E c \in Cpu : InBsp(c, "core") \/ InBsp(c, "drain")
    BY DEF ProcedureInside
  <2>2. o \in busy /\ my[o] \in Modes /\ at[o] = ApLookAt(my[o])
    BY <2>1, WhereItIs DEF IInv, Shape, Roles, Presence
  <2>3. Joined(o)
    BY <2>1, <2>2, Bounds DEF Joined, Follows
  <2>4. PICK b \in Cpu : Leads(b) /\ at[b] \in BspCore(my[b]) .. BspCore(my[b]) + 1
    BY <2>1, <2>2, <2>3 DEF IInv, Roles, Presence
  <2>5. my[b] \in Modes /\ at[b] \in 1 .. BspExit(my[b]) /\ BspCore(my[b]) \in Nat
    BY <2>1, <2>4, WhereItIs, Bounds DEF IInv, Leads, Shape
  <2>6. at[b] \in BspPlaces(my[b], "core") \cup BspPlaces(my[b], "drain")
    BY <2>4, <2>5 DEF BspPlaces
  <2>7. BspProgram(my[b])[at[b]] \in {"core", "drain"}
    BY <2>5, <2>6, BspPlacesCorrect
  <2>8. QED
    BY <2>2, <2>4, <2>7 DEF InBsp, Leads
<1>2. QED
  BY <1>1, Invariance, PTL

\* The APs counted when Counter was locked are those whose Present flag the BSP
\* looks at to release them: SmmWaitForApArrival and ReleaseAllAPs agree.
THEOREM CountedArePresent == Spec => []PresentIsCounted
<1>1. IInv => PresentIsCounted
  <2>1. SUFFICES ASSUME IInv, NEW c \in Cpu,
                        \/ BspBetween(c, "core", "leave") /\ Early(my[c])
                        \/ InBsp(c, "leave")
                 PROVE  Cardinality(present) = apCount[c] + 1
    BY DEF PresentIsCounted
  <2>2. PICK m \in Modes : m = my[c]
    BY <2>1, WhereItIs DEF IInv
  <2>3. /\ {BspCore(m), BspLeaves(m), LastRelease(m), BspExit(m)} \subseteq Nat
        /\ BspCore(m) < BspLeaves(m) /\ BspLeaves(m) > 7 /\ BspLeaves(m) < LastRelease(m)
        /\ LastRelease(m) + 6 = BspExit(m)
        /\ Early(m) => BspCore(m) > 7
    <3>1. Early(m) => BspCore(m) > 7
      BY DEF Early, BspCore, Pick
    <3>2. QED
      BY <2>2, <3>1, Bounds
  <2>4. Leads(c) /\ at[c] \in 8 .. BspLeaves(m) /\ at[c] \in Nat
    <3>1. CASE BspBetween(c, "core", "leave") /\ Early(my[c])
      BY <2>1, <2>2, <2>3, <3>1, BetweenPlaces, WhereItIs DEF IInv
    <3>2. CASE InBsp(c, "leave")
      <4>1. "leave" \in BspSteps
        BY DEF BspSteps, QuietSteps
      <4>2. pc[c] = "bspHandler" /\ at[c] \in BspPlaces(m, "leave")
        BY <2>1, <2>2, <3>2, <4>1, WhereItIs DEF IInv
      <4>3. at[c] = BspLeaves(m)
        BY <4>2 DEF BspPlaces
      <4>4. QED
        BY <2>2, <2>3, <4>2, <4>3 DEF Leads
    <3>3. QED
      BY <2>1, <3>1, <3>2
  <2>5. /\ counter + apCount[c] + 1 = Locked + Cardinality(Members) /\ counter = Locked
        /\ \A o \in Cpu : ~Arriving(o)
    BY <2>1, <2>2, <2>3, <2>4 DEF IInv, Roles, Counted, CountedBy
  <2>6. \A o \in Cpu : Leads(o) => o = c
    BY <2>1, <2>4 DEF IInv, Roles, Leader
  <2>7. ASSUME NEW o \in Cpu, Joined(o) PROVE o \in present
    <3>1. /\ InStepWith(o, c) /\ my[o] = m /\ at[o] \in Nat /\ run[o] \in Nat
      BY <2>1, <2>2, <2>4, <2>7, JoinedFacts DEF IInv, Roles, InStep, InStepWith
    <3>2. Awaits(m, at[o]) \in Nat /\ Releases(m, at[c]) \in Nat
      BY <2>2, <2>4, <3>1, Tallies
    <3>3. Awaits(m, at[o]) <= Releases(m, at[c]) + 1
      BY <2>2, <3>1, <3>2 DEF InStepWith, One
    <3>4. at[o] <= ApExit(m) - 2
      BY <2>4, <3>1, <3>3 DEF Awaits, Releases, Pick, One, BspLeaves, ApExit
    <3>5. QED
      BY <2>1, <2>7, <3>1, <3>4 DEF IInv, Roles, Presence
  <2>8. present = Members
    <3>1. c \in present /\ present \subseteq Cpu
      <4>1. at[c] \in 2 .. LastRelease(my[c]) + 1
        BY <2>2, <2>3, <2>4
      <4>2. present \subseteq Cpu
        BY <2>1 DEF IInv, TypeOK
      <4>3. QED
        BY <2>1, <2>4, <4>1, <4>2, LeaderFacts
    <3>2. \A o \in Cpu : o \in present => Joined(o) \/ Leads(o)
      BY <2>1 DEF IInv, Roles, Presence
    <3>3. QED
      BY <2>5, <2>6, <2>7, <3>1, <3>2 DEF Members
  <2>9. Members \subseteq Cpu
    BY DEF Members
  <2>10. Cardinality(Members) \in Nat /\ Locked \in Nat /\ apCount[c] \in Nat
    BY <2>1, <2>9, Counting, CpuCount DEF IInv, TypeOK
  <2>11. QED
    BY <2>5, <2>8, <2>10
<1>2. QED
  BY <1>1, Invariance, PTL

\* BSPHandler, "backup first and then set MTRR": no processor programs the SMI
\* MTRRs before every AP has saved its own, and none restores them while an AP
\* is still in a procedure.
THEOREM MtrrsKeptInStep == Spec => []MtrrsInStep
<1>1. IInv => MtrrsInStep
  <2>1. SUFFICES ASSUME IInv, Mtrrs, NEW p \in Cpu, pc[p] \in {"apHandler", "procedure"},
                        ~InAp(p, "exit")
                 PROVE  /\ (\E c \in Cpu : pc[c] = "bspHandler" /\ at[c] \in 11 .. 18) => at[p] >= 5
                        /\ \A o \in Cpu : InAp(o, "signal") =>
                             (at[o] >= 6 => at[p] >= 5) /\ (at[o] >= 11 => at[p] >= 10)
    BY DEF MtrrsInStep
  <2>2. \A o \in Cpu : my[o] \in Modes /\ at[o] \in Nat /\ at[o] >= 1
    BY <2>1, WhereItIs DEF IInv
  <2>3. \A o \in Cpu : Joined(o) => my[o] \in Modes /\ at[o] < 15
    BY <2>1, <2>2 DEF Joined, Follows, ApExit, Pick
  <2>4. ASSUME NEW c \in Cpu, Leads(c), at[c] > 7
        PROVE  Joined(p) /\ Signals(my[c], at[p]) >= Waits(my[c], at[c])
               /\ {Signals(my[c], at[p]), Waits(my[c], at[c])} \subseteq Nat
    <3>1. Follows(p)
      BY <2>1, JoinedAp DEF IInv
    <3>2. ~Arriving(p)
      BY <2>1, <2>4, LeaderFacts
    <3>3. Joined(p)
      BY <2>2, <3>1, <3>2, RolesDiffer
    <3>4. InStepWith(p, c) /\ my[p] = my[c]
      BY <2>1, <2>4, <3>3 DEF IInv, Roles, InStep, InStepWith
    <3>5. {Signals(my[c], at[p]), Waits(my[c], at[c])} \subseteq Nat
      BY <2>2, Tallies
    <3>6. QED
      BY <3>3, <3>4, <3>5 DEF InStepWith
  <2>5. ASSUME NEW c \in Cpu, pc[c] = "bspHandler", at[c] \in 11 .. 18
        PROVE  at[p] >= 5
    <3>1. Leads(c) /\ at[c] > 7
      BY <2>1, <2>2, <2>5 DEF Leads, BspExit, Pick
    <3>2. Signals(my[c], at[p]) >= Waits(my[c], at[c])
      BY <2>4, <3>1
    <3>3. QED
      BY <2>1, <2>2, <2>5, <3>2 DEF Signals, Waits, Pick, One
  <2>6. ASSUME NEW o \in Cpu, InAp(o, "signal"), at[o] >= 6
        PROVE  at[p] >= 5 /\ (at[o] >= 11 => at[p] >= 10)
    <3>1. PICK c \in Cpu : c = bsp[o]
      BY <2>1, <2>6, ApPlaceFacts, JoinedFacts
    <3>2. /\ Joined(o) /\ at[o] \in ApPlacesOf(my[o], "signal")
          /\ Leads(c) /\ my[c] = my[o]
      BY <2>1, <2>6, <3>1, ApPlaceFacts, JoinedFacts
    <3>3. at[o] \notin ApLookAt(my[o]) - 1 .. ApLookAt(my[o])
      BY <2>1, <2>2, <3>2 DEF ApPlacesOf, ApLookAt, Pick
    <3>4. o \notin busy
      BY <2>1, <3>2, <3>3, LeaderFacts
    <3>5. Awaits(my[c], at[o]) <= Releases(my[c], at[c])
      BY <2>1, <3>1, <3>2, <3>4, JoinedFacts
    <3>6. at[c] > 10 /\ (at[o] >= 11 => at[c] > 18)
      BY <2>1, <2>2, <2>6, <3>5 DEF Awaits, Releases, Pick, One
    <3>7. Signals(my[c], at[p]) >= Waits(my[c], at[c])
      BY <2>2, <2>4, <3>2, <3>6
    <3>8. QED
      BY <2>1, <2>2, <3>6, <3>7 DEF Signals, Waits, Pick, One
  <2>7. \A o \in Cpu : at[o] >= 11 => at[o] >= 6
    BY <2>2
  <2>8. QED
    BY <2>5, <2>6, <2>7
<1>2. QED
  BY <1>1, Invariance, PTL

---------------------------------------------------------------------------
\* Leaving together.

\* How a processor moves outside the handlers.
LEMMA EntryMove ==
  ASSUME TypeOK, Shape, NEW c \in Cpu,
         SmiEntry(c) \/ BspInProgress(c) \/ CheckIn(c) \/ TooLate(c) \/ Elect(c)
           \/ CallApHandler(c) \/ Exit(c)
  PROVE  /\ Alone(c) /\ allCpusInSync' = allCpusInSync
         /\ pc'[c] \notin {"giveUp", "gaveUp", "apHandler", "procedure"}
         /\ pc'[c] = "bspHandler" => Elect(c) /\ bspIndex' = c /\ at'[c] = 1
         /\ pc[c] = "bspHandler" => at[c] = BspExit(my[c]) /\ pc'[c] = "outside"
         /\ pc'[c] = "outside" =>
              \/ pc[c] = "invalid" /\ ~insideSmm
              \/ Exit(c) /\ (AtExit(c) \/ pc[c] = "late") /\ ~allCpusInSync
         /\ pc'[c] = "late" => counter = Locked
         /\ \A o \in Cpu \ {c} : o \in pending' <=> o \in pending
<1> USE DEF local, sync, modes, data, chipset
<1>1. CASE SmiEntry(c)
  <2>1. {"valid", "invalid"} \subseteq Places
    BY DEF Places
  <2>2. Alone(c) /\ pc[c] = "outside" /\ pc'[c] \in {"valid", "invalid"}
    BY <1>1, <2>1, Moves DEF SmiEntry
  <2>3. QED
    BY <1>1, <2>2 DEF SmiEntry
<1>2. CASE BspInProgress(c)
  <2>1. {"checkInAp", "checkIn"} \subseteq Places
    BY DEF Places
  <2>2. /\ Alone(c) /\ pc[c] \in {"valid", "invalid"}
        /\ \/ pc'[c] \in {"checkInAp", "checkIn"}
           \/ pc'[c] = "outside" /\ pc[c] = "invalid" /\ ~insideSmm
    BY <1>2, <2>1, Moves DEF BspInProgress
  <2>3. QED
    BY <1>2, <2>2 DEF BspInProgress
<1>3. CASE CheckIn(c)
  <2>1. {"elect", "apCall"} \subseteq Places
    BY DEF Places
  <2>2. Alone(c) /\ pc[c] \in {"checkIn", "checkInAp"} /\ pc'[c] \in {"elect", "apCall"}
    BY <1>3, <2>1, Moves DEF CheckIn
  <2>3. QED
    BY <1>3, <2>2 DEF CheckIn
<1>4. CASE TooLate(c)
  <2>1. "late" \in Places
    BY DEF Places
  <2>2. /\ Alone(c) /\ pc[c] \in {"checkIn", "checkInAp"} /\ pc'[c] = "late"
        /\ counter = Locked
    BY <1>4, <2>1, Moves DEF TooLate
  <2>3. QED
    BY <1>4, <2>2 DEF TooLate
<1>5. CASE Elect(c)
  <2>1. {"apCall", "bspHandler"} \subseteq Places
    BY DEF Places
  <2>2. /\ Alone(c) /\ pc[c] = "elect"
        /\ pc'[c] = "apCall" \/ (pc'[c] = "bspHandler" /\ bspIndex' = c /\ at'[c] = 1)
    BY <1>5, <2>1, Moves DEF Elect
  <2>3. QED
    BY <1>5, <2>2 DEF Elect
<1>6. CASE CallApHandler(c)
  <2>1. "ap" \in Places
    BY DEF Places
  <2>2. Alone(c) /\ pc[c] = "apCall" /\ pc'[c] = "ap"
    BY <1>6, <2>1, Moves DEF CallApHandler
  <2>3. QED
    BY <1>6, <2>2 DEF CallApHandler
<1>7. CASE Exit(c)
  <2>1. Alone(c) /\ pc'[c] = "outside"
    BY <1>7, Moves DEF Exit
  <2>2. pc[c] = "bspHandler" => at[c] = BspExit(my[c])
    <3>1. SUFFICES ASSUME pc[c] = "bspHandler" PROVE at[c] = BspExit(my[c])
      OBVIOUS
    <3>2. "exit" \in BspSteps /\ InBsp(c, "exit")
      BY <1>7, <3>1 DEF BspSteps, Exit, AtExit, InAp
    <3>3. at[c] \in BspPlaces(my[c], "exit")
      BY <3>2, WhereItIs
    <3>4. QED
      BY <3>3 DEF BspPlaces
  <2>3. QED
    BY <1>7, <2>1, <2>2 DEF Exit
<1>8. QED
  BY <1>1, <1>2, <1>3, <1>4, <1>5, <1>6, <1>7

\* How an AP moves in its handler.
LEMMA ApMove ==
  ASSUME TypeOK, Shape, NEW c \in Cpu, APHandler(c)
  PROVE  /\ Alone(c) /\ allCpusInSync' = allCpusInSync /\ pending \subseteq pending'
         /\ pc[c] \in {"ap", "apTimeout", "apAgain", "giveUp", "apHandler", "procedure"}
         /\ pc'[c] \in {"apTimeout", "apAgain", "giveUp", "gaveUp", "apHandler", "procedure"}
         /\ pc'[c] = "giveUp" => bspIndex = None \/ ApGivesUp
         /\ pc'[c] = "gaveUp" => pc[c] = "giveUp"
         /\ InAp(c, "exit")' => Joined(c) /\ at[c] > ApExit(my[c]) - 2
<1> USE DEF local, sync, modes, data, chipset
<1>0. my[c] \in Modes /\ at[c] \in Nat /\ at[c] >= 1
  BY WhereItIs
<1>1. CASE ApSeesBsp(c) \/ ApTimeout(c) \/ ApTimeoutAgain(c) \/ ApCallsBsp(c) \/ ApGiveUp(c)
  <2>1. {"apHandler", "apTimeout", "giveUp", "apAgain", "gaveUp"} \subseteq Places
    BY DEF Places
  <2>2. /\ Alone(c) /\ my'[c] = my[c] /\ at' = at
        /\ pc[c] \in {"ap", "apTimeout", "apAgain", "giveUp"}
        /\ pc'[c] \in {"apTimeout", "giveUp", "apAgain", "gaveUp", "apHandler"}
        /\ pc'[c] = "giveUp" => bspIndex = None \/ ApGivesUp
        /\ pc'[c] = "gaveUp" => pc[c] = "giveUp"
        /\ allCpusInSync' = allCpusInSync /\ pending \subseteq pending'
    BY <1>1, <2>1, Moves
    DEF ApSeesBsp, ApTimeout, ApTimeoutAgain, ApCallsBsp, ApGiveUp, SendSmiIpi, Goto
  <2>3. at[c] = 1
    BY <2>2 DEF Shape
  <2>4. ApProgram(my[c])[1] # "exit"
    <3>1. "exit" \in ApSteps /\ 1 \in 1 .. ApExit(my[c]) /\ 1 \notin ApPlacesOf(my[c], "exit")
      BY <1>0, Bounds DEF ApSteps, ApPlacesOf
    <3>2. QED
      BY <1>0, <3>1, ApPlacesCorrect DEF ApSteps
  <2>5. ~InAp(c, "exit")'
    BY <2>2, <2>3, <2>4 DEF InAp
  <2>6. QED
    BY <2>2, <2>5
<1>2. CASE ApJoin(c) \/ ApSignal(c) \/ ApAwait(c) \/ ApLook(c) \/ Procedure(c) \/ ApAbsent(c)
  <2>1. /\ Alone(c) /\ my' = my /\ allCpusInSync' = allCpusInSync /\ pending' = pending
        /\ pc[c] \in {"apHandler", "procedure"} /\ pc'[c] \in {"apHandler", "procedure"}
        /\ at'[c] \in {at[c], at[c] + 1} \/ (at'[c] = at[c] - 1 /\ pc[c] = "procedure")
        /\ pc[c] = "apHandler" => ~InAp(c, "exit")
    BY <1>0, <1>2 DEF ApJoin, ApSignal, ApAwait, ApLook, Procedure, ApAbsent, Advance, Skip, Goto,
       Alone, TypeOK, InAp
  <2>2. Follows(c)
    <3>1. ~InAp(c, "exit")
      BY <2>1 DEF InAp
    <3>2. QED
      BY <2>1, <3>1, JoinedAp
  <2>3. InAp(c, "exit")' => at'[c] = ApExit(my[c])
    <3>1. SUFFICES ASSUME InAp(c, "exit")' PROVE at'[c] = ApExit(my[c])
      OBVIOUS
    <3>2. pc[c] = "procedure" => at[c] > 1
      BY <1>0, Bounds DEF Shape
    <3>3. at'[c] \in 1 .. ApExit(my[c])
      BY <1>0, <2>1, <2>2, <3>2, Bounds DEF Follows
    <3>4. at'[c] \in ApPlacesOf(my[c], "exit")
      BY <1>0, <2>1, <3>1, <3>3, ApPlacesCorrect DEF InAp
    <3>5. QED
      BY <3>4 DEF ApPlacesOf
  <2>4. InAp(c, "exit")' => Joined(c) /\ at[c] > ApExit(my[c]) - 2
    BY <1>0, <2>1, <2>2, <2>3, Bounds DEF Joined, Follows
  <2>5. QED
    BY <2>1, <2>4
<1>3. QED
  BY <1>1, <1>2 DEF APHandler

\* How the BSP moves in its handler, and what it does on the way.
LEMMA BspMove ==
  ASSUME TypeOK, Shape, NEW c \in Cpu, BSPHandler(c)
  PROVE  /\ Alone(c) /\ pc[c] = "bspHandler" /\ pc' = pc /\ my' = my
         /\ at' = at \/ at'[c] = at[c] + 1 \/ (BspGather(c) /\ at'[c] = at[c] + 2)
         /\ at[c] = 5 => BspSync(c)
         /\ at[c] = BspExit(my[c]) - 1 => BspUnsync(c)
         /\ Early(my[c]) => (at[c] = 3 => BspGather(c)) /\ (at[c] = 4 => BspGatherAgain(c))
         /\ BspGather(c) => at[c] = 3 /\ Early(my[c])
         /\ BspSync(c) => at[c] = 5
         /\ BspUnsync(c) => at[c] = BspExit(my[c]) - 1
         /\ BspSync(c) \/ BspUnsync(c) \/ allCpusInSync' = allCpusInSync
         /\ pending \subseteq pending'
<1> USE DEF local, sync, modes, data, chipset
<1>0. PICK m \in Modes : m = my[c]
  BY WhereItIs
<1>1. /\ pc[c] = "bspHandler" /\ pc' = pc /\ my' = my /\ bsp' = bsp /\ at[c] \in 1 .. BspExit(m)
      /\ at[c] \in Nat /\ BspExit(m) \in Nat /\ BspExit(m) > 13 /\ at' = [at EXCEPT ![c] = at'[c]]
  BY <1>0, BspType, WhereItIs, Bounds DEF Shape
<1>2. Alone(c)
  <2>1. \A o \in Cpu \ {c} : apCount'[o] = apCount[o]
    BY DEF BSPHandler, BspEnter, BspClearStatus, BspGather, BspGatherAgain, BspSync, BspLock,
       WaitForAllAPs, ReleaseAllAPs, SmmStartupThisAp, SmmCoreEntry, BspDrain, BspCount, BspLeave,
       BspSetMode, BspAbsent, BspForget, BspReset, BspUnsync, Advance, Skip, TypeOK
  <2>2. QED
    BY <1>1, <2>1 DEF Alone, TypeOK
<1>3. at' = at \/ at'[c] = at[c] + 1 \/ (BspGather(c) /\ at'[c] = at[c] + 2)
  BY <1>1 DEF BSPHandler, BspEnter, BspClearStatus, BspGather, BspGatherAgain, BspSync, BspLock,
     WaitForAllAPs, ReleaseAllAPs, SmmStartupThisAp, SmmCoreEntry, BspDrain, BspCount, BspLeave,
     BspSetMode, BspAbsent, BspForget, BspReset, BspUnsync, Advance, Skip, TypeOK
<1>4. \A step \in BspSteps : BspProgram(m)[at[c]] = step <=> at[c] \in BspPlaces(m, step)
  BY <1>1, BspPlacesCorrect DEF BspSteps, QuietSteps
<1>5. {"sync", "unsync", "gather", "gatherAgain"} \subseteq BspSteps
  BY DEF BspSteps, QuietSteps
<1>6. at[c] = 5 => BspSync(c)
  <2>1. at[c] = 5 => BspProgram(my[c])[at[c]] = "sync"
    BY <1>0, <1>4, <1>5 DEF BspPlaces
  <2>2. QED
    BY <2>1
    DEF BSPHandler, BspEnter, BspClearStatus, BspGather, BspGatherAgain, BspSync, BspLock,
        WaitForAllAPs, ReleaseAllAPs, SmmStartupThisAp, SmmCoreEntry, BspDrain, BspCount, BspLeave,
        BspSetMode, BspAbsent, BspForget, BspReset, BspUnsync, InBsp
<1>7. at[c] = BspExit(my[c]) - 1 => BspUnsync(c)
  <2>1. at[c] = BspExit(my[c]) - 1 => BspProgram(my[c])[at[c]] = "unsync"
    BY <1>0, <1>4, <1>5 DEF BspPlaces
  <2>2. QED
    BY <2>1
    DEF BSPHandler, BspEnter, BspClearStatus, BspGather, BspGatherAgain, BspSync, BspLock,
        WaitForAllAPs, ReleaseAllAPs, SmmStartupThisAp, SmmCoreEntry, BspDrain, BspCount, BspLeave,
        BspSetMode, BspAbsent, BspForget, BspReset, BspUnsync, InBsp
<1>8. ASSUME Early(my[c])
      PROVE  (at[c] = 3 => BspGather(c)) /\ (at[c] = 4 => BspGatherAgain(c))
  <2>1. /\ at[c] = 3 => BspProgram(my[c])[at[c]] = "gather"
        /\ at[c] = 4 => BspProgram(my[c])[at[c]] = "gatherAgain"
    BY <1>0, <1>4, <1>5, <1>8 DEF BspPlaces, Pick, Early
  <2>2. QED
    BY <2>1
    DEF BSPHandler, BspEnter, BspClearStatus, BspGather, BspGatherAgain, BspSync, BspLock,
        WaitForAllAPs, ReleaseAllAPs, SmmStartupThisAp, SmmCoreEntry, BspDrain, BspCount, BspLeave,
        BspSetMode, BspAbsent, BspForget, BspReset, BspUnsync, InBsp
<1>9. BspSync(c) \/ BspUnsync(c) \/ allCpusInSync' = allCpusInSync
  BY DEF BSPHandler, BspEnter, BspClearStatus, BspGather, BspGatherAgain, BspSync, BspLock,
     WaitForAllAPs, ReleaseAllAPs, SmmStartupThisAp, SmmCoreEntry, BspDrain, BspCount, BspLeave,
     BspSetMode, BspAbsent, BspForget, BspReset, BspUnsync
<1>10. pending \subseteq pending'
  BY DEF BSPHandler, BspEnter, BspClearStatus, BspGather, BspGatherAgain, BspSync, BspLock,
     WaitForAllAPs, ReleaseAllAPs, SmmStartupThisAp, SmmCoreEntry, BspDrain, BspCount, BspLeave,
     BspSetMode, BspAbsent, BspForget, BspReset, BspUnsync, SendSmiIpi
<1>11. /\ BspGather(c) => at[c] = 3 /\ Early(my[c])
       /\ BspSync(c) => at[c] = 5
       /\ BspUnsync(c) => at[c] = BspExit(my[c]) - 1
  <2>1. /\ BspGather(c) => at[c] \in BspPlaces(m, "gather")
        /\ BspSync(c) => at[c] \in BspPlaces(m, "sync")
        /\ BspUnsync(c) => at[c] \in BspPlaces(m, "unsync")
    BY <1>0, <1>4, <1>5 DEF BspGather, BspSync, BspUnsync, InBsp
  <2>2. at[c] \in BspPlaces(m, "gather") => at[c] = 3 /\ Early(my[c])
    BY <1>0, RendezvousAssumption DEF BspPlaces, Pick, Early
  <2>3. QED
    BY <1>0, <2>1, <2>2 DEF BspPlaces
<1>12. QED
  BY <1>1, <1>2, <1>3, <1>6, <1>7, <1>8, <1>9, <1>10, <1>11

\* The BSP that has found everyone in SMM while it gathers.
LEMMA EveryoneIsIn ==
  ASSUME IInv, NEW c \in Cpu, Leads(c), at[c] <= 6,
         counter >= NumberOfCpus \/ present = Cpu
  PROVE  \A o \in Cpu \ {c} : Joined(o) \/ Arriving(o)
<1>1. \A o \in Cpu : Leads(o) => o = c
  BY DEF IInv, Roles, Leader
<1>2. CASE present = Cpu
  BY <1>1, <1>2 DEF IInv, Roles, Presence
<1>3. CASE counter >= NumberOfCpus
  <2>1. counter = Cardinality(Members)
    BY <1>1 DEF IInv, Roles, Counted
  <2>2. Members \subseteq Cpu /\ Cpu \subseteq Cpu
    BY DEF Members
  <2>3. /\ Cardinality(Members) \in Nat /\ Cardinality(Members) <= NumberOfCpus
        /\ NumberOfCpus \in Nat
    BY <2>2, Counting, CpuCount
  <2>4. Cardinality(Members) = Cardinality(Cpu)
    BY <1>3, <2>1, <2>3 DEF NumberOfCpus
  <2>5. Members = Cpu
    BY <2>2, <2>4, Counting
  <2>6. QED
    BY <1>1, <2>5 DEF Members
<1>4. QED
  BY <1>2, <1>3

\* AllCpusInSync tells whether a BSP is between setting and clearing it, if the
\* BSP is fixed or waits until everyone is there: an elected one that does not
\* may clear the flag of its successor.
Coordinated == ~Election \/ (~BspTimesOut /\ \A m \in Modes : Early(m))
Holds(b) == pc[b] = "bspHandler" /\ at[b] \in 6 .. BspExit(my[b]) - 1
OneInSync ==
    \A b, c \in Cpu :
        pc[b] = "bspHandler" /\ pc[c] = "bspHandler" /\ at[b] > 4 /\ (Leads(b) \/ at[c] > 4) => b = c
SyncHeld == (allCpusInSync <=> \E b \in Cpu : Holds(b)) /\ OneInSync

\* A step outside BSPHandler.
LEMMA SyncKept ==
  ASSUME IInv, IInv', SyncHeld, NEW c \in Cpu, Alone(c), allCpusInSync' = allCpusInSync,
         pc'[c] = "bspHandler" => at'[c] = 1 /\ \A b \in Cpu : ~Leads(b),
         pc[c] = "bspHandler" => at[c] = BspExit(my[c])
  PROVE  SyncHeld'
<1>1. ~Holds(c)' /\ ~Holds(c)
  <2>1. my[c] \in Modes
    BY WhereItIs DEF IInv
  <2>2. BspExit(my[c]) \in Nat
    BY <2>1, Bounds
  <2>3. QED
    BY <2>2 DEF Holds
<1>2. \A b \in Cpu \ {c} : (Holds(b)' <=> Holds(b)) /\ (Leads(b)' <=> Leads(b))
  BY DEF Alone, Holds, Leads
<1>3. allCpusInSync' <=> \E b \in Cpu : Holds(b)'
  BY <1>1, <1>2 DEF SyncHeld
<1>4. OneInSync'
  <2>1. SUFFICES ASSUME NEW b \in Cpu, NEW d \in Cpu, pc'[b] = "bspHandler", pc'[d] = "bspHandler",
                        at'[b] > 4, Leads(b)' \/ at'[d] > 4, b # d
                 PROVE  FALSE
    BY DEF OneInSync
  <2>2. b # c
    BY <2>1
  <2>3. pc[b] = "bspHandler" /\ at[b] > 4 /\ (Leads(b)' <=> Leads(b))
    BY <1>2, <2>1, <2>2 DEF Alone
  <2>4. CASE d = c
    BY <2>1, <2>3, <2>4
  <2>5. CASE d # c
    BY <2>1, <2>3, <2>5 DEF Alone, SyncHeld, OneInSync
  <2>6. QED
    BY <2>4, <2>5
<1>5. QED
  BY <1>3, <1>4 DEF SyncHeld

\* A step of the BSP.
LEMMA SyncBsp ==
  ASSUME Coordinated, IInv, IInv', SyncHeld, NEW c \in Cpu, BSPHandler(c)
  PROVE  SyncHeld'
<1>0. PICK m \in Modes : m = my[c]
  BY WhereItIs DEF IInv
<1>1. /\ Alone(c) /\ pc[c] = "bspHandler" /\ pc' = pc /\ my' = my
      /\ at' = at \/ at'[c] = at[c] + 1 \/ (BspGather(c) /\ at'[c] = at[c] + 2)
      /\ at[c] = 5 => BspSync(c)
      /\ at[c] = BspExit(m) - 1 => BspUnsync(c)
      /\ Early(m) => (at[c] = 3 => BspGather(c)) /\ (at[c] = 4 => BspGatherAgain(c))
      /\ BspGather(c) => at[c] = 3 /\ Early(m)
      /\ BspSync(c) => at[c] = 5
      /\ BspUnsync(c) => at[c] = BspExit(m) - 1
      /\ BspSync(c) \/ BspUnsync(c) \/ allCpusInSync' = allCpusInSync
  BY <1>0, BspMove DEF IInv
<1>2. /\ at[c] \in Nat /\ at'[c] \in Nat /\ at'[c] <= BspExit(m)
      /\ BspExit(m) \in Nat /\ BspExit(m) > 13
  BY <1>0, <1>1, WhereItIs, BspType, Bounds DEF IInv
<1>3. /\ \A o \in Cpu \ {c} : (Holds(o)' <=> Holds(o)) /\ (Leads(o)' <=> Leads(o)) /\ at'[o] = at[o]
      /\ Leads(c)' => Leads(c)
  BY <1>0, <1>1, <1>2 DEF Alone, Holds, Leads
<1>4. ASSUME at[c] <= 4, at'[c] > 4, NEW o \in Cpu, pc[o] = "bspHandler"
      PROVE  o = c
  <2>1. CASE ~Election
    BY <1>1, <1>4, <2>1 DEF IInv, Roles, Leader
  <2>2. CASE Election
    <3>1. Early(m) /\ ~BspTimesOut
      BY <1>0, <2>2 DEF Coordinated
    <3>2. Leads(c)
      BY <1>0, <1>1, <1>2, <1>4 DEF Leads
    <3>3. at[c] = 4 \/ (at[c] = 3 /\ BspGather(c) /\ at'[c] = at[c] + 2)
      BY <1>1, <1>2, <1>4
    <3>4. counter >= NumberOfCpus \/ present = Cpu
      <4>1. CASE at[c] = 4
        BY <1>1, <3>1, <4>1, CpuCount DEF BspGatherAgain, AllCpusInSmm
      <4>2. CASE BspGather(c) /\ at'[c] = at[c] + 2
        <5>1. ~Advance(c)
          BY <1>2, <4>2, AdvanceMoves DEF IInv
        <5>2. QED
          BY <4>2, <5>1 DEF BspGather
      <4>3. QED
        BY <3>3, <4>1, <4>2
    <3>5. o # c => Joined(o) \/ Arriving(o)
      BY <1>2, <1>4, <3>2, <3>4, EveryoneIsIn
    <3>6. QED
      BY <1>4, <3>5 DEF Joined, Arriving, Follows
  <2>3. QED
    BY <2>1, <2>2
<1>5. OneInSync'
  <2>1. SUFFICES ASSUME NEW b \in Cpu, NEW d \in Cpu, pc[b] = "bspHandler", pc[d] = "bspHandler",
                        at'[b] > 4, Leads(b)' \/ at'[d] > 4, b # d
                 PROVE  FALSE
    BY <1>1 DEF OneInSync
  <2>2. OneInSync
    BY DEF SyncHeld
  <2>3. CASE b = c
    <3>1. at[c] > 4
      BY <1>2, <1>4, <2>1, <2>3
    <3>2. Leads(b) \/ at[d] > 4
      BY <1>3, <2>1, <2>3
    <3>3. QED
      BY <2>1, <2>2, <2>3, <3>1, <3>2 DEF OneInSync
  <2>4. CASE b # c
    <3>1. at[b] > 4 /\ (Leads(b)' <=> Leads(b))
      BY <1>3, <2>1, <2>4
    <3>2. CASE Leads(b)
      BY <2>1, <2>2, <3>1, <3>2 DEF OneInSync
    <3>3. CASE at'[d] > 4
      <4>1. at[d] > 4
        BY <1>2, <1>3, <1>4, <2>1, <2>4, <3>3
      <4>2. QED
        BY <2>1, <2>2, <3>1, <4>1 DEF OneInSync
    <3>4. QED
      BY <2>1, <3>1, <3>2, <3>3
  <2>5. QED
    BY <2>3, <2>4
<1>6. CASE BspSync(c)
  <2>1. allCpusInSync' /\ at'[c] = 6
    BY <1>1, <1>6, AdvanceMoves DEF BspSync, IInv
  <2>2. Holds(c)'
    BY <1>0, <1>1, <1>2, <2>1 DEF Holds
  <2>3. QED
    BY <1>5, <2>1, <2>2 DEF SyncHeld
<1>7. CASE BspUnsync(c)
  <2>1. ~allCpusInSync' /\ at'[c] = BspExit(m) /\ at[c] > 4
    BY <1>1, <1>2, <1>7, AdvanceMoves DEF BspUnsync, IInv
  <2>2. ~Holds(c)'
    BY <1>0, <1>1, <1>2, <2>1 DEF Holds
  <2>3. ASSUME NEW o \in Cpu, Holds(o) PROVE o = c
    <3>1. pc[o] = "bspHandler" /\ at[o] > 4
      BY <2>3, WhereItIs, Bounds DEF Holds, IInv
    <3>2. QED
      BY <1>1, <2>1, <3>1 DEF SyncHeld, OneInSync
  <2>4. QED
    BY <1>3, <1>5, <2>1, <2>2, <2>3 DEF SyncHeld
<1>8. CASE ~BspSync(c) /\ ~BspUnsync(c)
  <2>1. at[c] # 5 /\ at[c] # BspExit(m) - 1 /\ allCpusInSync' = allCpusInSync
    BY <1>1, <1>8
  <2>2. at'[c] \in 6 .. BspExit(m) - 1 <=> at[c] \in 6 .. BspExit(m) - 1
    BY <1>1, <1>2, <2>1
  <2>3. Holds(c)' <=> Holds(c)
    BY <1>0, <1>1, <2>2 DEF Holds
  <2>4. QED
    BY <1>3, <1>5, <2>1, <2>3 DEF SyncHeld
<1>9. QED
  BY <1>6, <1>7, <1>8

LEMMA InitSync == Init => SyncHeld
  BY DEF Init, SyncHeld, OneInSync, Holds

LEMMA NextSync ==
  ASSUME Coordinated
  PROVE  IInv /\ IInv' /\ SyncHeld /\ [Next]_vars => SyncHeld'
<1>1. SUFFICES ASSUME IInv, IInv', SyncHeld, [Next]_vars PROVE SyncHeld'
  OBVIOUS
<1>2. ASSUME NEW c \in Cpu, SmiRendezvous(c) PROVE SyncHeld'
  <2>0. TypeOK /\ Shape
    BY <1>1 DEF IInv
  <2>1. CASE SmiEntry(c) \/ BspInProgress(c) \/ CheckIn(c) \/ TooLate(c) \/ Elect(c)
               \/ CallApHandler(c) \/ Exit(c)
    <3>1. /\ Alone(c) /\ allCpusInSync' = allCpusInSync
          /\ pc'[c] = "bspHandler" => Elect(c) /\ bspIndex' = c /\ at'[c] = 1
          /\ pc[c] = "bspHandler" => at[c] = BspExit(my[c])
      BY <2>0, <2>1, EntryMove
    <3>2. QED
      BY <1>1, <3>1, ElectedAlone, SyncKept
  <2>2. CASE BSPHandler(c)
    BY <1>1, <2>2, SyncBsp
  <2>3. CASE APHandler(c)
    <3>1. /\ Alone(c) /\ allCpusInSync' = allCpusInSync /\ pc[c] # "bspHandler"
          /\ pc'[c] # "bspHandler"
      BY <2>0, <2>3, ApMove
    <3>2. QED
      BY <1>1, <3>1, SyncKept
  <2>4. QED
    BY <1>2, <2>1, <2>2, <2>3 DEF SmiRendezvous
<1>3. CASE RaiseSmi \/ Idle \/ UNCHANGED vars
  <2>1. UNCHANGED <<pc, at, my, allCpusInSync>>
    BY <1>3 DEF RaiseSmi, Idle, vars, local, sync
  <2>2. QED
    BY <1>1, <2>1 DEF SyncHeld, OneInSync, Holds, Leads
<1>4. QED
  BY <1>1, <1>2, <1>3 DEF Next

\* BSPHandler, "gather APs to exit SMM synchronously": an AP that has followed a
\* BSP to the end stays in SMM until this BSP has reset the counter.
THEOREM LeavingTogether ==
  ASSUME Coordinated
  PROVE  Spec => LeaveTogether
<1>1. IInv /\ SyncHeld /\ [Next]_vars =>
        [\A o \in Cpu : InAp(o, "exit") /\ pc'[o] = "outside" =>
           ~BspBetween(bsp[o], "lock", "reset")]_vars
  <2>1. SUFFICES ASSUME IInv, SyncHeld, Next, NEW o \in Cpu, InAp(o, "exit"), pc'[o] = "outside",
                        BspBetween(bsp[o], "lock", "reset")
                 PROVE  FALSE
    OBVIOUS
  <2>2. TypeOK /\ Shape
    BY <2>1 DEF IInv
  <2>3. pc[o] = "apHandler" /\ at[o] = ApExit(my[o]) /\ my[o] \in Modes
    <3>1. "exit" \in ApSteps
      BY DEF ApSteps
    <3>2. QED
      BY <2>1, <2>2, <3>1, WhereItIs DEF ApPlacesOf
  <2>4. PICK b \in Cpu : b = bsp[o]
    BY <2>2, <2>3, Bounds DEF Shape
  <2>5. Holds(b)
    <3>1. pc[b] = "bspHandler" /\ my[b] \in Modes /\ at[b] \in 1 .. BspExit(my[b])
      <4>1. pc[b] = "bspHandler"
        BY <2>1, <2>4 DEF BspBetween
      <4>2. my[b] \in Modes /\ at[b] \in Nat /\ at[b] >= 1
        BY <2>2, WhereItIs
      <4>3. at[b] <= BspExit(my[b]) /\ BspExit(my[b]) \in Nat
        BY <2>2, <4>1, <4>2, Bounds DEF Shape
      <4>4. QED
        BY <4>1, <4>2, <4>3
    <3>2. /\ \E i \in 1 .. at[b] : BspProgram(my[b])[i] = "lock"
          /\ \E i \in at[b] .. BspExit(my[b]) : BspProgram(my[b])[i] = "reset"
      BY <2>1, <2>4, <3>1, BspPlacesCorrect DEF BspBetween
    <3>3. BspExit(my[b]) \in Nat /\ {"lock", "reset"} \subseteq BspSteps
      BY <3>1, Bounds DEF BspSteps
    <3>4. /\ 1 .. at[b] \subseteq 1 .. BspExit(my[b])
          /\ at[b] .. BspExit(my[b]) \subseteq 1 .. BspExit(my[b])
      BY <3>1, <3>3
    <3>5. /\ \E i \in 1 .. at[b] : i \in BspPlaces(my[b], "lock")
          /\ \E i \in at[b] .. BspExit(my[b]) : i \in BspPlaces(my[b], "reset")
      BY <3>1, <3>2, <3>3, <3>4, BspPlacesCorrect DEF BspSteps
    <3>6. at[b] >= 6 /\ at[b] <= BspExit(my[b]) - 2
      BY <3>1, <3>3, <3>5 DEF BspPlaces
    <3>7. QED
      BY <3>1, <3>3, <3>6 DEF Holds
  <2>6. allCpusInSync
    BY <2>1, <2>5 DEF SyncHeld
  <2>7. ASSUME NEW c \in Cpu, SmiRendezvous(c) PROVE FALSE
    <3>1. CASE SmiEntry(c) \/ BspInProgress(c) \/ CheckIn(c) \/ TooLate(c) \/ Elect(c)
                 \/ CallApHandler(c) \/ Exit(c)
      BY <2>1, <2>2, <2>3, <2>6, <3>1, EntryMove DEF Alone
    <3>2. CASE BSPHandler(c)
      BY <2>1, <2>2, <2>3, <3>2, BspMove
    <3>3. CASE APHandler(c)
      BY <2>1, <2>2, <2>3, <3>3, ApMove DEF Alone
    <3>4. QED
      BY <2>7, <3>1, <3>2, <3>3 DEF SmiRendezvous
  <2>8. CASE RaiseSmi \/ Idle
    BY <2>1, <2>3, <2>8 DEF RaiseSmi, Idle, vars, local
  <2>9. QED
    BY <2>1, <2>7, <2>8 DEF Next
<1>2. QED
  BY <1>1, Invariance, InitSync, NextSync, PTL DEF Spec, LeaveTogether

---------------------------------------------------------------------------
\* Nobody runs normal mode code while the SMI handlers do.

\* An AP never leaves uncounted in the middle of a run: the BSP is fixed and is
\* waited for.
Awaited == ~Election /\ ~ApGivesUp

\* Once the BSP of an early flow has called the processors that are missing, one
\* that is outside has an SMI latched, and one that is about to go there has one
\* latched too or waits for AllCpusInSync.
Gathering(b) == pc[b] = "bspHandler" /\ Early(my[b]) /\ at[b] \in 4 .. BspLeaves(my[b])
Gathered ==
    /\ \A o \in Cpu : pc[o] \notin {"giveUp", "gaveUp"}
    /\ \A b, o \in Cpu : Gathering(b) /\ o # b =>
         /\ pc[o] = "outside" => o \in pending
         /\ pc[o] = "late" \/ AtExit(o) => o \in pending \/ at[b] > 5

\* An AP that has joined the BSP is not past its look at InsideSmm for good.
LEMMA JoinedStay ==
  ASSUME IInv, NEW b \in Cpu, Leads(b), at[b] <= BspLeaves(my[b]), NEW o \in Cpu, Joined(o)
  PROVE  at[o] <= ApExit(my[o]) - 2
<1>1. PICK m \in Modes : m = my[b]
  BY WhereItIs DEF IInv
<1>2. at[b] \in Nat /\ at[b] <= BspLeaves(m)
  BY <1>1, WhereItIs DEF IInv
<1>3. InStepWith(o, b) /\ my[o] = m /\ at[o] \in Nat /\ run[o] \in Nat
  BY <1>1, JoinedFacts DEF IInv, Roles, InStep, InStepWith
<1>4. Awaits(m, at[o]) \in Nat /\ Releases(m, at[b]) \in Nat
  BY <1>1, <1>2, <1>3, Tallies
<1>5. Awaits(m, at[o]) <= Releases(m, at[b]) + 1
  BY <1>1, <1>3, <1>4 DEF InStepWith, One
<1>6. QED
  BY <1>2, <1>3, <1>5 DEF Awaits, Releases, Pick, One, BspLeaves, ApExit

\* Where the BSP is when it gathers and after it.
LEMMA GatheringLeads ==
  ASSUME IInv, NEW b \in Cpu, Gathering(b)
  PROVE  /\ Leads(b) /\ at[b] \in Nat /\ 4 <= at[b] /\ at[b] <= BspLeaves(my[b]) /\ insideSmm
         /\ at[b] > 5 => Holds(b)
         /\ at[b] <= 6 => counter < Locked
<1>1. PICK m \in Modes : m = my[b]
  BY WhereItIs DEF IInv
<1>2. at[b] \in Nat /\ 4 <= at[b] /\ at[b] <= BspLeaves(m) /\ pc[b] = "bspHandler"
  BY <1>1, WhereItIs DEF IInv, Gathering
<1>3. /\ BspLeaves(m) \in Nat /\ BspExit(m) \in Nat /\ BspLeaves(m) < BspExit(m) - 2
  BY Bounds
<1>4. Leads(b)
  BY <1>1, <1>2, <1>3 DEF Leads
<1>5. insideSmm
  BY <1>1, <1>2, <1>3 DEF IInv, Roles, Inside
<1>6. at[b] > 5 => Holds(b)
  BY <1>1, <1>2, <1>3 DEF Holds
<1>7. ASSUME at[b] <= 6 PROVE counter < Locked
  <2>1. \A o \in Cpu : Leads(o) => o = b
    BY <1>4 DEF IInv, Roles, Leader
  <2>2. counter = Cardinality(Members)
    BY <1>7, <2>1 DEF IInv, Roles, Counted
  <2>3. Cardinality(Members) \in Nat /\ Cardinality(Members) <= NumberOfCpus
    BY Counting, CpuCount DEF Members
  <2>4. QED
    BY <2>2, <2>3, CpuCount
<1>8. QED
  BY <1>1, <1>2, <1>4, <1>5, <1>6, <1>7

\* A step outside the BSP's handler.
LEMMA GatheredOthers ==
  ASSUME Awaited, IInv, SyncHeld, Gathered, NEW c \in Cpu,
         \/ SmiEntry(c) \/ BspInProgress(c) \/ CheckIn(c) \/ TooLate(c) \/ Elect(c)
              \/ CallApHandler(c) \/ Exit(c)
         \/ APHandler(c)
  PROVE  Gathered'
<1>0. TypeOK /\ Shape
  BY DEF IInv
<1>1. Alone(c) /\ pc'[c] \notin {"giveUp", "gaveUp"}
  <2>1. CASE APHandler(c)
    <3>1. bspIndex # None
      BY RendezvousAssumption DEF Awaited, IInv, Roles, Leader
    <3>2. QED
      BY <1>0, <2>1, <3>1, ApMove DEF Awaited, Gathered
  <2>2. QED
    BY <1>0, <2>1, EntryMove
<1>2. \A o \in Cpu : pc'[o] \notin {"giveUp", "gaveUp"}
  BY <1>1 DEF Alone, Gathered
<1>3. \A o \in Cpu \ {c} : o \in pending => o \in pending'
  BY <1>0, EntryMove, ApMove
<1>4. ASSUME NEW b \in Cpu, NEW o \in Cpu, Gathering(b)', o # b,
             pc'[o] \in {"outside", "late"} \/ AtExit(o)'
      PROVE  \/ pc'[o] = "outside" /\ o \in pending'
             \/ (pc'[o] = "late" \/ AtExit(o)') /\ pc'[o] # "outside"
                  /\ (o \in pending' \/ at'[b] > 5)
  <2>1. b # c
    <3>1. pc'[b] = "bspHandler" /\ at'[b] # 1
      BY <1>4 DEF Gathering
    <3>2. QED
      BY <1>0, <3>1, EntryMove, ApMove
  <2>2. Gathering(b) /\ at'[b] = at[b]
    BY <1>1, <1>4, <2>1 DEF Alone, Gathering
  <2>3. /\ Leads(b) /\ at[b] \in Nat /\ 4 <= at[b] /\ at[b] <= BspLeaves(my[b]) /\ insideSmm
        /\ at[b] > 5 => Holds(b)
        /\ at[b] <= 6 => counter < Locked
    BY <2>2, GatheringLeads
  <2>4. AtExit(o)' => pc'[o] # "outside"
    BY DEF AtExit, InBsp, InAp
  <2>5. CASE o # c
    <3>1. pc'[o] = pc[o] /\ (AtExit(o)' <=> AtExit(o))
      BY <1>1, <2>5 DEF Alone, AtExit, InBsp, InAp
    <3>2. /\ pc[o] = "outside" => o \in pending
          /\ pc[o] = "late" \/ AtExit(o) => o \in pending \/ at[b] > 5
      BY <1>4, <2>2 DEF Gathered
    <3>3. QED
      BY <1>3, <1>4, <2>2, <2>4, <2>5, <3>1, <3>2
  <2>6. CASE o = c /\ ~APHandler(c)
    <3>1. CASE pc'[c] = "outside"
      <4>1. Exit(c) /\ (AtExit(c) \/ pc[c] = "late") /\ ~allCpusInSync
        BY <1>0, <2>3, <2>6, <3>1, EntryMove
      <4>2. ~(at[b] > 5)
        BY <2>3, <4>1 DEF SyncHeld
      <4>3. c \in pending
        BY <1>4, <2>2, <2>6, <4>1, <4>2 DEF Gathered
      <4>4. QED
        BY <2>6, <3>1, <4>1, <4>3 DEF Exit, chipset
    <3>2. CASE pc'[c] = "late"
      <4>1. counter = Locked
        BY <1>0, <2>6, <3>2, EntryMove
      <4>2. at[b] > 5
        BY <2>3, <4>1, CpuCount
      <4>3. QED
        BY <2>2, <2>6, <3>2, <4>2
    <3>3. CASE AtExit(c)'
      <4>1. pc'[c] # "bspHandler"
        BY <1>0, <2>3, <2>6, EntryMove, ElectedAlone
      <4>2. QED
        BY <1>0, <1>1, <2>6, <3>3, <4>1, EntryMove DEF AtExit, InBsp, InAp
    <3>4. QED
      BY <1>4, <2>6, <3>1, <3>2, <3>3
  <2>7. CASE o = c /\ APHandler(c)
    <3>1. pc'[c] \notin {"outside", "late", "bspHandler"} /\ InAp(c, "exit")'
      BY <1>0, <1>1, <1>4, <2>7, ApMove DEF AtExit, InBsp
    <3>2. Joined(c) /\ at[c] > ApExit(my[c]) - 2
      BY <1>0, <2>7, <3>1, ApMove
    <3>3. at[c] <= ApExit(my[c]) - 2
      BY <2>3, <3>2, JoinedStay
    <3>4. at[c] \in Nat /\ ApExit(my[c]) \in Nat
      BY <1>0, WhereItIs, Bounds
    <3>5. QED
      BY <3>2, <3>3, <3>4
  <2>8. QED
    BY <2>5, <2>6, <2>7
<1>5. QED
  BY <1>2, <1>4 DEF Gathered

\* A step of the BSP: it gathers.
LEMMA GatheredBsp ==
  ASSUME Awaited, IInv, Gathered, NEW c \in Cpu, BSPHandler(c)
  PROVE  Gathered'
<1>0. TypeOK /\ Shape
  BY DEF IInv
<1>1. /\ Alone(c) /\ pc[c] = "bspHandler" /\ pc' = pc /\ my' = my
      /\ at' = at \/ at'[c] = at[c] + 1 \/ (BspGather(c) /\ at'[c] = at[c] + 2)
      /\ Early(my[c]) => (at[c] = 3 => BspGather(c))
      /\ BspGather(c) => at[c] = 3 /\ Early(my[c])
      /\ pending \subseteq pending'
  BY <1>0, BspMove
<1>2. at[c] \in Nat /\ at'[c] \in Nat
  BY <1>0, <1>1, WhereItIs
<1>3. ASSUME NEW b \in Cpu, pc[b] = "bspHandler" PROVE b = c
  BY <1>1, <1>3 DEF Awaited, IInv, Roles, Leader
<1>4. ASSUME NEW o \in Cpu, o # c, Gathering(c)'
      PROVE  /\ pc[o] = "outside" => o \in pending'
             /\ pc[o] = "late" \/ AtExit(o) => o \in pending' \/ at'[c] > 5
  <2>1. at'[c] \in 4 .. BspLeaves(my[c]) /\ Early(my[c])
    BY <1>1, <1>4 DEF Gathering
  <2>2. CASE at[c] > 3
    <3>1. Gathering(c) /\ at'[c] >= at[c]
      <4>1. at'[c] >= at[c]
        BY <1>1, <1>2
      <4>2. BspLeaves(my[c]) \in Nat
        BY <1>0, WhereItIs, Bounds
      <4>3. QED
        BY <1>1, <1>2, <2>1, <2>2, <4>1, <4>2 DEF Gathering
    <3>2. QED
      BY <1>1, <1>2, <1>4, <3>1 DEF Gathered
  <2>3. CASE at[c] <= 3
    <3>1. at[c] = 3 /\ BspGather(c)
      BY <1>1, <1>2, <2>1, <2>3
    <3>2. Leads(c)
      <4>1. BspExit(my[c]) \in Nat /\ BspExit(my[c]) > 13
        BY <1>0, WhereItIs, Bounds
      <4>2. QED
        BY <1>1, <3>1, <4>1 DEF Leads
    <3>3. CASE pending' = pending \cup (Cpu \ present)
      <4>1. o \notin present => o \in pending'
        BY <3>3
      <4>2. o \in present => Joined(o)
        BY <1>4, <3>2 DEF IInv, Roles, Presence, Leader
      <4>3. Joined(o) => pc[o] \notin {"outside", "late"} /\ ~AtExit(o)
        BY <1>0, AtExitIsOut DEF Joined, Follows
      <4>4. QED
        BY <4>1, <4>2, <4>3
    <3>4. CASE counter >= NumberOfCpus
      <4>1. Joined(o) \/ Arriving(o)
        BY <1>4, <3>1, <3>2, <3>4, EveryoneIsIn
      <4>2. pc[o] \notin {"outside", "late"} /\ ~AtExit(o)
        BY <1>0, <4>1, AtExitIsOut DEF Joined, Arriving, Follows
      <4>3. QED
        BY <4>2
    <3>5. QED
      BY <3>1, <3>3, <3>4 DEF BspGather, SendSmiIpi
  <2>4. QED
    BY <1>2, <2>2, <2>3
<1>5. \A o \in Cpu : o # c => (AtExit(o)' <=> AtExit(o))
  BY <1>1 DEF Alone, AtExit, InBsp, InAp
<1>6. \A b \in Cpu : Gathering(b)' => b = c
  BY <1>1, <1>3 DEF Gathering
<1>7. QED
  BY <1>1, <1>4, <1>5, <1>6 DEF Gathered

LEMMA InitGathered == Init => Gathered
  BY DEF Init, Gathered, Gathering

LEMMA NextGathered ==
  ASSUME Awaited, IInv, IInv', SyncHeld, Gathered, [Next]_vars
  PROVE  Gathered'
<1>1. ASSUME NEW c \in Cpu, SmiRendezvous(c) PROVE Gathered'
  <2>1. CASE BSPHandler(c)
    BY <2>1, GatheredBsp
  <2>2. CASE ~BSPHandler(c)
    BY <1>1, <2>2, GatheredOthers DEF SmiRendezvous
  <2>3. QED
    BY <2>1, <2>2
<1>2. CASE RaiseSmi \/ Idle \/ UNCHANGED vars
  <2>1. /\ UNCHANGED <<pc, at, my>>
        /\ \A o \in Cpu : o \in pending => o \in pending'
    BY <1>2 DEF RaiseSmi, Idle, vars, local, chipset
  <2>2. \A o \in Cpu : (AtExit(o)' <=> AtExit(o)) /\ (Gathering(o)' <=> Gathering(o))
    BY <2>1 DEF AtExit, InBsp, InAp, Gathering
  <2>3. QED
    BY <2>1, <2>2 DEF Gathered
<1>3. QED
  BY <1>1, <1>2 DEF Next

\* SmmWaitForApArrival, "no processor executes normal mode code": while the
\* handlers of a traditional SMI run, every other processor is in SMM or has an
\* SMI latched, whether or not the second wait of the BSP times out.
THEOREM NobodyRunsNormalCode ==
  ASSUME Awaited
  PROVE  Spec => []NoNormalCode
<1>1. Gathered /\ IInv => NoNormalCode
  <2>1. SUFFICES ASSUME Gathered, IInv, NEW c \in Cpu, InBsp(c, "core") \/ InBsp(c, "drain"),
                        my[c] = "traditional", NEW o \in Cpu \ {c}, pc[o] = "outside"
                 PROVE  o \in pending
    BY DEF NoNormalCode
  <2>2. pc[c] = "bspHandler" /\ at[c] \in {BspCore(my[c]), BspCore(my[c]) + 1} /\ my[c] \in Modes
    <3>1. {"core", "drain"} \subseteq BspSteps
      BY DEF BspSteps, QuietSteps
    <3>2. /\ pc[c] = "bspHandler" /\ my[c] \in Modes
          /\ at[c] \in BspPlaces(my[c], "core") \/ at[c] \in BspPlaces(my[c], "drain")
      BY <2>1, <3>1, WhereItIs DEF IInv
    <3>3. QED
      BY <3>2 DEF BspPlaces
  <2>3. at[c] \in 4 .. BspLeaves(my[c])
    BY <2>1, <2>2 DEF BspCore, BspLeaves, Pick
  <2>4. Gathering(c)
    BY <2>1, <2>2, <2>3 DEF Gathering, Early
  <2>5. QED
    BY <2>1, <2>4 DEF Gathered
<1>2. IInv /\ IInv' /\ SyncHeld /\ Gathered /\ [Next]_vars => Gathered'
  BY NextGathered
<1>3. IInv /\ IInv' /\ SyncHeld /\ [Next]_vars => SyncHeld'
  BY NextSync DEF Awaited, Coordinated
<1>4. QED
  BY <1>1, <1>2, <1>3, Invariance, InitSync, InitGathered, PTL DEF Spec
=============================================================================
