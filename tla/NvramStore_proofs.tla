------------------------- MODULE NvramStore_proofs -------------------------
(***************************************************************************)
(* Proofs about what NvramBanks keeps in its two areas, for any number of  *)
(* variables: which area the driver works on, and what a call that returns *)
(* success has done, for any number of flash failures while nobody else    *)
(* writes the areas, and for any number of firmware updates while no       *)
(* operation fails; and what a firmware update keeps.                      *)
(***************************************************************************)
EXTENDS NvramBanks_proofs

---------------------------------------------------------------------------
\* The journal.

\* As long as the firmware is not updated behind the driver's back: the part a
\* build image puts into an area is not distinguished from what is there.
NotReflashed == MaxReflash = 0

\* A valid area, and one that a garbage collection has left for another.
Sound(area) == area.hdr /\ "DATA_VALID" \in area.state
Dead(area) == "DELETED" \in area.state

\* The area a boot takes: when both are valid the other one is DELETED.
Preferred(b) ==
    Sound(flash[b]) /\ (Sound(flash[Other(b)]) => Dead(flash[Other(b)]) /\ ~Dead(flash[b]))
NoTieIn(f) == Sound(f[0]) /\ Sound(f[1]) => (Dead(f[0]) <=> ~Dead(f[1]))
Synced == mem = flash[active] /\ Preferred(active)
Passes == HybridInterfaceCheckStore = "SUCCESS"

\* The driver works on the area a boot would take, through a mirror that equals
\* it; the mirror that a failed call may leave behind does not pass CheckStore.
Journal ==
    /\ NoTieIn(flash)
    /\ pc \in {"init", "mark", "set", "append", "delete", "recover", "readd"} => Synced
    /\ pc \in {"idle", "check"} /\ Passes => mem = flash[active]
    /\ pc \in {"erase", "eraseBody"} /\ Sound(flash[active]) => Dead(flash[active])
    /\ pc \in {"fixErase", "fixHeader"} =>
         caller = "repair" /\ mem.state = BuildState \cup {"MARKED_FOR_UPDATE"}
    /\ pc \in {"erase", "eraseBody", "header"} => mem.state = HeaderState
    /\ pc \in {"copy", "endOld", "endNew"} => mem = flash[active] /\ mem.state = HeaderState
    /\ pc = "endNew" => Dead(flash[Other(active)])

\* The names of VALID_STATE_FLAGS apart, and the two banks.
LEMMA Bits ==
  /\ {HeaderState, BuildState, NewAreaBits, OldAreaBits} \subseteq SUBSET VALID_STATE_FLAGS
  /\ "DATA_VALID" \notin HeaderState /\ "DELETED" \notin HeaderState
  /\ "DELETED" \notin NewAreaBits /\ "DELETED" \in OldAreaBits /\ "DATA_VALID" \in NewAreaBits
  /\ "DELETED" \notin BuildState /\ {"MARKED_FOR_UPDATE"} \subseteq VALID_STATE_FLAGS
  /\ HEADER_INVALID \cap VALID_STATE_FLAGS = {}
  /\ \A b \in Bank : Other(b) \in Bank /\ Other(b) # b /\ Other(Other(b)) = b
  /\ \A b, c \in Bank : c = b \/ c = Other(b)
  BY DEF HeaderState, BuildState, NewAreaBits, OldAreaBits, VALID_STATE_FLAGS, HEADER_INVALID,
     Bank, Other

\* StoreValid of the state of an area.
LEMMA SoundIsValid ==
  ASSUME NEW area \in Area
  PROVE  /\ StoreValid(GetNvramFfsFileState(area)) <=> Sound(area)
         /\ Sound(area) => GetNvramFfsFileState(area) = area.state
         /\ "DATA_VALID" \in GetNvramFfsFileState(area) <=> Sound(area)
         /\ GetNvramFfsFileState(area) = HEADER_INVALID => ~Sound(area)
  BY DEF StoreValid, GetNvramFfsFileState, Sound, Area, HEADER_INVALID, VALID_STATE_FLAGS

LEMMA Areas ==
  ASSUME TypeOK
  PROVE  /\ mem \in Area /\ active \in Bank /\ flash \in [Bank -> Area] /\ temp \in Contents
         /\ \A b \in Bank : flash[b] \in Area /\ (Valid(b) <=> Sound(flash[b]))
         /\ \A b \in Bank : Sound(flash[b]) => State(b) = flash[b].state
<1>1. \A b \in Bank : flash[b] \in Area
  BY DEF TypeOK
<1>2. QED
  BY <1>1, SoundIsValid DEF TypeOK, Valid, State

\* Whichever of the areas is called main, the preferred one is selected.
LEMMA Chosen ==
  ASSUME TypeOK, NoTieIn(flash), NEW b \in Bank
  PROVE  /\ Selected(b) \in Bank
         /\ Valid(Selected(b)) => Preferred(Selected(b))
         /\ ~Valid(Selected(b)) => ~Sound(flash[0]) /\ ~Sound(flash[1])
         /\ \A c \in Bank : Preferred(c) => Selected(b) = c
<1>1. \A c \in Bank : flash[c] \in Area /\ (Valid(c) <=> Sound(flash[c]))
                      /\ (Sound(flash[c]) => State(c) = flash[c].state)
  BY Areas
<1>2. /\ Other(b) \in Bank /\ Other(Other(b)) = b /\ Other(b) # b
      /\ \A c \in Bank : c = b \/ c = Other(b)
  BY Bits
<1>3. Sound(flash[b]) /\ Sound(flash[Other(b)]) =>
        (Dead(flash[b]) <=> ~Dead(flash[Other(b)]))
  BY DEF NoTieIn, Bank, Other
<1>4. Selected(b) = IF UseBackup(State(b), State(Other(b))) THEN Other(b) ELSE b
  BY DEF Selected
<1>5. UseBackup(State(b), State(Other(b))) <=>
        Sound(flash[Other(b)]) /\ (Sound(flash[b]) => Dead(flash[b]))
  BY <1>1, <1>2, <1>3 DEF UseBackup, CheckNvramStoreState, Valid, Dead
<1>6. /\ Valid(Selected(b)) => Preferred(Selected(b))
      /\ \A c \in Bank : Preferred(c) => Selected(b) = c
  BY <1>1, <1>2, <1>3, <1>4, <1>5 DEF Preferred
<1>7. ~Valid(Selected(b)) => ~Sound(flash[b]) /\ ~Sound(flash[Other(b)])
  BY <1>1, <1>2, <1>3, <1>4, <1>5
<1>8. b \in {0, 1} /\ Other(b) \in {0, 1} /\ Other(b) # b
  BY <1>2 DEF Bank
<1>9. QED
  BY <1>2, <1>4, <1>6, <1>7, <1>8

\* What CheckStore has found when it goes on.
LEMMA Passed ==
  ASSUME TypeOK, NoTieIn(flash), Passes
  PROVE  Sound(mem) /\ mem.state = flash[active].state /\ Preferred(active)
<1>1. mem \in Area /\ active \in Bank /\ Other(active) \in Bank /\ flash[active] \in Area
      /\ flash[Other(active)] \in Area
  BY Areas, Bits
<1>2. /\ Sound(mem) /\ GetNvramFfsFileState(mem) = mem.state
      /\ State(active) = mem.state /\ "DATA_VALID" \in State(active)
      /\ State(Other(active)) = HEADER_INVALID
           \/ CheckNvramStoreState(State(active), State(Other(active)))
  BY <1>1, SoundIsValid DEF Passes, HybridInterfaceCheckStore
<1>3. Sound(flash[active]) /\ State(active) = flash[active].state
  BY <1>1, <1>2, SoundIsValid DEF State
<1>4. Sound(flash[Other(active)]) =>
         Dead(flash[Other(active)]) \/ ~Dead(flash[active])
  BY <1>1, <1>2, <1>3, SoundIsValid DEF State, CheckNvramStoreState, Dead
<1>5. Sound(flash[active]) /\ Sound(flash[Other(active)]) =>
        (Dead(flash[active]) <=> ~Dead(flash[Other(active)]))
  BY <1>1 DEF NoTieIn, Bank, Other
<1>6. QED
  BY <1>2, <1>3, <1>4, <1>5 DEF Preferred

LEMMA PassedEver ==
  TypeOK /\ NoTieIn(flash) /\ Passes =>
    Sound(mem) /\ mem.state = flash[active].state /\ Preferred(active)
  BY Passed

LEMMA PassedNext ==
  (TypeOK /\ NoTieIn(flash) /\ Passes =>
     Sound(mem) /\ mem.state = flash[active].state /\ Preferred(active))'
  BY PassedEver, PTL

---------------------------------------------------------------------------
\* What the operations leave.

\* Of the two areas a guarded operation works on.
LEMMA Guarded ==
  ASSUME TypeOK, StoreGuard
  PROVE  /\ pc \in {"erase", "eraseBody"} /\ Sound(flash[active]) => Sound(flash[Other(active)])
         /\ pc \in {"header", "fixErase", "fixHeader"} => ~Sound(flash[active])
         /\ pc \in {"fixErase", "fixHeader"} => ~Sound(flash[Other(active)])
         /\ pc \in GcSteps \cup RepairSteps => mem.hdr
         /\ pc \in {"copy", "endOld", "endNew"} => flash[active].hdr
  BY Areas, Bits DEF StoreGuard

\* A step that leaves the headers alone.
SameHeaders(f) == \A b \in Bank : f[b].hdr = flash[b].hdr /\ f[b].state = flash[b].state

LEMMA HeadersKept ==
  ASSUME TypeOK, NoTieIn(flash), NEW f \in [Bank -> Area], SameHeaders(f)
  PROVE  /\ NoTieIn(f)
         /\ \A b \in Bank : Sound(f[b]) = Sound(flash[b]) /\ Dead(f[b]) = Dead(flash[b])
  BY DEF SameHeaders, NoTieIn, Sound, Dead, Bank

\* What an operation that is interrupted, or fails, may do to the two areas.
LEMMA PartialHeaders ==
  ASSUME TypeOK, NEW f \in Partial
  PROVE  /\ pc \in {"append", "readd", "copy", "delete"} => SameHeaders(f)
         /\ pc \in {"off", "failed", "init", "idle", "check", "set", "recover"} => f = flash
         /\ pc \in {"erase", "eraseBody", "fixErase", "header", "fixHeader"} =>
              /\ f[Other(active)] = flash[Other(active)]
              /\ pc # "fixHeader" => f[active] = flash[active] \/ ~Sound(f[active])
         /\ pc = "mark" => \E s \in SUBSET VALID_STATE_FLAGS : s \subseteq {"MARKED_FOR_UPDATE"} /\ f = AddBits(active, s)
         /\ pc = "endOld" => \E s \in SUBSET VALID_STATE_FLAGS : s \subseteq OldAreaBits /\ f = AddBits(Other(active), s)
         /\ pc = "endNew" => \E s \in SUBSET VALID_STATE_FLAGS : s \subseteq NewAreaBits /\ f = AddBits(active, s)
<1>1. active \in Bank /\ Other(active) \in Bank /\ Other(active) # active
      /\ flash \in [Bank -> Area] /\ flash[active] \in Area
  BY Areas, Bits
<1>2. CASE pc \in {"append", "readd", "copy", "delete"}
  <2>1. SameHeaders(f)
    BY <1>2, RecordsKeepHeaders DEF Partial, SameHeaders
  <2>2. QED
    BY <1>2, <2>1
<1>3. CASE pc \in {"off", "failed", "init", "idle", "check", "set", "recover"}
  BY <1>3 DEF Partial
<1>4. CASE pc \in {"erase", "eraseBody", "fixErase"}
  <2>1. f = flash \/ (f[Other(active)] = flash[Other(active)] /\ ~f[active].hdr)
    BY <1>1, <1>4 DEF Partial, Area, Erased
  <2>2. QED
    BY <1>4, <2>1 DEF Sound
<1>5. CASE pc = "header"
  <2>1. f = flash \/ \E s \in SUBSET HeaderState : f = [flash EXCEPT ![active] = FormattedArea(s)]
    BY <1>5 DEF Partial
  <2>2. \A s \in SUBSET HeaderState : ~Sound(FormattedArea(s))
    BY Bits DEF Sound, FormattedArea, Erased
  <2>3. QED
    BY <1>1, <1>5, <2>1, <2>2
<1>6. CASE pc = "fixHeader"
  <2>1. f[Other(active)] = flash[Other(active)]
    BY <1>1, <1>6 DEF Partial
  <2>2. QED
    BY <1>6, <2>1
<1>7. CASE pc = "mark"
  <2>1. flash = AddBits(active, {})
    BY <1>1 DEF AddBits, Area
  <2>2. f = flash \/ f = AddBits(active, {"MARKED_FOR_UPDATE"})
    BY <1>7 DEF Partial
  <2>3. QED
    BY <1>7, <2>1, <2>2, Bits
<1>8. CASE pc = "endOld"
  BY <1>8, Bits DEF Partial
<1>9. CASE pc = "endNew"
  BY <1>9, Bits DEF Partial
<1>10. QED
  BY <1>2, <1>3, <1>4, <1>5, <1>6, <1>7, <1>8, <1>9 DEF TypeOK, Steps, GcSteps, RepairSteps

\* What programming bits does to an area.
LEMMA AddedBits ==
  ASSUME TypeOK, NEW b \in Bank, NEW bits \in SUBSET VALID_STATE_FLAGS
  PROVE  /\ \A c \in Bank : c # b => AddBits(b, bits)[c] = flash[c]
         /\ AddBits(b, bits)[b].hdr = flash[b].hdr
         /\ AddBits(b, bits)[b].state = flash[b].state \cup bits
         /\ AddBits(b, bits)[b].vars = flash[b].vars
  BY Areas, Bits DEF AddBits, Area

LEMMA AddedToArea ==
  ASSUME TypeOK, NEW b \in Bank, NEW bits \in SUBSET VALID_STATE_FLAGS
  PROVE  AddBits(b, bits)[b] = [flash[b] EXCEPT !.state = flash[b].state \cup bits]
  BY Areas, Bits DEF AddBits, Area

\* No interrupted operation makes the choice of an area depend on their order.
LEMMA PartialNoTie ==
  ASSUME TypeOK, StoreGuard, Journal, NEW f \in Partial
  PROVE  NoTieIn(f)
<1>1. active \in Bank /\ Other(active) \in Bank /\ f \in [Bank -> Area] /\ NoTieIn(flash)
      /\ active # Other(active)
  BY Areas, Bits, PartialType DEF Journal
<1>2. SUFFICES ASSUME Sound(f[active]), Sound(f[Other(active)])
               PROVE  Dead(f[active]) <=> ~Dead(f[Other(active)])
  BY <1>1 DEF NoTieIn, Bank, Other
<1>3. Sound(flash[active]) /\ Sound(flash[Other(active)]) =>
        (Dead(flash[active]) <=> ~Dead(flash[Other(active)]))
  BY <1>1 DEF NoTieIn, Bank, Other
<1>4. CASE pc \in {"append", "readd", "copy", "delete"}
  BY <1>1, <1>2, <1>4, PartialHeaders, HeadersKept DEF NoTieIn, Bank, Other
<1>5. CASE pc \in {"off", "failed", "init", "idle", "check", "set", "recover"}
  BY <1>2, <1>3, <1>5, PartialHeaders
<1>6. CASE pc \in {"erase", "eraseBody", "fixErase", "header", "fixHeader"}
  BY <1>2, <1>3, <1>6, PartialHeaders, Guarded
<1>7. CASE pc = "mark"
  <2>1. PICK s \in SUBSET VALID_STATE_FLAGS : s \subseteq {"MARKED_FOR_UPDATE"} /\ f = AddBits(active, s)
    BY <1>7, PartialHeaders
  <2>2. /\ f[active].hdr = flash[active].hdr /\ f[active].state = flash[active].state \cup s
        /\ f[Other(active)] = flash[Other(active)]
    <3>1. /\ AddBits(active, s)[active].hdr = flash[active].hdr
          /\ AddBits(active, s)[active].state = flash[active].state \cup s
          /\ AddBits(active, s)[Other(active)] = flash[Other(active)]
      BY <1>1, AddedBits
    <3>2. QED
      BY <2>1, <3>1
  <2>3. "DELETED" \notin s /\ "DATA_VALID" \notin s
    BY <2>1
  <2>4. QED
    BY <1>2, <1>3, <2>2, <2>3 DEF Sound, Dead
<1>8. CASE pc = "endOld"
  <2>1. PICK s \in SUBSET VALID_STATE_FLAGS : s \subseteq OldAreaBits /\ f = AddBits(Other(active), s)
    BY <1>8, PartialHeaders
  <2>2. PICK o \in Bank : o = Other(active)
    BY <1>1
  <2>3. f[active] = flash[active]
    BY <1>1, <2>1, <2>2, AddedBits
  <2>4. flash[active].state = HeaderState
    BY <1>8 DEF Journal
  <2>5. QED
    BY <1>2, <2>3, <2>4, Bits DEF Sound
<1>9. CASE pc = "endNew"
  <2>1. PICK s \in SUBSET VALID_STATE_FLAGS : s \subseteq NewAreaBits /\ f = AddBits(active, s)
    BY <1>9, PartialHeaders
  <2>2. f[Other(active)] = flash[Other(active)] /\ f[active].state = flash[active].state \cup s
    <3>1. /\ AddBits(active, s)[active].state = flash[active].state \cup s
          /\ AddBits(active, s)[Other(active)] = flash[Other(active)]
      BY <1>1, AddedBits
    <3>2. QED
      BY <2>1, <3>1
  <2>3. flash[active].state = HeaderState /\ Dead(flash[Other(active)])
    BY <1>9 DEF Journal
  <2>4. "DELETED" \notin flash[active].state /\ "DELETED" \notin s
    BY <2>1, <2>3, Bits
  <2>5. QED
    BY <2>2, <2>3, <2>4 DEF Dead
<1>10. QED
  BY <1>4, <1>5, <1>6, <1>7, <1>8, <1>9 DEF TypeOK, Steps, GcSteps, RepairSteps

---------------------------------------------------------------------------
\* Where the steps that are no flash operation leave the driver.

\* The driver has a mirror of the area a boot would take.
LEMMA AtWork ==
  ASSUME NoTieIn(flash'), mem' = flash'[active'], Preferred(active)',
         pc' \in {"init", "mark", "set", "append", "delete", "recover", "readd",
                  "idle", "check", "failed", "off"}
  PROVE  Journal'
  BY DEF Journal, Synced

\* Between two calls any mirror will do that CheckStore does not take for the area.
LEMMA BetweenCalls ==
  ASSUME TypeOK', NoTieIn(flash'), pc' \in {"idle", "check", "failed", "off"},
         Sound(mem') /\ mem'.state = flash'[active'].state /\ Preferred(active)' =>
           mem' = flash'[active']
  PROVE  Journal'
<1>1. Passes' => mem' = flash'[active']
  BY PassedNext
<1>2. QED
  BY <1>1 DEF Journal

\* A garbage collection erases an area that is no store, or one that is DELETED.
LEMMA BeginJournal ==
  ASSUME NEW b \in Bank, NEW buffer \in Area, NEW content, NEW who,
         BeginGarbageCollection(b, buffer, content, who), NoTieIn(flash'),
         \/ buffer.hdr /\ (Sound(flash'[Other(b)]) => Dead(flash'[Other(b)]))
         \/ who = "repair" /\ ~Sound(flash'[0]) /\ ~Sound(flash'[1])
  PROVE  Journal'
<1>1. CASE buffer.hdr
  <2>1. active' = Other(b) /\ pc' = "erase" /\ mem'.state = HeaderState
    BY <1>1 DEF BeginGarbageCollection, Area
  <2>2. Sound(flash'[active']) => Dead(flash'[active'])
    BY <2>1 DEF Bank, Other
  <2>3. QED
    BY <2>1, <2>2 DEF Journal
<1>2. CASE ~buffer.hdr
  <2>1. pc' = "fixErase" /\ caller' = "repair" /\ mem'.state = BuildState \cup {"MARKED_FOR_UPDATE"}
    BY <1>2 DEF BeginGarbageCollection, Area
  <2>2. QED
    BY <2>1 DEF Journal
<1>3. QED
  BY <1>1, <1>2

\* Reinitialize finds the area a boot would take, or none and repairs.
LEMMA ReinitializeJournal ==
  ASSUME TypeOK, NoTieIn(flash), NEW b \in Bank, NEW content,
         HybridInterfaceReinitialize(b, content), flash' = flash
  PROVE  Journal'
<1>1. Selected(b) \in Bank /\ flash[Selected(b)] \in Area
  BY Chosen, Areas
<1>2. CASE Valid(Selected(b))
  <2>1. /\ active' = Selected(b) /\ mem' = flash'[active']
        /\ pc' \in {"mark", "init", "readd"}
    BY <1>2 DEF HybridInterfaceReinitialize
  <2>2. Preferred(Selected(b))
    BY <1>2, Chosen
  <2>3. Preferred(active)'
    BY <2>1, <2>2 DEF Preferred
  <2>4. QED
    BY <2>1, <2>3, AtWork
<1>3. CASE ~Valid(Selected(b))
  <2>1. BeginGarbageCollection(Selected(b), flash[Selected(b)], content, "repair")
    BY <1>3 DEF HybridInterfaceReinitialize
  <2>2. ~Sound(flash'[0]) /\ ~Sound(flash'[1])
    BY <1>3, Chosen
  <2>3. QED
    BY <1>1, <2>1, <2>2, BeginJournal
<1>4. QED
  BY <1>2, <1>3

\* After a failure: the mirror has the header and the state it was given.
LEMMA FailedBuffer ==
  ASSUME TypeOK, NEW buffer \in Area, NEW kept \in BOOLEAN, UpdateFailed(buffer, kept)
  PROVE  /\ mem'.hdr = buffer.hdr /\ mem'.state = buffer.state
         /\ Sound(mem') <=> Sound(buffer)
         /\ caller # "set" \/ kept => mem' = buffer
         /\ pc' \in {"idle", "check", "failed", "off"}
<1>1. \A m \in Flip(buffer) : m.hdr = buffer.hdr /\ m.state = buffer.state
  BY DEF Flip, Area
<1>2. /\ mem' \in Flip(buffer) \/ mem' = buffer
      /\ caller # "set" \/ kept => mem' = buffer
      /\ pc' \in {"idle", "check", "failed", "off"}
  BY FailedSteps DEF UpdateFailed
<1>3. QED
  BY <1>1, <1>2 DEF Sound

---------------------------------------------------------------------------
\* A flash operation fails.

\* The erase is the one that may leave a mirror of the area being erased.
LEMMA EraseFailsJournal ==
  ASSUME TypeOK, TypeOK', StoreGuard, Journal, EraseFails
  PROVE  Journal'
<1>1. flash' \in Partial /\ NoTieIn(flash')
  BY PartialNoTie DEF EraseFails, Fault
<1>2. active \in Bank /\ Other(active) \in Bank /\ Other(Other(active)) = active
      /\ flash'[active] \in Area
  BY Areas, Bits, PartialType, <1>1
<1>3. /\ flash'[Other(active)] = flash[Other(active)]
      /\ flash'[active] = flash[active] \/ ~Sound(flash'[active])
  BY <1>1, PartialHeaders DEF EraseFails
<1>4. UpdateFailed(flash'[active], FALSE)
  BY DEF EraseFails
<1>5. /\ mem'.state = flash'[active].state /\ (Sound(mem') <=> Sound(flash'[active]))
      /\ caller # "set" => mem' = flash'[active]
      /\ pc' \in {"idle", "check", "failed", "off"}
  BY <1>2, <1>4, FailedBuffer
<1>6. Sound(flash'[active]) =>
        /\ Sound(flash'[Other(active)]) /\ Dead(flash'[active]) /\ ~Dead(flash'[Other(active)])
  <2>1. HAVE Sound(flash'[active])
  <2>2. flash'[active] = flash[active]
    BY <1>3, <2>1
  <2>3. pc \in {"erase", "eraseBody"} /\ Sound(flash[Other(active)])
    BY <2>1, <2>2, Guarded DEF EraseFails
  <2>4. Dead(flash[active])
    BY <2>1, <2>2, <2>3 DEF Journal
  <2>5. ~Dead(flash[Other(active)])
    BY <1>2, <2>1, <2>2, <2>3, <2>4 DEF Journal, NoTieIn, Bank, Other
  <2>6. QED
    BY <1>3, <2>2, <2>3, <2>4, <2>5
<1>7. ~(Sound(mem') /\ mem'.state = flash'[active'].state /\ Preferred(active)')
  <2>1. SUFFICES ASSUME Sound(mem'), mem'.state = flash'[active'].state, Preferred(active)'
                 PROVE  FALSE
    OBVIOUS
  <2>2. Sound(flash'[active])
    BY <1>5, <2>1
  <2>3. CASE active' = active
    <3>1. ~Dead(flash'[active])
      BY <1>6, <2>1, <2>2, <2>3 DEF Preferred
    <3>2. QED
      BY <1>6, <2>2, <3>1
  <2>4. CASE active' = Other(active)
    BY <1>5, <1>6, <2>1, <2>2, <2>4 DEF Dead
  <2>5. QED
    BY <2>3, <2>4 DEF EraseFails
<1>8. QED
  BY <1>1, <1>5, <1>7, BetweenCalls

LEMMA HeaderFailsJournal ==
  ASSUME TypeOK, TypeOK', StoreGuard, Journal, HeaderFails
  PROVE  Journal'
<1>1. flash' \in Partial /\ NoTieIn(flash')
  BY PartialNoTie DEF HeaderFails, Fault
<1>2. active \in Bank /\ Other(active) \in Bank /\ mem \in Area /\ flash'[active] \in Area
  BY Areas, Bits, PartialType, <1>1
<1>3. /\ flash'[Other(active)] = flash[Other(active)]
      /\ pc = "header" => flash'[active] = flash[active] \/ ~Sound(flash'[active])
  BY <1>1, PartialHeaders DEF HeaderFails
<1>4. /\ [mem EXCEPT !.hdr = flash'[active].hdr, !.state = flash'[active].state] \in Area
      /\ [mem EXCEPT !.hdr = flash'[active].hdr, !.state = flash'[active].state].hdr
           = flash'[active].hdr
  BY <1>2 DEF Area
<1>5. mem'.hdr = flash'[active].hdr /\ pc' \in {"idle", "check", "failed", "off"}
      /\ mem'.state = flash'[active].state
  <2>1. [mem EXCEPT !.hdr = flash'[active].hdr, !.state = flash'[active].state].state
           = flash'[active].state
    BY <1>2 DEF Area
  <2>2. UpdateFailed([mem EXCEPT !.hdr = flash'[active].hdr,
                                 !.state = flash'[active].state], TRUE)
    BY DEF HeaderFails
  <2>3. QED
    BY <1>4, <2>1, <2>2, FailedBuffer
<1>6. CASE pc = "header"
  <2>1. ~Sound(mem')
    BY <1>3, <1>5, <1>6, Guarded DEF Sound
  <2>2. QED
    BY <1>1, <1>5, <2>1, BetweenCalls
<1>7. CASE pc = "fixHeader"
  <2>1. active' = Other(active)
    BY <1>7 DEF HeaderFails, Journal
  <2>2. ~Sound(flash'[active'])
    BY <1>3, <1>7, <2>1, Guarded
  <2>3. ~Preferred(active)'
    BY <2>2 DEF Preferred
  <2>4. QED
    BY <1>1, <1>5, <2>3, BetweenCalls
<1>8. QED
  BY <1>6, <1>7 DEF HeaderFails

LEMMA CopyFailsJournal ==
  ASSUME TypeOK, TypeOK', StoreGuard, Journal, CopyFails
  PROVE  Journal'
<1>1. pc = "copy" /\ (flash' \in Partial \/ flash' = flash)
  BY DEF CopyFails, Fault
<1>2. NoTieIn(flash')
  BY <1>1, PartialNoTie DEF Journal
<1>3. SameHeaders(flash')
  BY <1>1, PartialHeaders DEF SameHeaders
<1>4. active \in Bank /\ flash'[active] \in Area
  BY Areas, PartialType, <1>1
<1>5. flash'[active].state = HeaderState
  BY <1>1, <1>3, <1>4 DEF Journal, SameHeaders
<1>6. UpdateFailed(flash'[active], FALSE)
  BY DEF CopyFails
<1>7. (Sound(mem') <=> Sound(flash'[active])) /\ pc' \in {"idle", "check", "failed", "off"}
  BY <1>4, <1>6, FailedBuffer
<1>8. ~Sound(mem')
  BY <1>5, <1>7, Bits DEF Sound
<1>9. QED
  BY <1>2, <1>7, <1>8, BetweenCalls

\* A mirror of which only the state byte is read again.
LEMMA StateReadAgain ==
  ASSUME TypeOK, mem = flash[active], NEW s \in SUBSET VALID_STATE_FLAGS,
         NEW f, f = AddBits(active, s)
  PROVE  [mem EXCEPT !.state = f[active].state] = f[active]
<1>1. AddBits(active, s)[active] = [flash[active] EXCEPT !.state = flash[active].state \cup s]
  BY Areas, AddedToArea
<1>2. AddBits(active, s)[active].state = flash[active].state \cup s
  BY Areas, AddedBits
<1>3. QED
  BY <1>1, <1>2

LEMMA EndFailsJournal ==
  ASSUME TypeOK, TypeOK', StoreGuard, Journal, EndFails
  PROVE  Journal'
<1>1. flash' \in Partial /\ NoTieIn(flash')
  BY PartialNoTie DEF EndFails, Fault
<1>2. active \in Bank /\ Other(active) \in Bank /\ Other(active) # active /\ mem \in Area
      /\ flash'[active] \in Area
  BY Areas, Bits, PartialType, <1>1
<1>3. [mem EXCEPT !.state = flash'[active].state] \in Area
      /\ [mem EXCEPT !.state = flash'[active].state].state = flash'[active].state
  BY <1>2 DEF Area
<1>4. UpdateFailed([mem EXCEPT !.state = flash'[active].state], FALSE)
  BY DEF EndFails
<1>5. /\ mem'.state = flash'[active].state
      /\ caller # "set" => mem' = [mem EXCEPT !.state = flash'[active].state]
      /\ pc' \in {"idle", "check", "failed", "off"}
  BY <1>3, <1>4, FailedBuffer
<1>6. CASE pc = "endOld"
  <2>1. PICK s \in SUBSET VALID_STATE_FLAGS : flash' = AddBits(Other(active), s)
    BY <1>1, <1>6, PartialHeaders
  <2>2. AddBits(Other(active), s)[active] = flash[active]
    BY <1>2, AddedBits
  <2>3. flash[active].state = HeaderState
    BY <1>6 DEF Journal
  <2>4. ~Sound(mem')
    BY <1>5, <2>1, <2>2, <2>3, Bits DEF Sound
  <2>5. QED
    BY <1>1, <1>5, <2>4, BetweenCalls
<1>7. CASE pc = "endNew"
  <2>1. PICK s \in SUBSET VALID_STATE_FLAGS : s \subseteq NewAreaBits /\ flash' = AddBits(active, s)
    BY <1>1, <1>7, PartialHeaders
  <2>2. CASE caller = "repair"
    <3>1. mem' = flash'[active]
      BY <1>5, <1>7, <2>1, <2>2, StateReadAgain DEF Journal
    <3>2. QED
      BY <1>1, <1>5, <2>2, <3>1, BetweenCalls DEF EndFails
  <2>3. CASE caller # "repair"
    <3>1. AddBits(active, s)[Other(active)] = flash[Other(active)]
          /\ AddBits(active, s)[active].state = flash[active].state \cup s
      BY <1>2, AddedBits
    <3>2. flash[active].state = HeaderState /\ Dead(flash[Other(active)])
      BY <1>7 DEF Journal
    <3>3. "DELETED" \notin mem'.state
      BY <1>5, <2>1, <3>1, <3>2, Bits
    <3>4. active' = Other(active)
      BY <2>3 DEF EndFails
    <3>5. "DELETED" \in flash'[active'].state
      BY <2>1, <3>1, <3>2, <3>4 DEF Dead
    <3>6. QED
      BY <1>1, <1>5, <3>3, <3>5, BetweenCalls
  <2>4. QED
    BY <2>2, <2>3
<1>8. QED
  BY <1>6, <1>7 DEF EndFails

LEMMA RecordFailsJournal ==
  ASSUME TypeOK, TypeOK', StoreGuard, Journal, MarkFails \/ AppendFails \/ DeleteFails
  PROVE  Journal'
<1>1. flash' \in Partial /\ NoTieIn(flash') /\ active' = active
  BY PartialNoTie DEF MarkFails, AppendFails, DeleteFails, Fault
<1>2. Synced
  BY DEF MarkFails, AppendFails, DeleteFails, Journal
<1>3. CASE MarkFails
  <2>1. PICK s \in SUBSET VALID_STATE_FLAGS : flash' = AddBits(active, s)
    BY <1>1, <1>3, PartialHeaders DEF MarkFails
  <2>2. mem' = flash'[active']
    BY <1>1, <1>2, <1>3, <2>1, StateReadAgain DEF MarkFails, Synced
  <2>3. pc' \in {"idle", "failed"}
    BY <1>3, FailedSteps DEF MarkFails
  <2>4. QED
    BY <1>1, <2>2, <2>3, BetweenCalls
<1>4. CASE AppendFails \/ DeleteFails
  <2>1. SameHeaders(flash')
    BY <1>1, <1>4, PartialHeaders DEF AppendFails, DeleteFails
  <2>2. active \in Bank /\ Other(active) \in Bank
    BY Areas, Bits
  <2>3. Preferred(active)'
    BY <1>1, <1>2, <2>1, <2>2 DEF Synced, Preferred, SameHeaders, Sound, Dead
  <2>4. mem' = flash'[active'] /\ pc' \in {"idle", "recover"}
    BY <1>1, <1>4 DEF AppendFails, DeleteFails, Finish
  <2>5. QED
    BY <1>1, <2>3, <2>4, AtWork
<1>5. QED
  BY <1>3, <1>4

---------------------------------------------------------------------------
\* The call in progress.

\* What a SetVariable call has asked for, through error recovery and the garbage
\* collection it starts: the new area ends up with the content of the temporary
\* store, and that one with the call's value.
Calling ==
    /\ pc \in {"check", "set", "append", "delete", "recover", "readd"} => ctx # "boot"
    /\ pc \in GcSteps \cup RepairSteps /\ caller \in {"set", "restore"} => ctx # "boot"
    /\ pc \notin {"idle", "off", "failed"} /\ ctx # "boot" => op.var \in Var
    /\ pc \in {"append", "recover"} => op.val # Absent
    /\ pc \in GcSteps \cup RepairSteps /\ caller = "set" =>
         op.val # Absent /\ temp[op.var] = op.val
    /\ pc = "delete" => op.val = Absent
    /\ pc = "copy" => \A v \in Live(mem.vars) : mem.vars[v] = temp[v]
    /\ pc \in {"endOld", "endNew"} /\ caller # "repair" => mem.vars = temp

LEMMA CallingInit == Init => Calling
  BY DEF Init, Calling, GcSteps, RepairSteps

\* A garbage collection starts.
LEMMA BeginCalling ==
  ASSUME NEW b, NEW buffer, NEW content, NEW who,
         BeginGarbageCollection(b, buffer, content, who),
         who \in {"set", "restore"} => ctx' # "boot", ctx' # "boot" => op'.var \in Var,
         who = "set" => op'.val # Absent /\ content[op'.var] = op'.val
  PROVE  Calling'
<1>1. pc' \in {"erase", "fixErase"} /\ caller' = who /\ temp' = content
  BY DEF BeginGarbageCollection
<1>2. QED
  BY <1>1 DEF Calling, GcSteps, RepairSteps

LEMMA ReinitializeCalling ==
  ASSUME NEW b, NEW content, HybridInterfaceReinitialize(b, content),
         ctx' # "boot" => op.var \in Var
  PROVE  Calling'
<1>1. op' = op
  BY DEF HybridInterfaceReinitialize
<1>2. CASE Valid(Selected(b))
  <2>1. pc' \in {"mark", "init", "readd"} /\ (pc' = "readd" => ctx' # "boot")
    BY <1>2 DEF HybridInterfaceReinitialize
  <2>2. QED
    BY <1>1, <2>1 DEF Calling, GcSteps, RepairSteps
<1>3. CASE ~Valid(Selected(b))
  BY <1>1, <1>3, BeginCalling DEF HybridInterfaceReinitialize
<1>4. QED
  BY <1>2, <1>3

LEMMA CallingStep == TypeOK /\ TypeOK' /\ Calling /\ [Next]_vars => Calling'
<1> SUFFICES ASSUME TypeOK, TypeOK', Calling, [Next]_vars
             PROVE  Calling'
  OBVIOUS
\* A call that returns, or starts over with CheckStore.
<1>1. ASSUME pc' \in {"idle", "off", "failed"}
      PROVE  Calling'
  BY <1>1 DEF Calling, GcSteps, RepairSteps
<1>2. ASSUME pc' = "check", ctx' # "boot", op'.var \in Var
      PROVE  Calling'
  BY <1>2 DEF Calling, GcSteps, RepairSteps
<1>3. ASSUME NEW buffer, NEW kept, UpdateFailed(buffer, kept), pc \in GcSteps \cup RepairSteps
      PROVE  Calling'
  <2>1. CASE caller = "set"
    <3>1. ctx # "boot" /\ op.var \in Var
      BY <1>3, <2>1 DEF Calling, GcSteps, RepairSteps
    <3>2. pc' = "check" /\ ctx' = "final" /\ op' = op
      BY <1>3, <2>1 DEF UpdateFailed
    <3>3. QED
      BY <1>2, <3>1, <3>2
  <2>2. CASE caller # "set"
    BY <1>1, <1>3, <2>2, FailedSteps DEF UpdateFailed
  <2>3. QED
    BY <2>1, <2>2
<1>4. CheckStoreDone /\ op.var \in Var => Calling'
  BY <1>1, <1>2 DEF CheckStoreDone, Finish
<1>5. ReinitializeDone /\ (ctx # "boot" => op.var \in Var) => Calling'
  BY DEF ReinitializeDone, Calling, GcSteps, RepairSteps
<1>6. CASE Boot
  BY <1>6, ReinitializeCalling DEF Boot
<1>7. CASE InitNonVolatileVarStore
  <2>1. (ctx' # "boot" => op'.var \in Var)
    BY <1>7 DEF InitNonVolatileVarStore, Calling
  <2>2. QED
    BY <1>1, <1>7, <2>1, BeginCalling DEF InitNonVolatileVarStore
<1>8. CASE MarkForUpdate
  BY <1>5, <1>8 DEF MarkForUpdate, Calling
<1>9. CASE CheckStore
  <2>1. ctx # "boot" /\ op.var \in Var /\ ctx' = ctx
    BY <1>9 DEF CheckStore, Calling
  <2>2. CASE HybridInterfaceCheckStore = "SUCCESS"
    BY <1>9, <2>1, <2>2 DEF CheckStore, Finish, Calling, GcSteps, RepairSteps
  <2>3. CASE HybridInterfaceCheckStore # "SUCCESS"
    BY <1>9, <2>1, <2>3, ReinitializeCalling DEF CheckStore
  <2>4. QED
    BY <2>2, <2>3
<1>10. CASE RestoreVariable
  BY <1>10 DEF RestoreVariable, Calling, GcSteps, RepairSteps
<1>11. CASE RestoreDone
  BY <1>4, <1>11 DEF RestoreDone, Calling
<1>12. CASE RestoreFails
  <2>1. ctx' # "boot" /\ op'.var \in Var
    BY <1>12 DEF RestoreFails, Calling
  <2>2. QED
    BY <1>12, <2>1, BeginCalling DEF RestoreFails
<1>13. CASE Update
  BY <1>1, <1>13 DEF Update, Finish, Calling, GcSteps, RepairSteps
<1>14. CASE AppendRecord \/ DeleteVariable
  BY <1>1, <1>14 DEF AppendRecord, DeleteVariable, Finish
<1>15. CASE ErrorRecovery
  <2>1. /\ ctx # "boot" /\ op.var \in Var /\ op.val # Absent /\ op' = op
        /\ mem.vars \in Contents
    BY <1>15, Areas DEF ErrorRecovery, Calling, Area
  <2>2. \A c \in Contents : WithNew(c)[op.var] = op.val
    BY <2>1 DEF WithNew, Contents
  <2>3. Rest \in Contents /\ Only(Rest, Persistent) \in Contents
    BY <2>1 DEF Rest, Only, Contents
  <2>4. CASE pc' = "check" /\ ctx' = "final"
    BY <1>2, <2>1, <2>4
  <2>5. ASSUME NEW c \in Contents, BeginGarbageCollection(active, mem, WithNew(c), "set"),
               ctx' = ctx
        PROVE  Calling'
    BY <2>1, <2>2, <2>5, BeginCalling
  <2>6. QED
    BY <1>15, <2>3, <2>4, <2>5 DEF ErrorRecovery
<1>16. CASE FixErase \/ FixHeader \/ EraseHeader \/ EraseBody
  <2>1. /\ pc \in GcSteps \cup RepairSteps
        /\ pc' \in {"fixHeader", "erase", "eraseBody", "header"}
        /\ UNCHANGED <<temp, caller, ctx, op>>
    BY <1>16 DEF FixErase, FixHeader, EraseHeader, EraseBody, GcSteps, RepairSteps
  <2>2. QED
    BY <2>1 DEF Calling, GcSteps, RepairSteps
<1>17. CASE ProgramHeader
  <2>1. Live(mem'.vars) = {}
    BY <1>17 DEF ProgramHeader, FormattedArea, Erased, Empty, Live
  <2>2. QED
    BY <1>17, <2>1 DEF ProgramHeader, Calling, GcSteps, RepairSteps
<1>18. CASE CopyVariable
  <2>1. PICK w \in Live(temp) \ Live(mem.vars) : mem' = Write(mem, w, temp[w])
    BY <1>18 DEF CopyVariable
  <2>2. mem.vars \in Contents /\ w \in Var /\ mem'.vars = [mem.vars EXCEPT ![w] = temp[w]]
    BY <2>1, Areas DEF Write, Area, Live
  <2>3. \A v \in Live(mem'.vars) : mem'.vars[v] = temp[v]
    BY <1>18, <2>2 DEF CopyVariable, Calling, Contents, Live
  <2>4. pc = "copy" /\ pc' = "copy" /\ UNCHANGED <<temp, caller, ctx, op>>
    BY <1>18 DEF CopyVariable
  <2>5. QED
    BY <2>3, <2>4 DEF Calling, GcSteps, RepairSteps
<1>19. CASE CopyDone
  <2>1. mem.vars \in Contents /\ temp \in Contents
    BY Areas DEF Area
  <2>2. \A v \in Var : mem.vars[v] = temp[v]
    BY <1>19, <2>1 DEF CopyDone, Calling, Contents, Live
  <2>3. mem.vars = temp
    BY <2>1, <2>2 DEF Contents
  <2>4. QED
    BY <1>19, <2>3 DEF CopyDone, Calling, GcSteps, RepairSteps
<1>20. CASE EndOldArea
  BY <1>20 DEF EndOldArea, Calling, GcSteps, RepairSteps
<1>21. CASE EndNewArea
  <2>1. /\ caller \in {"set", "restore"} => ctx # "boot"
        /\ ctx # "boot" => op.var \in Var
    BY <1>21 DEF EndNewArea, Calling, GcSteps
  <2>2. QED
    BY <1>1, <1>4, <1>5, <1>21, <2>1 DEF EndNewArea, Finish
<1>22. CASE MarkFails \/ DeleteFails
  BY <1>1, <1>22, FailedSteps DEF MarkFails, DeleteFails
<1>23. CASE AppendFails
  BY <1>1, <1>23 DEF AppendFails, Finish, Calling, GcSteps, RepairSteps
<1>24. CASE EraseFails \/ HeaderFails \/ CopyFails \/ EndFails
  <2>1. pc \in GcSteps \cup RepairSteps
    BY <1>24 DEF EraseFails, HeaderFails, CopyFails, EndFails, GcSteps, RepairSteps
  <2>2. QED
    BY <1>3, <1>24, <2>1 DEF EraseFails, HeaderFails, CopyFails, EndFails
<1>25. CASE DxeSetVariable
  <2>1. PICK v \in Var, d \in Val \cup {Absent} : op' = [var |-> v, val |-> d]
    BY <1>25 DEF DxeSetVariable
  <2>2. QED
    BY <1>2, <1>25, <2>1 DEF DxeSetVariable
<1>26. CASE PowerLoss
  BY <1>1, <1>26 DEF PowerLoss
<1>27. CASE Reflash
  BY <1>1, <1>27 DEF Reflash
<1>28. CASE UNCHANGED vars
  BY <1>28 DEF vars, Calling
<1>29. QED
  BY <1>6, <1>7, <1>8, <1>9, <1>10, <1>11, <1>12, <1>13, <1>14, <1>15, <1>16, <1>17, <1>18,
     <1>19, <1>20, <1>21, <1>22, <1>23, <1>24, <1>25, <1>26, <1>27, <1>28 DEF Next, Driver

---------------------------------------------------------------------------
\* Every step keeps the journal.

\* The end of a garbage collection: the new area is the one a boot takes.
LEMMA NewAreaPreferred ==
  ASSUME TypeOK, StoreGuard, Journal, EndNewArea
  PROVE  NoTieIn(flash') /\ mem' = flash'[active'] /\ Preferred(active)'
<1>1. /\ active \in Bank /\ Other(active) \in Bank /\ Other(active) # active
      /\ flash \in [Bank -> Area] /\ mem \in Area /\ NoTieIn(flash)
  BY Areas, Bits DEF Journal
<1>2. /\ mem = flash[active] /\ mem.state = HeaderState /\ Dead(flash[Other(active)])
      /\ flash[active].hdr /\ pc = "endNew"
  BY Guarded DEF EndNewArea, Journal
<1>3. /\ AddBits(active, NewAreaBits)[Other(active)] = flash[Other(active)]
      /\ AddBits(active, NewAreaBits)[active].hdr = flash[active].hdr
      /\ AddBits(active, NewAreaBits)[active].state = flash[active].state \cup NewAreaBits
  BY <1>1, AddedBits, Bits
<1>4. AddBits(active, NewAreaBits)[active]
        = [flash[active] EXCEPT !.state = flash[active].state \cup NewAreaBits]
  BY <1>1, AddedToArea, Bits
<1>5. flash' = AddBits(active, NewAreaBits) /\ active' = active
      /\ mem' = [mem EXCEPT !.state = mem.state \cup NewAreaBits]
  BY DEF EndNewArea
<1>6. mem' = flash'[active']
  BY <1>2, <1>4, <1>5
<1>7. /\ flash'[Other(active)] = flash[Other(active)] /\ flash'[active].hdr
      /\ flash'[active].state = HeaderState \cup NewAreaBits
  BY <1>2, <1>3, <1>5
<1>8. Preferred(active)' /\ NoTieIn(flash')
  BY <1>1, <1>2, <1>5, <1>7, Bits DEF Preferred, Sound, Dead, NoTieIn, Bank, Other
<1>9. QED
  BY <1>6, <1>8

LEMMA GarbageCollectionJournal ==
  ASSUME TypeOK, TypeOK', StoreGuard, Journal,
         \/ FixErase \/ FixHeader \/ EraseHeader \/ EraseBody \/ ProgramHeader
         \/ CopyVariable \/ CopyDone \/ EndOldArea \/ EndNewArea
  PROVE  Journal'
<1>1. /\ active \in Bank /\ Other(active) \in Bank /\ Other(active) # active
      /\ Other(Other(active)) = active /\ flash \in [Bank -> Area] /\ flash[active] \in Area
      /\ mem \in Area /\ NoTieIn(flash)
  BY Areas, Bits DEF Journal
<1>2. ASSUME NEW f \in [Bank -> Area],
             f[Other(active)] = flash[Other(active)], ~Sound(f[active])
      PROVE  NoTieIn(f)
  BY <1>1, <1>2 DEF NoTieIn, Bank, Other
<1>3. flash' \in [Bank -> Area]
  BY DEF TypeOK
<1>4. ASSUME NEW area \in Area, flash' = [flash EXCEPT ![active] = area], ~Sound(area)
      PROVE  NoTieIn(flash') /\ flash'[active] = area
             /\ flash'[Other(active)] = flash[Other(active)]
  BY <1>1, <1>2, <1>3, <1>4
<1>5. ~Sound(Erased) /\ Erased \in Area
  BY ImageType DEF Sound, Erased
<1>6. CASE FixErase
  BY <1>4, <1>5, <1>6 DEF FixErase, Journal
<1>7. CASE FixHeader
  <2>1. flash'[Other(active)] = flash[Other(active)] /\ ~Sound(flash[Other(active)])
    BY <1>1, <1>7, Guarded DEF FixHeader
  <2>2. NoTieIn(flash')
    BY <1>1, <2>1 DEF NoTieIn, Bank, Other
  <2>3. active' = Other(active) /\ pc' = "erase" /\ mem'.state = HeaderState
    BY <1>1, <1>7 DEF FixHeader, Area
  <2>4. QED
    BY <2>1, <2>2, <2>3 DEF Journal
<1>8. CASE EraseHeader
  <2>1. [flash[active] EXCEPT !.hdr = FALSE, !.state = {}] \in Area
        /\ ~Sound([flash[active] EXCEPT !.hdr = FALSE, !.state = {}])
    BY <1>1 DEF Area, Sound
  <2>2. flash' = [flash EXCEPT ![active] = [flash[active] EXCEPT !.hdr = FALSE, !.state = {}]]
    BY <1>1, <1>8 DEF EraseHeader
  <2>3. NoTieIn(flash') /\ ~Sound(flash'[active])
    BY <1>4, <2>1, <2>2
  <2>4. pc' = "eraseBody" /\ active' = active /\ mem' = mem /\ mem.state = HeaderState
    BY <1>8 DEF EraseHeader, Journal
  <2>5. QED
    BY <2>3, <2>4 DEF Journal
<1>9. CASE EraseBody
  BY <1>4, <1>5, <1>9 DEF EraseBody, Journal
<1>10. CASE ProgramHeader
  <2>1. mem.state = HeaderState /\ FormattedArea(mem.state) \in Area
    BY <1>1, <1>10, AreaOperations DEF ProgramHeader, Journal, Area
  <2>2. ~Sound(FormattedArea(mem.state)) /\ FormattedArea(mem.state).state = HeaderState
    BY <2>1, Bits DEF FormattedArea, Sound, Erased
  <2>3. NoTieIn(flash') /\ flash'[active] = FormattedArea(mem.state)
    BY <1>4, <1>10, <2>1, <2>2 DEF ProgramHeader
  <2>4. pc' \in {"copy", "endOld"} /\ mem' = flash'[active'] /\ mem'.state = HeaderState
    BY <1>10, <2>2, <2>3 DEF ProgramHeader
  <2>5. QED
    BY <2>3, <2>4 DEF Journal
<1>11. CASE CopyVariable
  <2>1. PICK v \in Live(temp) \ Live(mem.vars) :
           flash' = Append(v, temp[v]) /\ mem' = Write(mem, v, temp[v])
    BY <1>11 DEF CopyVariable
  <2>2. flash' = [flash EXCEPT ![active] = Write(flash[active], v, temp[v])]
    BY <2>1 DEF Append
  <2>3. mem = flash[active] /\ mem.state = HeaderState /\ pc' = "copy" /\ active' = active
    BY <1>11 DEF CopyVariable, Journal
  <2>4. Write(mem, v, temp[v]).state = HeaderState
    BY <1>1, <2>3 DEF Write, Area
  <2>5. mem' = flash'[active'] /\ mem'.state = HeaderState
        /\ flash'[Other(active)] = flash[Other(active)]
    BY <1>1, <2>1, <2>2, <2>3, <2>4
  <2>6. NoTieIn(flash')
    BY <1>2, <1>3, <2>3, <2>5, Bits DEF Sound
  <2>7. QED
    BY <2>3, <2>5, <2>6 DEF Journal
<1>12. CASE CopyDone
  BY <1>12 DEF CopyDone, Journal
<1>13. CASE EndOldArea
  <2>1. mem = flash[active] /\ mem.state = HeaderState
    BY <1>13 DEF EndOldArea, Journal
  <2>2. HeaderState \cup OldAreaBits \in SUBSET VALID_STATE_FLAGS
        /\ "DELETED" \in HeaderState \cup OldAreaBits
    BY Bits
  <2>3. /\ AddBits(Other(active), HeaderState \cup OldAreaBits)[active] = flash[active]
        /\ AddBits(Other(active), HeaderState \cup OldAreaBits)[Other(active)].state
             = flash[Other(active)].state \cup (HeaderState \cup OldAreaBits)
    BY <1>1, <2>2, AddedBits
  <2>4. flash' = AddBits(Other(active), HeaderState \cup OldAreaBits)
        /\ pc' = "endNew" /\ active' = active /\ mem' = mem
    BY <1>13, <2>1 DEF EndOldArea
  <2>5. flash'[active] = flash[active] /\ Dead(flash'[Other(active)])
    BY <2>2, <2>3, <2>4 DEF Dead
  <2>6. ~Sound(flash'[active])
    BY <2>1, <2>5, Bits DEF Sound
  <2>7. NoTieIn(flash')
    BY <1>1, <2>6 DEF NoTieIn, Bank, Other
  <2>8. QED
    BY <2>1, <2>4, <2>5, <2>7 DEF Journal
<1>14. CASE EndNewArea
  <2>1. pc' \in {"idle", "check", "init", "readd"}
    BY <1>14 DEF EndNewArea, Finish, CheckStoreDone, ReinitializeDone
  <2>2. QED
    BY <1>14, <2>1, NewAreaPreferred, AtWork
<1>15. QED
  BY <1>6, <1>7, <1>8, <1>9, <1>10, <1>11, <1>12, <1>13, <1>14

\* What is written to the records of the area in use does not move the store.
LEMMA RecordsKeepSynced ==
  ASSUME TypeOK, TypeOK', NoTieIn(flash), Synced, SameHeaders(flash'), active' = active
  PROVE  NoTieIn(flash') /\ Preferred(active)'
<1>1. flash' \in [Bank -> Area] /\ active \in Bank /\ Other(active) \in Bank
  BY Areas, Bits DEF TypeOK
<1>2. QED
  BY <1>1, HeadersKept DEF Synced, Preferred

LEMMA CallsJournal ==
  ASSUME TypeOK, TypeOK', Journal, Calling,
         \/ Boot \/ InitNonVolatileVarStore \/ MarkForUpdate \/ CheckStore \/ RestoreVariable
         \/ RestoreDone \/ RestoreFails \/ Update \/ AppendRecord \/ DeleteVariable
         \/ ErrorRecovery
  PROVE  Journal'
<1>1. /\ active \in Bank /\ Other(active) \in Bank /\ flash \in [Bank -> Area]
      /\ flash[active] \in Area /\ mem \in Area /\ NoTieIn(flash)
  BY Areas, Bits DEF Journal
\* Nothing but the decision of what to do next.
<1>2. ASSUME Synced, UNCHANGED <<flash, active, mem>>,
             pc' \in {"init", "mark", "set", "append", "delete", "recover", "readd",
                      "idle", "check", "failed", "off"}
      PROVE  Journal'
  BY <1>1, <1>2, AtWork DEF Synced, Preferred
\* A garbage collection for the records of the store in use.
<1>3. ASSUME Synced, SameHeaders(flash'), NEW buffer \in Area, buffer.hdr, NEW content, NEW who,
             BeginGarbageCollection(active, buffer, content, who)
      PROVE  Journal'
  <2>1. flash' \in [Bank -> Area]
    BY DEF TypeOK
  <2>2. NoTieIn(flash')
    BY <1>1, <1>3, <2>1, HeadersKept
  <2>3. Sound(flash'[Other(active)]) => Dead(flash'[Other(active)])
    BY <1>1, <1>3, <2>1, HeadersKept DEF Synced, Preferred
  <2>4. QED
    BY <1>1, <1>3, <2>2, <2>3, BeginJournal
<1>4. flash' = flash => SameHeaders(flash')
  BY DEF SameHeaders
\* A record is written to the area and to its mirror.
<1>5. ASSUME Synced, NEW area \in Area, flash' = [flash EXCEPT ![active] = area],
             area.hdr = flash[active].hdr, area.state = flash[active].state,
             mem' = area, active' = active, pc' \in {"readd", "idle"}
      PROVE  Journal'
  <2>1. SameHeaders(flash')
    BY <1>1, <1>5, Bits DEF SameHeaders
  <2>2. NoTieIn(flash') /\ Preferred(active)'
    BY <1>1, <1>5, <2>1, RecordsKeepSynced
  <2>3. QED
    BY <1>1, <1>5, <2>2, AtWork
<1>6. ASSUME Synced, NEW v \in Var, NEW d \in Val \cup {Absent},
             flash' = Append(v, d), mem' = Write(mem, v, d), active' = active,
             pc' \in {"readd", "idle"}
      PROVE  Journal'
  <2>1. Write(flash[active], v, d) \in Area
    BY <1>1, AreaOperations
  <2>2. Write(flash[active], v, d).hdr = flash[active].hdr
        /\ Write(flash[active], v, d).state = flash[active].state
    BY <1>1 DEF Write, Area
  <2>3. QED
    BY <1>5, <1>6, <2>1, <2>2 DEF Append, Synced
<1>7. \A v \in Live(temp) : v \in Var /\ temp[v] \in Val \cup {Absent}
  BY Areas DEF Contents, Live
<1>8. CASE Boot
  <2>1. BootBank \in Bank
    BY <1>1, Chosen DEF BootBank, Bank
  <2>2. QED
    BY <1>1, <1>8, <2>1, ReinitializeJournal DEF Boot
<1>9. CASE InitNonVolatileVarStore
  <2>1. Synced /\ mem.hdr /\ flash' = flash
    BY <1>9 DEF InitNonVolatileVarStore, Journal, Synced, Preferred, Sound
  <2>2. CASE pc' = "idle" /\ UNCHANGED <<active, mem>>
    BY <1>2, <2>1, <2>2
  <2>3. CASE BeginGarbageCollection(active, mem, ResetImage(mem.vars), "reset")
    BY <1>1, <1>3, <1>4, <2>1, <2>3
  <2>4. QED
    BY <1>9, <2>2, <2>3 DEF InitNonVolatileVarStore
<1>10. CASE MarkForUpdate
  <2>1. Synced /\ active' = active /\ pc' \in {"init", "readd"}
        /\ flash' = AddBits(active, {"MARKED_FOR_UPDATE"})
        /\ mem' = [mem EXCEPT !.state = mem.state \cup {"MARKED_FOR_UPDATE"}]
    BY <1>10 DEF MarkForUpdate, Journal, ReinitializeDone
  <2>2. /\ \A c \in Bank : c # active => AddBits(active, {"MARKED_FOR_UPDATE"})[c] = flash[c]
        /\ AddBits(active, {"MARKED_FOR_UPDATE"})[active].hdr = flash[active].hdr
        /\ AddBits(active, {"MARKED_FOR_UPDATE"})[active].state
             = flash[active].state \cup {"MARKED_FOR_UPDATE"}
        /\ AddBits(active, {"MARKED_FOR_UPDATE"})[active]
             = [flash[active] EXCEPT !.state = flash[active].state \cup {"MARKED_FOR_UPDATE"}]
    BY <1>1, AddedBits, AddedToArea, Bits
  <2>3. mem' = flash'[active']
    BY <2>1, <2>2 DEF Synced
  <2>4. \A b \in Bank : /\ Sound(flash'[b]) <=> Sound(flash[b])
                        /\ Dead(flash'[b]) <=> Dead(flash[b])
    BY <1>1, <2>1, <2>2 DEF Sound, Dead
  <2>5. NoTieIn(flash') /\ Preferred(active)'
    BY <1>1, <2>1, <2>4 DEF NoTieIn, Preferred, Synced, Bank, Other
  <2>6. QED
    BY <2>1, <2>3, <2>5, AtWork
<1>11. CASE CheckStore
  <2>1. CASE Passes
    <3>1. Synced
      BY <1>1, <1>11, <2>1, Passed DEF CheckStore, Journal, Synced
    <3>2. pc' \in {"idle", "set"} /\ UNCHANGED <<flash, active, mem>>
      BY <1>11, <2>1 DEF CheckStore, Finish, Passes
    <3>3. QED
      BY <1>2, <3>1, <3>2
  <2>2. CASE ~Passes
    <3>1. HybridInterfaceReinitialize(active, mem.vars) /\ flash' = flash
      BY <1>11, <2>2 DEF CheckStore, Passes
    <3>2. QED
      BY <1>1, <3>1, ReinitializeJournal
  <2>3. QED
    BY <2>1, <2>2
<1>12. CASE RestoreVariable
  <2>1. Synced /\ active' = active /\ pc' = "readd"
    BY <1>12 DEF RestoreVariable, Journal
  <2>2. PICK v \in Missing : flash' = Append(v, temp[v]) /\ mem' = Write(mem, v, temp[v])
    BY <1>12 DEF RestoreVariable
  <2>3. v \in Var /\ temp[v] \in Val \cup {Absent}
    BY <1>7, <2>2 DEF Missing
  <2>4. QED
    BY <1>6, <2>1, <2>2, <2>3
<1>13. CASE RestoreDone
  <2>1. Synced /\ pc' \in {"check", "idle"} /\ UNCHANGED <<flash, active, mem>>
    BY <1>13, FailedSteps DEF RestoreDone, Journal
  <2>2. QED
    BY <1>2, <2>1
<1>14. CASE RestoreFails
  <2>1. pc = "readd" /\ Synced /\ (flash' \in Partial \/ flash' = flash)
        /\ BeginGarbageCollection(active, flash'[active], temp, "restore")
    BY <1>14 DEF RestoreFails, Fault, Journal
  <2>2. SameHeaders(flash')
    BY <1>4, <2>1, PartialHeaders
  <2>3. flash'[active] \in Area /\ flash'[active].hdr
    BY <1>1, <2>1, <2>2 DEF SameHeaders, Synced, Preferred, Sound, TypeOK
  <2>4. QED
    BY <1>3, <2>1, <2>2, <2>3
<1>15. CASE Update
  <2>1. Synced /\ UNCHANGED <<flash, active, mem>>
        /\ pc' \in {"idle", "delete", "append", "recover"}
    BY <1>15 DEF Update, Journal, Finish
  <2>2. QED
    BY <1>2, <2>1
<1>16. CASE AppendRecord
  <2>1. Synced /\ active' = active /\ pc' = "idle"
        /\ flash' = Append(op.var, op.val) /\ mem' = Write(mem, op.var, op.val)
    BY <1>16 DEF AppendRecord, Journal, Finish
  <2>2. op.val \in Val \cup {Absent}
    BY DEF TypeOK, Calls
  <2>3. op.var \in Var
    BY <1>16 DEF AppendRecord, Calling
  <2>4. QED
    BY <1>6, <2>1, <2>2, <2>3
<1>17. CASE DeleteVariable
  <2>1. Synced /\ active' = active /\ pc' = "idle"
        /\ flash' = [flash EXCEPT ![active].vars[op.var] = Absent]
        /\ mem' = [mem EXCEPT !.vars[op.var] = Absent]
    BY <1>17 DEF DeleteVariable, Journal, Finish
  <2>2. [flash[active] EXCEPT !.vars[op.var] = Absent] \in Area
    BY <1>1 DEF Area, Contents
  <2>3. /\ [flash[active] EXCEPT !.vars[op.var] = Absent].hdr = flash[active].hdr
        /\ [flash[active] EXCEPT !.vars[op.var] = Absent].state = flash[active].state
    BY <1>1 DEF Area
  <2>4. flash' = [flash EXCEPT ![active] = [flash[active] EXCEPT !.vars[op.var] = Absent]]
    BY <1>1, <2>1
  <2>5. mem' = [flash[active] EXCEPT !.vars[op.var] = Absent]
    BY <2>1 DEF Synced
  <2>6. QED
    BY <1>5, <2>1, <2>2, <2>3, <2>4, <2>5
<1>18. CASE ErrorRecovery
  <2>1. Synced /\ mem.hdr /\ flash' = flash
    BY <1>18 DEF ErrorRecovery, Journal, Synced, Preferred, Sound
  <2>2. CASE pc' = "check" /\ UNCHANGED <<active, mem>>
    BY <1>2, <2>1, <2>2
  <2>3. CASE \E content : BeginGarbageCollection(active, mem, content, "set")
    BY <1>1, <1>3, <1>4, <2>1, <2>3
  <2>4. QED
    BY <1>18, <2>2, <2>3 DEF ErrorRecovery
<1>19. QED
  BY <1>8, <1>9, <1>10, <1>11, <1>12, <1>13, <1>14, <1>15, <1>16, <1>17, <1>18

LEMMA JournalInit == Init => Journal
  BY DEF Init, Journal, NoTieIn, Sound, Erased, Bank

LEMMA JournalStep ==
  NotReflashed /\ TypeOK /\ TypeOK' /\ StoreGuard /\ Calling /\ Journal /\ [Next]_vars
    => Journal'
<1> SUFFICES ASSUME NotReflashed, TypeOK, TypeOK', StoreGuard, Calling, Journal, [Next]_vars
             PROVE  Journal'
  OBVIOUS
<1>1. CASE Driver
  BY <1>1, CallsJournal, GarbageCollectionJournal, EraseFailsJournal, HeaderFailsJournal,
     CopyFailsJournal, EndFailsJournal, RecordFailsJournal DEF Driver
<1>2. CASE DxeSetVariable
  <2>1. Passes' <=> Passes
    BY <1>2 DEF DxeSetVariable, Passes, HybridInterfaceCheckStore, State
  <2>2. QED
    BY <1>2, <2>1 DEF DxeSetVariable, Journal
<1>3. CASE PowerLoss
  <2>1. NoTieIn(flash') /\ pc' = "off"
    BY <1>3, PartialNoTie DEF PowerLoss
  <2>2. QED
    BY <2>1 DEF Journal
<1>4. CASE Reflash
  BY <1>4 DEF Reflash, NotReflashed, TypeOK
<1>5. CASE UNCHANGED vars
  <2>1. Passes' <=> Passes
    BY <1>5 DEF vars, Passes, HybridInterfaceCheckStore, State
  <2>2. QED
    BY <1>5, <2>1 DEF vars, Journal, Synced, Preferred
<1>6. QED
  BY <1>1, <1>2, <1>3, <1>4, <1>5 DEF Next

LEMMA CallingCorrect == Spec => []Calling
  BY CallingInit, CallingStep, TypeCorrect, PTL DEF Spec

LEMMA JournalCorrect == NotReflashed => (Spec => []Journal)
<1>1. SUFFICES ASSUME NotReflashed
               PROVE  Spec => []Journal
  OBVIOUS
<1>2. TypeOK /\ TypeOK' /\ StoreGuard /\ Calling /\ Journal /\ [Next]_vars => Journal'
  BY <1>1, JournalStep
<1>3. QED
  BY <1>2, JournalInit, TypeCorrect, GuardCorrect, CallingCorrect, PTL DEF Spec

\* The area the next boot takes does not depend on which of the two PEI, DXE or
\* SMM calls the main one: a garbage collection marks the old area DELETED before
\* the new one becomes valid, and a failed one leaves no second store
\* (EndGarbageCollection, CheckNvramStoreState).
THEOREM SelectionNeverAmbiguous == NotReflashed => (Spec => []SelectionUnambiguous)
<1>1. TypeOK /\ Journal => SelectionUnambiguous
  <2>1. SUFFICES ASSUME TypeOK, NoTieIn(flash), Valid(0), Valid(1)
                 PROVE  UseBackup(State(0), State(1)) <=> ~UseBackup(State(1), State(0))
    BY DEF Journal, SelectionUnambiguous
  <2>2. /\ Sound(flash[0]) /\ Sound(flash[1])
        /\ State(0) = flash[0].state /\ State(1) = flash[1].state
    BY <2>1, Areas DEF Bank
  <2>3. QED
    BY <2>1, <2>2 DEF NoTieIn, Dead, Valid, UseBackup, CheckNvramStoreState
<1>2. QED
  BY <1>1, TypeCorrect, JournalCorrect, PTL

\* The store a boot would find is the area the driver works on.
LEMMA Booted ==
  TypeOK /\ NoTieIn(flash) /\ Preferred(active) =>
    BootBank = active /\ Valid(active) /\ Store = flash[active].vars
<1>1. SUFFICES ASSUME TypeOK, NoTieIn(flash), Preferred(active)
               PROVE  BootBank = active /\ Valid(active) /\ Store = flash[active].vars
  OBVIOUS
<1>2. active \in Bank /\ 0 \in Bank
  BY <1>1, Areas DEF Bank
<1>3. BootBank = active
  BY <1>1, <1>2, Chosen DEF BootBank
<1>4. Valid(active)
  BY <1>1, <1>2, Areas DEF Preferred
<1>5. QED
  BY <1>3, <1>4 DEF Store

LEMMA BootedNext ==
  (TypeOK /\ NoTieIn(flash) /\ Preferred(active) =>
    BootBank = active /\ Valid(active) /\ Store = flash[active].vars)'
  BY Booted, PTL

\* Whatever flash operations have failed before, SetVariable, error recovery and
\* the restoring of variables only go on when the mirror is what the area that
\* the next boot takes contains (CheckStore, RecoverFromFlashUpdateFailure).
THEOREM SyncedWhenever == NotReflashed => (Spec => []SyncedWhenUsed)
<1>1. TypeOK /\ Journal => SyncedWhenUsed
  BY Booted DEF Journal, Synced, SyncedWhenUsed
<1>2. QED
  BY <1>1, TypeCorrect, JournalCorrect, PTL

\* A record that a call writes or deletes, in the area and in its mirror.
LEMMA RecordWritten ==
  ASSUME TypeOK, TypeOK', Calling, Journal, AppendRecord \/ DeleteVariable
  PROVE  /\ op.var \in Var /\ mem'.vars = [mem.vars EXCEPT ![op.var] = op.val]
         /\ mem' = flash'[active'] /\ NoTieIn(flash') /\ Preferred(active)'
         /\ Synced /\ active' = active
<1>1. /\ active \in Bank /\ Other(active) \in Bank /\ flash \in [Bank -> Area]
      /\ flash[active] \in Area /\ mem \in Area /\ NoTieIn(flash)
  BY Areas, Bits DEF Journal
<1>2. CASE AppendRecord
  <2>1. /\ Synced /\ op.var \in Var /\ active' = active
        /\ flash' = [flash EXCEPT ![active] = Write(flash[active], op.var, op.val)]
        /\ mem' = Write(mem, op.var, op.val)
    BY <1>2 DEF AppendRecord, Append, Journal, Calling
  <2>2. /\ Write(mem, op.var, op.val).vars = [mem.vars EXCEPT ![op.var] = op.val]
        /\ Write(mem, op.var, op.val).hdr = mem.hdr
        /\ Write(mem, op.var, op.val).state = mem.state
    BY <1>1 DEF Write, Area
  <2>3. SameHeaders(flash')
    BY <1>1, <2>1, <2>2 DEF SameHeaders, Synced
  <2>4. NoTieIn(flash') /\ Preferred(active)'
    BY <1>1, <2>1, <2>3, RecordsKeepSynced
  <2>5. mem' = flash'[active']
    BY <1>1, <2>1 DEF Synced
  <2>6. QED
    BY <2>1, <2>2, <2>4, <2>5
<1>3. CASE DeleteVariable
  <2>1. /\ Synced /\ op.var \in Var /\ op.val = Absent /\ active' = active
        /\ flash' = [flash EXCEPT ![active].vars[op.var] = Absent]
        /\ mem' = [mem EXCEPT !.vars[op.var] = Absent]
    BY <1>3 DEF DeleteVariable, Journal, Calling
  <2>2. /\ [mem EXCEPT !.vars[op.var] = Absent].vars = [mem.vars EXCEPT ![op.var] = op.val]
        /\ [mem EXCEPT !.vars[op.var] = Absent].hdr = mem.hdr
        /\ [mem EXCEPT !.vars[op.var] = Absent].state = mem.state
    BY <1>1, <2>1 DEF Area
  <2>3. flash' = [flash EXCEPT ![active] = [flash[active] EXCEPT !.vars[op.var] = Absent]]
    BY <1>1, <2>1
  <2>4. SameHeaders(flash')
    BY <1>1, <2>1, <2>2, <2>3 DEF SameHeaders, Synced
  <2>5. NoTieIn(flash') /\ Preferred(active)'
    BY <1>1, <2>1, <2>4, RecordsKeepSynced
  <2>6. mem' = flash'[active']
    BY <1>1, <2>1, <2>3 DEF Synced
  <2>7. QED
    BY <2>1, <2>2, <2>5, <2>6
<1>4. QED
  BY <1>2, <1>3

\* What the call's last step leaves when it returns success.
LEMMA SuccessStep ==
  ASSUME TypeOK, TypeOK', StoreGuard, Calling, Journal, [Next]_vars, NotReflashed,
         op # NoOp, op' = NoOp, result' = "success"
  PROVE  Store'[op.var] = op.val
<1>1. /\ active \in Bank /\ Other(active) \in Bank /\ flash \in [Bank -> Area]
      /\ flash[active] \in Area /\ mem \in Area /\ NoTieIn(flash)
  BY Areas, Bits DEF Journal
<1>2. ASSUME NEW area, mem' = area, mem' = flash'[active'],
             NoTieIn(flash'), Preferred(active)', area.vars[op.var] = op.val
      PROVE  Store'[op.var] = op.val
  BY <1>2, BootedNext
<1>3. CASE Update
  <2>1. Synced /\ UNCHANGED <<flash, active, mem>> /\ mem.vars[op.var] = op.val
    BY <1>3 DEF Update, Finish, Journal
  <2>2. Preferred(active)'
    BY <2>1 DEF Synced, Preferred
  <2>3. QED
    BY <1>1, <1>2, <2>1, <2>2 DEF Synced
<1>4. CASE AppendRecord \/ DeleteVariable
  <2>1. op.var \in Var /\ mem'.vars = [mem.vars EXCEPT ![op.var] = op.val]
        /\ mem' = flash'[active'] /\ NoTieIn(flash') /\ Preferred(active)'
    BY <1>4, RecordWritten
  <2>2. mem'.vars[op.var] = op.val
    BY <1>1, <2>1 DEF Area, Contents
  <2>3. QED
    BY <1>2, <2>1, <2>2
<1>5. CASE EndNewArea
  <2>1. caller = "set" \/ (caller = "restore" /\ CheckStoreDone) \/ op' = op
    BY <1>5 DEF EndNewArea, ReinitializeDone
  <2>2. caller = "set"
    BY <2>1 DEF CheckStoreDone, Finish
  <2>3. mem.vars = temp /\ temp[op.var] = op.val
    BY <1>5, <2>2 DEF EndNewArea, Calling, GcSteps
  <2>4. mem' = [mem EXCEPT !.state = mem.state \cup NewAreaBits]
    BY <1>5 DEF EndNewArea
  <2>5. [mem EXCEPT !.state = mem.state \cup NewAreaBits].vars = mem.vars
    BY <1>1 DEF Area
  <2>6. QED
    BY <1>2, <1>5, <2>3, <2>4, <2>5, NewAreaPreferred
\* The other steps leave the call alone, or end it with an error.
<1>6. CASE \/ Boot \/ InitNonVolatileVarStore \/ MarkForUpdate \/ RestoreVariable \/ RestoreFails
           \/ ErrorRecovery \/ FixErase \/ FixHeader \/ EraseHeader \/ EraseBody
           \/ ProgramHeader \/ CopyVariable \/ CopyDone \/ EndOldArea \/ Reflash
           \/ UNCHANGED vars
  <2>1. op' = op
    BY <1>6 DEF Boot, InitNonVolatileVarStore, MarkForUpdate, RestoreVariable, RestoreFails,
       ErrorRecovery, FixErase, FixHeader, EraseHeader, EraseBody, ProgramHeader, CopyVariable,
       CopyDone, EndOldArea, Reflash, vars, ReinitializeDone, HybridInterfaceReinitialize
  <2>2. QED
    BY <2>1
<1>7. CASE CheckStore \/ RestoreDone \/ MarkFails \/ AppendFails \/ DeleteFails
           \/ EraseFails \/ HeaderFails \/ CopyFails \/ EndFails
  <2>1. op' = op \/ result' = "error"
    BY <1>7 DEF CheckStore, RestoreDone, MarkFails, AppendFails, DeleteFails, EraseFails,
       HeaderFails, CopyFails, EndFails, CheckStoreDone, ReinitializeFailed, UpdateFailed,
       Finish, HybridInterfaceReinitialize
  <2>2. QED
    BY <2>1
<1>8. CASE DxeSetVariable
  <2>1. op'.var \in Var
    BY <1>8 DEF DxeSetVariable
  <2>2. QED
    BY <2>1, BanksAssumption DEF NoOp
<1>9. CASE PowerLoss
  BY <1>9 DEF PowerLoss
<1>10. QED
  BY <1>3, <1>4, <1>5, <1>6, <1>7, <1>8, <1>9 DEF Next, Driver

\* A SetVariable call that returns success is in the flash, where the next boot
\* finds it, after any flash failures and error recovery during the call.
THEOREM SuccessIsInFlash == NotReflashed => (Spec => SuccessIsDurable)
<1>1. SUFFICES ASSUME NotReflashed
               PROVE  Spec => SuccessIsDurable
  OBVIOUS
<1>2. TypeOK /\ TypeOK' /\ StoreGuard /\ Calling /\ Journal /\ [Next]_vars =>
        [op # NoOp /\ op' = NoOp /\ result' = "success" => Store'[op.var] = op.val]_vars
  BY <1>1, SuccessStep
<1>3. QED
  BY <1>2, TypeCorrect, GuardCorrect, CallingCorrect, <1>1, JournalCorrect, PTL
     DEF Spec, SuccessIsDurable

---------------------------------------------------------------------------
\* The rows the two areas go through.

\* Neither area is a store: a part that has no image yet.
Blank == ~Sound(flash[0]) /\ ~Sound(flash[1])

\* A garbage collection leaves an area with a header, which is a store from the
\* moment it is marked; and only the first boot of a blank part works without a
\* store, on the areas in their order.
Repairing ==
    /\ pc \in GcSteps => flash[Other(active)].hdr
    /\ pc = "endNew" => Sound(flash[Other(active)])
    /\ Blank => \/ pc \in {"off", "failed"}
                \/ /\ caller = "repair" /\ ctx = "boot"
                   /\ \/ pc \in RepairSteps /\ active = 0
                      \/ pc \in GcSteps /\ active = 1

LEMMA RepairingInit == Init => Repairing
  BY DEF Init, Repairing, GcSteps, RepairSteps

\* A garbage collection of an area with a header starts, or that of a blank part.
LEMMA BeginRepairing ==
  ASSUME TypeOK, TypeOK', NEW b \in Bank, NEW buffer, NEW content, NEW who,
         BeginGarbageCollection(b, buffer, content, who),
         buffer.hdr => flash'[b].hdr,
         Blank' => b = 0 /\ who = "repair" /\ ctx' = "boot"
  PROVE  Repairing'
<1>1. CASE buffer.hdr
  <2>1. /\ pc' = "erase" /\ active' = Other(b) /\ caller' = who /\ flash'[Other(active')].hdr
    BY <1>1, Bits DEF BeginGarbageCollection
  <2>2. QED
    BY <2>1 DEF Repairing, GcSteps, RepairSteps, Other
<1>2. CASE ~buffer.hdr
  <2>1. pc' = "fixErase" /\ active' = b /\ caller' = who
    BY <1>2 DEF BeginGarbageCollection
  <2>2. QED
    BY <2>1 DEF Repairing, GcSteps, RepairSteps
<1>3. QED
  BY <1>1, <1>2

\* Without a store Reinitialize takes the area its caller calls main.
LEMMA ReinitializeRepairing ==
  ASSUME TypeOK, TypeOK', NoTieIn(flash), NEW b \in Bank, NEW content,
         HybridInterfaceReinitialize(b, content), flash' = flash,
         Blank => b = 0 /\ ctx' = "boot"
  PROVE  Repairing'
<1>1. Selected(b) \in Bank
  BY Chosen
<1>2. CASE Valid(Selected(b))
  <2>1. pc' \in {"mark", "init", "readd"} /\ ~Blank'
    BY <1>1, <1>2, Areas DEF HybridInterfaceReinitialize, Blank, Bank
  <2>2. QED
    BY <2>1 DEF Repairing, GcSteps, RepairSteps
<1>3. CASE ~Valid(Selected(b))
  <2>1. BeginGarbageCollection(Selected(b), flash[Selected(b)], content, "repair")
    BY <1>3 DEF HybridInterfaceReinitialize
  <2>2. ~Valid(b) /\ ~Valid(Other(b))
    BY <1>3, Chosen, Areas, Bits DEF Bank
  <2>3. Selected(b) = b
    BY <2>2 DEF Selected, UseBackup, Valid
  <2>4. Blank' <=> Blank
    BY DEF Blank
  <2>5. QED
    BY <1>1, <2>1, <2>3, <2>4, BeginRepairing
<1>4. QED
  BY <1>2, <1>3

LEMMA RepairingStep ==
  ASSUME NotReflashed, TypeOK, TypeOK', StoreGuard, Journal, Repairing, [Next]_vars
  PROVE  Repairing'
<1>a. /\ active \in Bank /\ Other(active) \in Bank /\ Other(active) # active
      /\ Other(Other(active)) = active /\ 0 \in Bank /\ 1 \in Bank
      /\ flash \in [Bank -> Area] /\ flash' \in [Bank -> Area] /\ mem \in Area
      /\ NoTieIn(flash) /\ \A c \in Bank : c \in {active, Other(active)}
  BY Areas, Bits DEF Journal, TypeOK, Bank
<1>b. Blank' => Blank
  <2>1. Blank <=> ~AnyValid
    BY <1>a, Areas DEF Blank, AnyValid
  <2>2. (Blank <=> ~AnyValid)'
    <3>1. TypeOK => (Blank <=> ~AnyValid)
      BY Areas DEF Blank, AnyValid, Bank
    <3>2. (TypeOK => (Blank <=> ~AnyValid))'
      <4>1. TypeOK' => \A c \in Bank : Valid(c)' <=> Sound(flash'[c])
        BY SoundIsValid DEF TypeOK, Valid, State
      <4>2. QED
        BY <4>1 DEF Blank, AnyValid, Bank
    <3>3. QED
      BY <3>2
  <2>3. QED
    BY <2>1, <2>2, GuardStep
\* Steps that lead out of garbage collection, or to where there is a store.
<1>c. pc' \in {"off", "failed"} => Repairing'
  BY DEF Repairing, GcSteps, RepairSteps
<1>d. ~Blank' /\ pc' \notin GcSteps \cup RepairSteps => Repairing'
  BY DEF Repairing, GcSteps, RepairSteps
<1>e. pc \notin {"off", "failed"} \cup GcSteps \cup RepairSteps => ~Blank /\ ~Blank'
  BY <1>b DEF Repairing
<1>1. CASE Boot
  <2>1. Blank => BootBank = 0
    BY <1>a, Areas DEF Blank, BootBank, Selected, UseBackup, Valid, Other
  <2>2. BootBank \in Bank
    BY <1>a, Chosen DEF BootBank
  <2>3. QED
    BY <1>1, <1>a, <2>1, <2>2, ReinitializeRepairing DEF Boot
<1>2. CASE InitNonVolatileVarStore
  <2>1. ~Blank' /\ flash' = flash /\ mem = flash[active]
    BY <1>2, <1>e DEF InitNonVolatileVarStore, Journal, Synced, GcSteps, RepairSteps
  <2>2. CASE pc' = "idle"
    BY <1>d, <2>1, <2>2 DEF GcSteps, RepairSteps
  <2>3. CASE pc' # "idle"
    <3>1. PICK image, who : BeginGarbageCollection(active, mem, image, who)
      BY <1>2, <2>3 DEF InitNonVolatileVarStore
    <3>2. QED
      BY <1>a, <2>1, <3>1, BeginRepairing
  <2>4. QED
    BY <2>2, <2>3
<1>3. CASE MarkForUpdate \/ RestoreVariable \/ RestoreDone \/ Update \/ AppendRecord
             \/ DeleteVariable \/ MarkFails \/ AppendFails \/ DeleteFails
  <2>1. /\ pc \in {"mark", "readd", "set", "append", "delete"}
        /\ pc' \in {"init", "readd", "idle", "check", "delete", "append", "recover", "failed"}
    BY <1>3, FailedSteps DEF MarkForUpdate, ReinitializeDone, RestoreVariable, RestoreDone, Update,
       AppendRecord, DeleteVariable, MarkFails, AppendFails, DeleteFails
  <2>2. QED
    BY <1>d, <1>e, <2>1 DEF GcSteps, RepairSteps
<1>4. CASE CheckStore
  <2>1. ~Blank /\ ~Blank' /\ flash' = flash
    BY <1>4, <1>e DEF CheckStore, GcSteps, RepairSteps
  <2>2. CASE HybridInterfaceCheckStore = "SUCCESS"
    <3>1. pc' \in {"idle", "set"}
      BY <1>4, <2>2, FailedSteps DEF CheckStore
    <3>2. QED
      BY <1>d, <2>1, <3>1 DEF GcSteps, RepairSteps
  <2>3. CASE HybridInterfaceCheckStore # "SUCCESS"
    BY <1>4, <1>a, <2>1, <2>3, ReinitializeRepairing DEF CheckStore
  <2>4. QED
    BY <2>2, <2>3
<1>5. CASE RestoreFails
  <2>1. BeginGarbageCollection(active, flash'[active], temp, "restore") /\ pc = "readd"
    BY <1>5 DEF RestoreFails
  <2>2. ~Blank'
    BY <1>e, <2>1 DEF GcSteps, RepairSteps
  <2>3. QED
    BY <1>a, <2>1, <2>2, BeginRepairing
<1>6. CASE ErrorRecovery
  <2>1. ~Blank' /\ flash' = flash /\ mem = flash[active]
    BY <1>6, <1>e DEF ErrorRecovery, Journal, Synced, GcSteps, RepairSteps
  <2>2. CASE pc' = "check"
    BY <1>d, <2>1, <2>2 DEF GcSteps, RepairSteps
  <2>3. CASE pc' # "check"
    <3>1. PICK image : BeginGarbageCollection(active, mem, image, "set")
      BY <1>6, <2>3 DEF ErrorRecovery
    <3>2. QED
      BY <1>a, <2>1, <3>1, BeginRepairing
  <2>4. QED
    BY <2>2, <2>3
<1>7. CASE FixErase
  BY <1>7, <1>b, <1>a DEF FixErase, Repairing, GcSteps, RepairSteps
<1>8. CASE FixHeader
  <2>1. /\ active' = Other(active) /\ pc' = "erase" /\ flash'[active] = FormattedArea(mem.state)
        /\ "DATA_VALID" \in mem.state
    BY <1>8, <1>a DEF FixHeader, Journal, BuildState
  <2>2. Sound(flash'[active]) /\ flash'[active].hdr
    BY <2>1 DEF FormattedArea, Erased, Sound
  <2>3. ~Blank'
    BY <1>a, <2>2 DEF Blank, Bank
  <2>4. QED
    BY <1>a, <2>1, <2>2, <2>3 DEF Repairing, GcSteps, RepairSteps
<1>9. CASE EraseHeader \/ EraseBody \/ ProgramHeader
  <2>1. /\ pc \in GcSteps /\ pc' \in GcSteps /\ pc' # "endNew" /\ active' = active
        /\ flash'[Other(active)] = flash[Other(active)] /\ UNCHANGED <<caller, ctx>>
    BY <1>9, <1>a DEF EraseHeader, EraseBody, ProgramHeader, GcSteps
  <2>2. QED
    BY <1>b, <2>1 DEF Repairing, GcSteps, RepairSteps
<1>10. CASE CopyVariable
  <2>1. PICK v \in Live(temp) : flash' = Append(v, temp[v])
    BY <1>10 DEF CopyVariable
  <2>2. flash'[Other(active)] = flash[Other(active)]
    BY <1>a, <2>1 DEF Append
  <2>3. pc = "copy" /\ pc' = "copy" /\ active' = active /\ UNCHANGED <<caller, ctx>>
    BY <1>10 DEF CopyVariable
  <2>4. QED
    BY <1>b, <2>2, <2>3 DEF Repairing, GcSteps, RepairSteps
<1>11. CASE CopyDone
  BY <1>11, <1>b DEF CopyDone, Repairing, GcSteps, RepairSteps
<1>12. CASE EndOldArea
  <2>1. PICK o \in Bank : o = Other(active)
    BY <1>a
  <2>2. mem.state \cup OldAreaBits \in SUBSET VALID_STATE_FLAGS /\ "DATA_VALID" \in OldAreaBits
    BY <1>a, Bits DEF Area, OldAreaBits
  <2>3. /\ flash' = AddBits(o, mem.state \cup OldAreaBits) /\ active' = active
        /\ pc = "endOld" /\ pc' = "endNew"
    BY <1>12, <2>1 DEF EndOldArea
  <2>4. flash'[o].hdr /\ "DATA_VALID" \in flash'[o].state
    BY <2>1, <2>2, <2>3, AddedBits DEF Repairing, GcSteps
  <2>5. Sound(flash'[Other(active')]) /\ ~Blank'
    BY <1>a, <2>1, <2>3, <2>4 DEF Sound, Blank, Bank
  <2>6. QED
    BY <2>3, <2>5 DEF Repairing, Sound
<1>13. CASE EndNewArea
  <2>1. pc = "endNew" /\ Sound(flash[Other(active)])
    BY <1>13 DEF EndNewArea, Repairing
  <2>2. ~Blank'
    BY <1>a, <1>b, <2>1 DEF Blank, Bank
  <2>3. pc' \in {"idle", "init", "readd", "check"}
    BY <1>13, FailedSteps DEF EndNewArea, ReinitializeDone
  <2>4. QED
    BY <1>d, <2>2, <2>3 DEF GcSteps, RepairSteps
<1>14. CASE EraseFails \/ HeaderFails \/ CopyFails \/ EndFails
  <2>1. pc \in GcSteps \cup RepairSteps
    BY <1>14 DEF EraseFails, HeaderFails, CopyFails, EndFails, GcSteps, RepairSteps
  <2>2. PICK buffer, kept : UpdateFailed(buffer, kept)
    BY <1>14 DEF EraseFails, HeaderFails, CopyFails, EndFails
  <2>3. CASE Blank
    <3>1. caller = "repair" /\ ctx = "boot"
      BY <2>1, <2>3 DEF Repairing, GcSteps, RepairSteps
    <3>2. pc' = "failed"
      BY <2>2, <3>1 DEF UpdateFailed, ReinitializeFailed
    <3>3. QED
      BY <1>c, <3>2
  <2>4. CASE ~Blank
    BY <1>b, <1>d, <2>2, <2>4, FailedSteps DEF GcSteps, RepairSteps
  <2>5. QED
    BY <2>3, <2>4
<1>15. CASE DxeSetVariable
  <2>1. pc = "idle" /\ pc' = "check"
    BY <1>15 DEF DxeSetVariable
  <2>2. QED
    BY <1>d, <1>e, <2>1 DEF GcSteps, RepairSteps
<1>16. CASE PowerLoss
  BY <1>16, <1>c DEF PowerLoss
<1>17. CASE Reflash
  BY <1>17 DEF Reflash, NotReflashed, TypeOK
<1>18. CASE UNCHANGED vars
  BY <1>18 DEF vars, Repairing, Blank
<1>19. QED
  BY <1>1, <1>2, <1>3, <1>4, <1>5, <1>6, <1>7, <1>8, <1>9, <1>10, <1>11, <1>12, <1>13,
     <1>14, <1>15, <1>16, <1>17, <1>18 DEF Next, Driver

LEMMA RepairingCorrect == NotReflashed => (Spec => []Repairing)
<1>1. SUFFICES ASSUME NotReflashed
               PROVE  Spec => []Repairing
  OBVIOUS
<1>2. TypeOK /\ TypeOK' /\ StoreGuard /\ Journal /\ Repairing /\ [Next]_vars => Repairing'
  BY <1>1, RepairingStep
<1>3. QED
  BY <1>1, <1>2, RepairingInit, TypeCorrect, GuardCorrect, JournalCorrect, PTL DEF Spec

\* The stage of an area, and the row two areas that are no tie are in.
Kind(area) == IF ~Sound(area) THEN "none" ELSE IF Dead(area) THEN "old" ELSE "store"
RowOf(f) == [main |-> Kind(f[0]), backup |-> Kind(f[1]),
             use |-> IF Sound(f[1]) /\ (Sound(f[0]) => Dead(f[0])) THEN 1 ELSE 0]

LEMMA RowIs == TypeOK /\ NoTieIn(flash) => Row = RowOf(flash)
<1>1. SUFFICES ASSUME TypeOK, NoTieIn(flash)
               PROVE  Row = RowOf(flash)
  OBVIOUS
<1>2. \A b \in {0, 1} : /\ flash[b] \in Area /\ (Valid(b) <=> Sound(flash[b]))
                        /\ Sound(flash[b]) => State(b) = flash[b].state
  BY <1>1, Areas DEF Bank
<1>3. Stage(State(0)) = Kind(flash[0]) /\ Stage(State(1)) = Kind(flash[1])
  BY <1>2 DEF Stage, Kind, Valid, Dead
<1>4. BootBank = IF Sound(flash[1]) /\ (Sound(flash[0]) => Dead(flash[0])) THEN 1 ELSE 0
  BY <1>1, <1>2 DEF BootBank, Selected, UseBackup, CheckNvramStoreState, Valid, Dead, Other, NoTieIn
<1>5. QED
  BY <1>3, <1>4 DEF Row, RowOf

LEMMA RowIsNext == (TypeOK /\ NoTieIn(flash) => Row = RowOf(flash))'
  BY RowIs, PTL

\* What a step may make of the two areas: nothing, the first store of a blank
\* part, or one of the three moves of a garbage collection on b and the other.
SameKinds == \A b \in Bank : Kind(flash'[b]) = Kind(flash[b])
FirstStore == Blank /\ ~Sound(flash'[1])
Advances(b) ==
    \/ /\ Kind(flash[b]) = "store" /\ Kind(flash'[b]) = "old"
       /\ Kind(flash[Other(b)]) = "none" /\ Kind(flash'[Other(b)]) = "none"
    \/ /\ Kind(flash[b]) = "old" /\ Kind(flash'[b]) = "old"
       /\ Kind(flash[Other(b)]) = "none" /\ Kind(flash'[Other(b)]) = "store"
    \/ /\ Kind(flash[b]) = "old" /\ Kind(flash'[b]) = "none"
       /\ Kind(flash[Other(b)]) = "store" /\ Kind(flash'[Other(b)]) = "store"
Turn == SameKinds \/ FirstStore \/ \E b \in Bank : Advances(b)

\* An operation on one area, that leaves no valid one behind or nothing.
LEMMA ErasedTurn ==
  ASSUME TypeOK, StoreGuard, Journal,
         pc \in {"erase", "eraseBody", "fixErase", "header"},
         flash'[Other(active)] = flash[Other(active)],
         flash'[active] = flash[active] \/ ~Sound(flash'[active])
  PROVE  Turn
<1>1. active \in Bank /\ Other(active) \in Bank /\ \A c \in Bank : c \in {active, Other(active)}
  BY Areas, Bits
<1>2. CASE Sound(flash[active]) /\ ~Sound(flash'[active])
  <2>1. Sound(flash[Other(active)]) /\ Dead(flash[active])
    BY <1>2, Guarded DEF Journal
  <2>2. ~Dead(flash[Other(active)])
    BY <1>1, <1>2, <2>1 DEF Journal, NoTieIn, Bank, Other
  <2>3. Advances(active)
    BY <1>2, <2>1, <2>2 DEF Advances, Kind
  <2>4. QED
    BY <1>1, <2>3 DEF Turn
<1>3. CASE ~(Sound(flash[active]) /\ ~Sound(flash'[active]))
  <2>1. Kind(flash'[active]) = Kind(flash[active])
    BY <1>3 DEF Kind
  <2>2. QED
    BY <1>1, <2>1 DEF Turn, SameKinds
<1>4. QED
  BY <1>2, <1>3

\* The header of the first area of a blank part.
LEMMA FormattedTurn ==
  ASSUME TypeOK, StoreGuard, Repairing, pc = "fixHeader",
         flash'[Other(active)] = flash[Other(active)]
  PROVE  Turn
<1>1. ~Sound(flash[active]) /\ ~Sound(flash[Other(active)]) /\ active \in Bank
  BY Guarded, Areas
<1>2. Blank
  BY <1>1 DEF Blank, Bank, Other
<1>3. active = 0
  BY <1>2 DEF Repairing, GcSteps, RepairSteps
<1>4. QED
  BY <1>1, <1>2, <1>3 DEF Turn, FirstStore, Other

\* The old area gets bits of its state byte; the new one is not a store yet.
LEMMA OldMarkedTurn ==
  ASSUME TypeOK, Journal, Repairing, pc = "endOld",
         NEW bits \in SUBSET VALID_STATE_FLAGS, flash' = AddBits(Other(active), bits)
  PROVE  Turn
<1>1. PICK o \in Bank : o = Other(active)
  BY Areas, Bits
<1>2. active \in Bank /\ active # o /\ active = Other(o) /\ \A c \in Bank : c \in {active, o}
  BY <1>1, Areas, Bits
<1>3. flash'[active] = flash[active] /\ ~Sound(flash[active])
  <2>1. flash'[active] = flash[active]
    BY <1>1, <1>2, AddedBits
  <2>2. flash[active].state = HeaderState
    BY DEF Journal
  <2>3. QED
    BY <2>1, <2>2, Bits DEF Sound
<1>4. flash'[o].hdr = flash[o].hdr /\ flash'[o].state = flash[o].state \cup bits
  BY <1>1, AddedBits
<1>5. CASE Sound(flash[o])
  <2>1. Sound(flash'[o]) /\ (Dead(flash[o]) => Dead(flash'[o]))
    BY <1>4, <1>5 DEF Sound, Dead
  <2>2. Kind(flash'[o]) = Kind(flash[o]) \/ Advances(o)
    BY <1>2, <1>3, <1>5, <2>1 DEF Advances, Kind
  <2>3. QED
    BY <1>2, <1>3, <2>2 DEF Turn, SameKinds
<1>6. CASE ~Sound(flash[o])
  <2>1. Blank
    BY <1>2, <1>3, <1>6 DEF Blank, Bank
  <2>2. active = 1
    BY <2>1 DEF Repairing, GcSteps, RepairSteps
  <2>3. QED
    BY <1>3, <2>1, <2>2 DEF Turn, FirstStore
<1>7. QED
  BY <1>5, <1>6

\* The new area gets bits of its state byte; the old one is DELETED.
LEMMA NewMarkedTurn ==
  ASSUME TypeOK, Journal, Repairing, pc = "endNew",
         NEW bits \in SUBSET VALID_STATE_FLAGS, bits \subseteq NewAreaBits,
         flash' = AddBits(active, bits)
  PROVE  Turn
<1>1. /\ active \in Bank /\ Other(active) \in Bank /\ Other(active) # active
      /\ Other(Other(active)) = active /\ \A c \in Bank : c \in {active, Other(active)}
  BY Areas, Bits
<1>2. Sound(flash[Other(active)]) /\ Dead(flash[Other(active)]) /\ flash[active].state = HeaderState
  BY DEF Repairing, Journal
<1>3. flash'[active].state = flash[active].state \cup bits
  BY <1>1, AddedBits
<1>4. flash'[Other(active)] = flash[Other(active)]
  BY <1>1, AddedBits
<1>5. ~Sound(flash[active]) /\ ~Dead(flash'[active])
  BY <1>2, <1>3, Bits DEF Sound, Dead
<1>6. Kind(flash'[active]) = Kind(flash[active]) \/ Advances(Other(active))
  BY <1>1, <1>2, <1>4, <1>5 DEF Advances, Kind
<1>7. QED
  BY <1>1, <1>4, <1>6 DEF Turn, SameKinds

\* A flash operation that fails or is interrupted.
LEMMA PartialTurn ==
  ASSUME TypeOK, StoreGuard, Journal, Repairing, flash' \in Partial
  PROVE  Turn
<1>1. active \in Bank /\ \A c \in Bank : c \in {active, Other(active)}
  BY Areas, Bits
<1>2. CASE pc \in {"append", "readd", "copy", "delete"}
  <2>1. SameHeaders(flash')
    BY <1>2, PartialHeaders
  <2>2. QED
    BY <2>1 DEF SameHeaders, Turn, SameKinds, Kind, Sound, Dead
<1>3. CASE pc \in {"off", "failed", "init", "idle", "check", "set", "recover"}
  BY <1>3, PartialHeaders DEF Turn, SameKinds
<1>4. CASE pc \in {"erase", "eraseBody", "fixErase", "header"}
  BY <1>4, PartialHeaders, ErasedTurn
<1>5. CASE pc = "fixHeader"
  BY <1>5, PartialHeaders, FormattedTurn
<1>6. CASE pc = "mark"
  <2>1. PICK s \in SUBSET VALID_STATE_FLAGS : s \subseteq {"MARKED_FOR_UPDATE"} /\ flash' = AddBits(active, s)
    BY <1>6, PartialHeaders
  <2>2. \A c \in Bank : Kind(flash'[c]) = Kind(flash[c])
    <3>1. TAKE c \in Bank
    <3>2. CASE c = active
      BY <1>1, <2>1, <3>2, AddedBits DEF Kind, Sound, Dead
    <3>3. CASE c # active
      BY <1>1, <2>1, <3>3, AddedBits
    <3>4. QED
      BY <3>2, <3>3
  <2>3. QED
    BY <2>2 DEF Turn, SameKinds
<1>7. CASE pc = "endOld"
  BY <1>7, PartialHeaders, OldMarkedTurn
<1>8. CASE pc = "endNew"
  BY <1>8, PartialHeaders, NewMarkedTurn
<1>9. QED
  BY <1>2, <1>3, <1>4, <1>5, <1>6, <1>7, <1>8 DEF TypeOK, Steps, GcSteps, RepairSteps

LEMMA TurnStep ==
  ASSUME NotReflashed, TypeOK, StoreGuard, Journal, Repairing, [Next]_vars
  PROVE  Turn
<1>1. /\ active \in Bank /\ Other(active) \in Bank /\ Other(active) # active
      /\ flash \in [Bank -> Area] /\ mem \in Area
  BY Areas, Bits DEF TypeOK
<1>2. flash' = flash => Turn
  BY DEF Turn, SameKinds
<1>3. SameHeaders(flash') => Turn
  BY DEF SameHeaders, Turn, SameKinds, Kind, Sound, Dead
<1>4. CASE Boot \/ InitNonVolatileVarStore \/ CheckStore \/ RestoreDone \/ Update \/ ErrorRecovery
             \/ CopyDone \/ DxeSetVariable \/ UNCHANGED vars
  BY <1>2, <1>4 DEF Boot, InitNonVolatileVarStore, CheckStore, RestoreDone, Update, ErrorRecovery,
     CopyDone, DxeSetVariable, vars
<1>5. CASE MarkFails \/ RestoreFails \/ AppendFails \/ DeleteFails \/ EraseFails \/ HeaderFails
             \/ CopyFails \/ EndFails \/ PowerLoss
  <2>1. flash' \in Partial \/ flash' = flash
    BY <1>5 DEF MarkFails, RestoreFails, AppendFails, DeleteFails, EraseFails, HeaderFails,
       CopyFails, EndFails, PowerLoss, Fault
  <2>2. QED
    BY <1>2, <2>1, PartialTurn
<1>6. CASE RestoreVariable \/ AppendRecord \/ CopyVariable
  <2>1. PICK v, d : flash' = Append(v, d)
    BY <1>6 DEF RestoreVariable, AppendRecord, CopyVariable
  <2>2. SameHeaders(flash')
    BY <1>1, <2>1 DEF SameHeaders, Append, Write, Area
  <2>3. QED
    BY <1>3, <2>2
<1>7. CASE DeleteVariable
  <2>1. SameHeaders(flash')
    BY <1>1, <1>7 DEF DeleteVariable, SameHeaders, Area
  <2>2. QED
    BY <1>3, <2>1
<1>8. CASE MarkForUpdate
  <2>1. flash' \in Partial
    BY <1>8 DEF MarkForUpdate, Partial
  <2>2. QED
    BY <2>1, PartialTurn
<1>9. CASE FixErase \/ EraseHeader \/ EraseBody
  <2>1. /\ pc \in {"erase", "eraseBody", "fixErase"} /\ flash'[Other(active)] = flash[Other(active)]
        /\ ~flash'[active].hdr
    BY <1>1, <1>9 DEF FixErase, EraseHeader, EraseBody, Erased, Area
  <2>2. QED
    BY <2>1, ErasedTurn DEF Sound
<1>10. CASE FixHeader
  BY <1>1, <1>10, FormattedTurn DEF FixHeader
<1>11. CASE ProgramHeader
  <2>1. /\ pc = "header" /\ flash'[Other(active)] = flash[Other(active)]
        /\ flash'[active] = FormattedArea(mem.state) /\ mem.state = HeaderState
    BY <1>1, <1>11 DEF ProgramHeader, Journal
  <2>2. ~Sound(flash'[active])
    BY <2>1, Bits DEF Sound, FormattedArea, Erased
  <2>3. QED
    BY <2>1, <2>2, ErasedTurn
<1>12. CASE EndOldArea
  <2>1. mem.state \cup OldAreaBits \in SUBSET VALID_STATE_FLAGS
    BY <1>1, Bits DEF Area
  <2>2. QED
    BY <1>12, <2>1, OldMarkedTurn DEF EndOldArea
<1>13. CASE EndNewArea
  BY <1>13, Bits, NewMarkedTurn DEF EndNewArea
<1>14. CASE Reflash
  BY <1>14 DEF Reflash, NotReflashed, TypeOK
<1>15. QED
  BY <1>4, <1>5, <1>6, <1>7, <1>8, <1>9, <1>10, <1>11, <1>12, <1>13, <1>14 DEF Next, Driver

\* A turn of two areas that are no tie is a step along the rows of the table.
LEMMA TurnsTheRow ==
  ASSUME NoTieIn(flash), NoTieIn(flash'), Turn
  PROVE  NextRow(RowOf(flash), RowOf(flash'))
<1>1. /\ Kind(flash[0]) \in {"none", "old", "store"} /\ Kind(flash[1]) \in {"none", "old", "store"}
      /\ Kind(flash'[0]) \in {"none", "old", "store"}
  BY DEF Kind
<1>2. /\ Sound(flash[0]) <=> Kind(flash[0]) # "none"
      /\ Sound(flash[1]) <=> Kind(flash[1]) # "none"
      /\ Sound(flash'[0]) <=> Kind(flash'[0]) # "none"
      /\ Sound(flash'[1]) <=> Kind(flash'[1]) # "none"
      /\ Sound(flash[0]) => (Dead(flash[0]) <=> Kind(flash[0]) = "old")
      /\ Sound(flash[1]) => (Dead(flash[1]) <=> Kind(flash[1]) = "old")
      /\ Sound(flash'[0]) => (Dead(flash'[0]) <=> Kind(flash'[0]) = "old")
  BY DEF Kind
<1>3. DOMAIN Transitions = {1, 2, 3, 4, 5, 6}
  BY DEF Transitions
<1>4. CASE SameKinds
  <2>1. RowOf(flash') = RowOf(flash)
    BY <1>2, <1>4 DEF SameKinds, RowOf, Bank, Kind
  <2>2. RowOf(flash).main # "none" \/ RowOf(flash).backup # "none" =>
          \E i \in DOMAIN Transitions : RowOf(flash) = Transitions[i]
    BY <1>1, <1>2, <1>3 DEF RowOf, Transitions, NoTieIn
  <2>3. QED
    BY <2>1, <2>2 DEF NextRow, RowOf
<1>5. CASE FirstStore
  BY <1>1, <1>2, <1>5 DEF FirstStore, Blank, NextRow, RowOf, Transitions
<1>6. CASE Advances(0)
  BY <1>2, <1>3, <1>6 DEF Advances, Other, NextRow, RowOf, Transitions, Following
<1>7. CASE Advances(1)
  BY <1>2, <1>3, <1>7 DEF Advances, Other, NextRow, RowOf, Transitions, Following
<1>8. QED
  BY <1>4, <1>5, <1>6, <1>7 DEF Turn, Bank

\* The two areas only go through the rows of the table in the comment of
\* CheckNvramStoreState, in its order and one at a time, and the next boot takes
\* the area the row names, for any number of flash failures and power losses
\* (EndGarbageCollection, BeginGarbageCollection, Reinitialize).
THEOREM TransitionsAsDocumented == NotReflashed => (Spec => DocumentedTransitions)
<1>1. SUFFICES ASSUME NotReflashed
               PROVE  Spec => DocumentedTransitions
  OBVIOUS
<1>2. TypeOK /\ TypeOK' /\ StoreGuard /\ Journal /\ Journal' /\ Repairing /\ [Next]_vars =>
        [NextRow(Row, Row')]_flash
  <2>1. SUFFICES ASSUME TypeOK, TypeOK', StoreGuard, Journal, Journal', Repairing, [Next]_vars
                 PROVE  NextRow(Row, Row')
    OBVIOUS
  <2>2. NoTieIn(flash) /\ NoTieIn(flash')
    BY <2>1 DEF Journal
  <2>3. Row = RowOf(flash) /\ Row' = RowOf(flash')
    BY <2>1, <2>2, RowIs, RowIsNext DEF RowOf
  <2>4. QED
    BY <1>1, <2>1, <2>2, <2>3, TurnStep, TurnsTheRow
<1>3. QED
  BY <1>1, <1>2, TypeCorrect, GuardCorrect, JournalCorrect, RepairingCorrect, PTL
     DEF Spec, DocumentedTransitions

---------------------------------------------------------------------------
\* Firmware updates.

\* Flash operations work, and the areas are rewritten any number of times.
Faultless == MaxFaults = 0

Marked(area) == "MARKED_FOR_UPDATE" \in area.state

\* The area the next boot takes from f: the backup area if it is the only store,
\* or if the main one was left for it, or was managed when it is not yet.
GivesWay(main, backup) ==
    /\ Sound(backup)
    /\ Sound(main) => /\ ~Dead(backup)
                      /\ Dead(main) \/ (Marked(main) /\ ~Marked(backup))
Elected(f) == IF GivesWay(f[0], f[1]) THEN 1 ELSE 0
InUse == active = Elected(flash) /\ Sound(flash[active]) /\ mem = flash[active]
Rewritten(f) == f[0] = BuildImage

\* A backup area whose last state byte was torn, the main area being DELETED.
Torn(f) == f[1].state = BuildState /\ (Sound(f[0]) => Dead(f[0]))
AtWorkSteps == {"init", "set", "append", "delete", "recover", "readd"}

\* The driver's mirror is what the next boot takes, or the firmware update it has
\* not noticed is, or the mirror does not pass for a store.  Only the build marks
\* no store for update: CheckStore tells the new image from what it replaces.
Updates ==
    /\ Sound(flash[1]) => Marked(flash[1]) \/ (pc \in {"off", "mark"} /\ Torn(flash))
    /\ pc = "off" => ~media
    /\ pc \in AtWorkSteps => mem.state # BuildState
    /\ pc \in AtWorkSteps \cup {"mark"} => InUse
    /\ pc \in {"idle", "check"} =>
         /\ Sound(flash[Elected(flash)])
         /\ active = Elected(flash) \/ Rewritten(flash)
         /\ Sound(mem) => mem.state # BuildState /\ (InUse \/ Rewritten(flash))
    /\ pc \in GcSteps /\ caller # "repair" =>
         Sound(flash[Other(active)]) /\ Elected(flash) = Other(active)
    /\ pc \in GcSteps /\ caller = "repair" => active = 1 /\ pc # "copy"
    /\ pc \in RepairSteps => caller = "repair" /\ active = 0
                             /\ mem.state = BuildState \cup {"MARKED_FOR_UPDATE"}
    /\ pc \in {"erase", "eraseBody", "header"} => mem.state = HeaderState
    /\ pc \in {"copy", "endOld", "endNew"} => mem = flash[active] /\ mem.state = HeaderState
    /\ pc = "endNew" => Dead(flash[Other(active)])

\* What the restoring of variables has done so far.
KeptOf(v) == mem.vars[v] \in {Absent, temp[v]}
Restoring ==
    /\ pc \in {"mark", "readd"} /\ media =>
         \A v \in Persistent : Default[v] = Absent => KeptOf(v)
    /\ pc \in {"check", "set"} /\ ctx = "second" /\ media =>
         \A v \in Persistent : temp[v] # Absent /\ Default[v] = Absent => mem.vars[v] = temp[v]

\* The boot takes the elected area, and so does Reinitialize when it is called
\* with that area as the main one, or after an update.
LEMMA ElectedIsBooted ==
  ASSUME TypeOK
  PROVE  /\ Elected(flash) \in Bank /\ BootBank = Elected(flash)
         /\ Sound(flash[Elected(flash)]) <=> Sound(flash[0]) \/ Sound(flash[1])
         /\ Valid(Elected(flash)) <=> Sound(flash[Elected(flash)])
         /\ Selected(Elected(flash)) = Elected(flash)
         /\ Rewritten(flash) /\ (Sound(flash[1]) => Marked(flash[1])) =>
              /\ Elected(flash) = 0 /\ Sound(flash[0]) /\ State(0) = BuildState
              /\ \A b \in Bank : Selected(b) = 0
<1>1. /\ 0 \in Bank /\ 1 \in Bank /\ Other(0) = 1 /\ Other(1) = 0
      /\ \A b \in Bank : b = 0 \/ b = 1
  BY DEF Bank, Other
<1>2. /\ \A b \in Bank : flash[b] \in Area /\ (Valid(b) <=> Sound(flash[b]))
                         /\ (Sound(flash[b]) => State(b) = flash[b].state)
      /\ \A b \in Bank : StoreValid(State(b)) <=> Sound(flash[b])
  <2>1. \A b \in Bank : flash[b] \in Area /\ (Valid(b) <=> Sound(flash[b]))
                         /\ (Sound(flash[b]) => State(b) = flash[b].state)
    BY Areas
  <2>2. \A b \in Bank : StoreValid(State(b)) <=> Valid(b)
    BY DEF Valid
  <2>3. QED
    BY <2>1, <2>2
<1>3. UseBackup(State(0), State(1)) <=> GivesWay(flash[0], flash[1])
  BY <1>1, <1>2 DEF UseBackup, CheckNvramStoreState, GivesWay, Dead, Marked
<1>4. UseBackup(State(1), State(0)) <=> GivesWay(flash[1], flash[0])
  BY <1>1, <1>2 DEF UseBackup, CheckNvramStoreState, GivesWay, Dead, Marked
<1>5. /\ Selected(0) = Elected(flash) /\ Elected(flash) \in {0, 1}
      /\ Selected(1) = IF UseBackup(State(1), State(0)) THEN 0 ELSE 1
  BY <1>1, <1>3 DEF Selected, Elected
<1>6. Sound(flash[Elected(flash)]) <=> Sound(flash[0]) \/ Sound(flash[1])
  BY <1>5 DEF Elected, GivesWay
<1>7. Elected(flash) = 1 => Selected(1) = 1
  BY <1>4, <1>5 DEF Elected, GivesWay
<1>8. ASSUME Rewritten(flash), Sound(flash[1]) => Marked(flash[1])
      PROVE  /\ Elected(flash) = 0 /\ Sound(flash[0]) /\ State(0) = BuildState
             /\ \A b \in Bank : Selected(b) = 0
  <2>1. /\ flash[0].hdr /\ flash[0].state = BuildState
    BY <1>8 DEF Rewritten, BuildImage
  <2>2. Sound(flash[0]) /\ ~Dead(flash[0]) /\ ~Marked(flash[0])
    BY <2>1 DEF Sound, Dead, Marked, BuildState
  <2>3. UseBackup(State(1), State(0))
    BY <1>4, <1>8, <2>2 DEF GivesWay
  <2>4. Elected(flash) = 0
    BY <2>2 DEF Elected, GivesWay
  <2>5. State(0) = BuildState
    BY <1>1, <1>2, <2>1, <2>2
  <2>6. QED
    BY <1>1, <1>5, <2>2, <2>3, <2>4, <2>5
<1>9. QED
  BY <1>1, <1>2, <1>5, <1>6, <1>7, <1>8 DEF BootBank

\* Flash operations do not fail.
LEMMA NoneFails == Faultless /\ TypeOK => ~Fault
  BY BanksAssumption DEF Faultless, TypeOK, Fault

\* CheckStore goes on with the area in use, and says that the media has changed
\* when the areas have been rewritten.
LEMMA Verdict ==
  ASSUME TypeOK, Updates, pc = "check"
  PROVE  /\ Passes => InUse /\ mem.state # BuildState
         /\ HybridInterfaceCheckStore = "MEDIA_CHANGED" => Rewritten(flash)
<1>1. /\ active \in Bank /\ mem \in Area /\ flash[active] \in Area
      /\ flash[Other(active)] \in Area /\ Other(active) \in Bank
      /\ 0 \in Bank /\ 1 \in Bank /\ Other(0) = 1 /\ Other(1) = 0
      /\ \A b \in Bank : b = 0 \/ b = 1
  BY Areas, Bits DEF Bank, Other
<1>2. /\ Sound(flash[1]) => Marked(flash[1])
      /\ active = Elected(flash) \/ Rewritten(flash)
      /\ Sound(mem) => mem.state # BuildState /\ (InUse \/ Rewritten(flash))
  BY DEF Updates
<1>3. "DATA_VALID" \in GetNvramFfsFileState(mem) <=> Sound(mem)
  BY <1>1, SoundIsValid
<1>4. CASE ~Sound(mem)
  BY <1>3, <1>4 DEF Passes, HybridInterfaceCheckStore
<1>5. CASE Sound(mem) /\ InUse
  <2>1. active = Elected(flash) /\ Sound(flash[active]) /\ mem = flash[active]
    BY <1>5 DEF InUse
  <2>2. State(active) = GetNvramFfsFileState(mem)
    BY <2>1 DEF State
  <2>3. CheckNvramStoreState(State(active), State(Other(active)))
    <3>1. StoreValid(State(active))
      BY <1>1, <2>1, Areas DEF Valid
    <3>2. Selected(active) = active
      BY <2>1, ElectedIsBooted
    <3>3. ~UseBackup(State(active), State(Other(active)))
      BY <1>1, <3>2, Bits DEF Selected
    <3>4. QED
      BY <3>1, <3>3 DEF UseBackup, CheckNvramStoreState
  <2>4. Passes
    BY <1>3, <1>5, <2>2, <2>3 DEF Passes, HybridInterfaceCheckStore
  <2>5. QED
    BY <1>2, <1>5, <2>4 DEF Passes
<1>6. CASE Sound(mem) /\ ~InUse
  <2>1. Rewritten(flash) /\ mem.state # BuildState
    BY <1>2, <1>6
  <2>2. State(0) = BuildState /\ Selected(active) = 0
    BY <1>1, <1>2, <2>1, ElectedIsBooted
  <2>3. GetNvramFfsFileState(mem) = mem.state
    BY <1>1, <1>6, SoundIsValid
  <2>4. CASE active = 0
    BY <2>1, <2>2, <2>3, <2>4 DEF Passes, HybridInterfaceCheckStore
  <2>5. CASE active = 1
    <3>1. State(Other(active)) = BuildState /\ BuildState # HEADER_INVALID
      BY <1>1, <2>2, <2>5 DEF BuildState, HEADER_INVALID
    <3>2. ~CheckNvramStoreState(State(active), State(Other(active)))
      BY <1>1, <2>2, <2>5 DEF Selected, UseBackup
    <3>3. QED
      BY <2>1, <3>1, <3>2 DEF Passes, HybridInterfaceCheckStore
  <2>6. QED
    BY <1>1, <2>4, <2>5
<1>7. QED
  BY <1>4, <1>5, <1>6

\* A step that leaves the headers leaves the choice.
LEMMA SameElection ==
  ASSUME TypeOK, NEW f \in [Bank -> Area], SameHeaders(f)
  PROVE  /\ Elected(f) = Elected(flash)
         /\ \A b \in Bank : Sound(f[b]) = Sound(flash[b]) /\ Dead(f[b]) = Dead(flash[b])
                            /\ Marked(f[b]) = Marked(flash[b])
  BY DEF SameHeaders, Elected, GivesWay, Sound, Dead, Marked, Bank

\* The driver has a mirror of the area a boot would take.
LEMMA InUseUpdates ==
  ASSUME InUse', mem'.state # BuildState, Sound(flash'[1]) => Marked(flash'[1]),
         pc' \in AtWorkSteps \cup {"idle", "check", "failed"}
  PROVE  Updates'
<1>1. Sound(flash'[Elected(flash')]) /\ active' = Elected(flash')
  BY DEF InUse
<1>2. QED
  BY <1>1 DEF Updates, AtWorkSteps, GcSteps, RepairSteps, InUse

\* A garbage collection takes the area in use to the other one.
LEMMA BeginUpdates ==
  ASSUME TypeOK, InUse, flash' = flash, Sound(flash[1]) => Marked(flash[1]),
         NEW content, NEW who, who # "repair", BeginGarbageCollection(active, mem, content, who)
  PROVE  Updates'
<1>1. active \in Bank /\ mem \in Area /\ mem.hdr /\ Sound(flash[active])
      /\ Elected(flash) = active /\ Other(Other(active)) = active
  BY Areas, Bits DEF InUse, Sound
<1>2. active' = Other(active) /\ pc' = "erase" /\ mem'.state = HeaderState /\ caller' = who
  BY <1>1 DEF BeginGarbageCollection, Area
<1>3. QED
  BY <1>1, <1>2 DEF Updates, AtWorkSteps, GcSteps, RepairSteps

\* Reinitialize finds the elected area, or none and repairs.
LEMMA ReinitializeUpdates ==
  ASSUME TypeOK, flash' = flash, NEW b \in Bank, NEW content,
         HybridInterfaceReinitialize(b, content), Selected(b) = Elected(flash),
         ~Sound(flash[Elected(flash)]) => b = 0,
         \/ Sound(flash[1]) => Marked(flash[1])
         \/ Torn(flash)
  PROVE  Updates'
<1>1. /\ Elected(flash) \in Bank /\ flash[Elected(flash)] \in Area
      /\ Valid(Elected(flash)) <=> Sound(flash[Elected(flash)])
      /\ Sound(flash[Elected(flash)]) => State(Elected(flash)) = flash[Elected(flash)].state
      /\ Sound(flash[Elected(flash)]) <=> Sound(flash[0]) \/ Sound(flash[1])
  BY Areas, ElectedIsBooted
<1>2. CASE Sound(flash[Elected(flash)])
  <2>1. /\ active' = Elected(flash) /\ mem' = flash[Elected(flash)]
        /\ pc' \in {"mark", "init", "readd"}
        /\ pc' = "mark" <=> flash[Elected(flash)].state = BuildState
    BY <1>1, <1>2 DEF HybridInterfaceReinitialize
  <2>2. InUse'
    BY <1>2, <2>1 DEF InUse
  <2>3. Sound(flash[1]) => Marked(flash[1]) \/ (pc' = "mark" /\ Torn(flash))
    BY <2>1 DEF Torn, Elected, GivesWay, Dead, BuildState
  <2>4. CASE pc' = "mark"
    <3>1. Sound(flash'[1]) => Marked(flash'[1]) \/ (pc' \in {"off", "mark"} /\ Torn(flash'))
      BY <2>3, <2>4
    <3>2. QED
      BY <2>2, <2>4, <3>1 DEF Updates, AtWorkSteps, GcSteps, RepairSteps
  <2>5. CASE pc' # "mark"
    BY <2>1, <2>2, <2>3, <2>5, InUseUpdates DEF AtWorkSteps
  <2>6. QED
    BY <2>4, <2>5
<1>3. CASE ~Sound(flash[Elected(flash)])
  <2>1. ~Sound(flash[1]) /\ Elected(flash) = 0
    BY <1>1, <1>3 DEF Elected, GivesWay
  <2>2. BeginGarbageCollection(0, flash[0], content, "repair")
    BY <1>1, <1>3, <2>1 DEF HybridInterfaceReinitialize
  <2>3. flash[0] \in Area
    BY <1>1, <2>1
  <2>4. CASE flash[0].hdr
    <3>1. active' = 1 /\ pc' = "erase" /\ mem'.state = HeaderState /\ caller' = "repair"
      BY <2>2, <2>3, <2>4 DEF BeginGarbageCollection, Area, Other
    <3>2. QED
      BY <2>1, <3>1 DEF Updates, AtWorkSteps, GcSteps, RepairSteps
  <2>5. CASE ~flash[0].hdr
    <3>1. active' = 0 /\ pc' = "fixErase" /\ caller' = "repair"
          /\ mem'.state = BuildState \cup {"MARKED_FOR_UPDATE"}
      BY <2>2, <2>3, <2>5 DEF BeginGarbageCollection, Area
    <3>2. QED
      BY <2>1, <3>1 DEF Updates, AtWorkSteps, GcSteps, RepairSteps
  <2>6. QED
    BY <2>4, <2>5
<1>4. QED
  BY <1>2, <1>3

\* The one area that is a store, or that is not left for the other, is elected.
LEMMA ElectedAlone ==
  ASSUME NEW f, NEW b \in Bank, Sound(f[b]),
         Sound(f[Other(b)]) => Dead(f[Other(b)]) /\ ~Dead(f[b])
  PROVE  Elected(f) = b
  BY DEF Elected, GivesWay, Bank, Other

\* Records are written to the area in use and to its mirror.
LEMMA RecordUpdates ==
  ASSUME TypeOK, TypeOK', Updates, pc \in AtWorkSteps, SameHeaders(flash'), active' = active,
         mem' = flash'[active], pc' \in AtWorkSteps \cup {"idle", "check"}
  PROVE  Updates'
<1>1. flash' \in [Bank -> Area] /\ active \in Bank /\ 1 \in Bank
  BY DEF TypeOK, Bank
<1>2. InUse /\ mem.state # BuildState /\ (Sound(flash[1]) => Marked(flash[1]))
  BY DEF Updates, AtWorkSteps
<1>3. InUse'
  BY <1>1, <1>2, SameElection DEF InUse
<1>4. mem'.state # BuildState
  BY <1>1, <1>2 DEF SameHeaders, InUse
<1>5. Sound(flash'[1]) => Marked(flash'[1])
  BY <1>1, <1>2, SameElection
<1>6. QED
  BY <1>3, <1>4, <1>5, InUseUpdates

LEMMA MarkUpdates ==
  ASSUME TypeOK, TypeOK', Updates, MarkForUpdate
  PROVE  Updates'
<1>1. /\ active \in Bank /\ Other(active) \in Bank /\ flash \in [Bank -> Area]
      /\ flash[active] \in Area /\ mem \in Area /\ 0 \in Bank /\ 1 \in Bank
      /\ Other(active) # active
  BY Areas, Bits DEF Bank
<1>2. /\ InUse /\ active' = active /\ pc' \in {"init", "readd"}
      /\ flash' = AddBits(active, {"MARKED_FOR_UPDATE"})
      /\ mem' = [mem EXCEPT !.state = mem.state \cup {"MARKED_FOR_UPDATE"}]
  BY DEF MarkForUpdate, Updates, ReinitializeDone
<1>3. /\ \A c \in Bank : c # active => AddBits(active, {"MARKED_FOR_UPDATE"})[c] = flash[c]
      /\ AddBits(active, {"MARKED_FOR_UPDATE"})[active].hdr = flash[active].hdr
      /\ AddBits(active, {"MARKED_FOR_UPDATE"})[active].state
           = flash[active].state \cup {"MARKED_FOR_UPDATE"}
      /\ AddBits(active, {"MARKED_FOR_UPDATE"})[active]
           = [flash[active] EXCEPT !.state = flash[active].state \cup {"MARKED_FOR_UPDATE"}]
  BY <1>1, AddedBits, AddedToArea, Bits
<1>4. mem' = flash'[active'] /\ Marked(flash'[active]) /\ mem'.state # BuildState
  BY <1>1, <1>2, <1>3 DEF InUse, Marked, BuildState
<1>5. /\ flash'[Other(active)] = flash[Other(active)]
      /\ Sound(flash'[active]) /\ (Dead(flash'[active]) <=> Dead(flash[active]))
  BY <1>1, <1>2, <1>3 DEF InUse, Sound, Dead
<1>6. Sound(flash[1]) => Marked(flash[1]) \/ Torn(flash)
  BY DEF Updates
<1>7. \A area : area.state = BuildState => ~Marked(area) /\ ~Dead(area)
  BY DEF Marked, Dead, BuildState
<1>8. CASE active = 0
  <2>1. ~GivesWay(flash[0], flash[1]) /\ Sound(flash[0])
    BY <1>2, <1>8 DEF InUse, Elected
  <2>2. Sound(flash[1]) => Marked(flash[1])
    BY <1>6, <1>7, <2>1 DEF Torn, GivesWay
  <2>3. flash'[1] = flash[1]
    BY <1>5, <1>8 DEF Other
  <2>4. ~GivesWay(flash'[0], flash'[1])
    BY <1>5, <1>8, <2>1, <2>2, <2>3 DEF GivesWay
  <2>5. InUse'
    BY <1>2, <1>4, <1>5, <1>8, <2>4 DEF InUse, Elected
  <2>6. QED
    BY <1>2, <1>4, <2>2, <2>3, <2>5, InUseUpdates DEF AtWorkSteps
<1>9. CASE active = 1
  <2>1. GivesWay(flash[0], flash[1])
    BY <1>2, <1>9 DEF InUse, Elected
  <2>2. Sound(flash[0]) => Dead(flash[0]) /\ ~Dead(flash[1])
    BY <1>6, <1>7, <2>1 DEF Torn, GivesWay
  <2>3. flash'[0] = flash[0]
    BY <1>5, <1>9 DEF Other
  <2>4. GivesWay(flash'[0], flash'[1])
    BY <1>5, <1>9, <2>2, <2>3 DEF GivesWay
  <2>5. InUse'
    BY <1>2, <1>4, <1>5, <1>9, <2>4 DEF InUse, Elected
  <2>6. QED
    BY <1>2, <1>4, <1>9, <2>5, InUseUpdates DEF AtWorkSteps
<1>10. QED
  BY <1>1, <1>8, <1>9 DEF Bank

LEMMA CallsUpdates ==
  ASSUME Faultless, TypeOK, TypeOK', Updates, Calling,
         \/ Boot \/ InitNonVolatileVarStore \/ MarkForUpdate \/ CheckStore \/ RestoreVariable
         \/ RestoreDone \/ RestoreFails \/ Update \/ AppendRecord \/ DeleteVariable
         \/ ErrorRecovery
  PROVE  Updates'
<1>1. /\ active \in Bank /\ Other(active) \in Bank /\ flash \in [Bank -> Area]
      /\ flash[active] \in Area /\ mem \in Area /\ 0 \in Bank /\ 1 \in Bank
  BY Areas, Bits DEF Bank
<1>2. pc \in AtWorkSteps =>
        InUse /\ mem.state # BuildState /\ (Sound(flash[1]) => Marked(flash[1]))
  BY DEF Updates, AtWorkSteps
\* Nothing but the decision of what to do next.
<1>3. ASSUME InUse, mem.state # BuildState, Sound(flash[1]) => Marked(flash[1]),
             UNCHANGED <<flash, active, mem>>, pc' \in AtWorkSteps \cup {"idle", "check"}
      PROVE  Updates'
  BY <1>3, InUseUpdates DEF InUse
<1>4. CASE Boot
  <2>1. Selected(0) = Elected(flash)
    BY ElectedIsBooted DEF BootBank
  <2>2. Sound(flash[1]) => Marked(flash[1]) \/ Torn(flash)
    BY DEF Updates
  <2>3. flash' = flash /\ HybridInterfaceReinitialize(BootBank, Empty)
    BY <1>4 DEF Boot
  <2>4. BootBank = Elected(flash) /\ Selected(BootBank) = Elected(flash) /\ BootBank \in Bank
        /\ (~Sound(flash[Elected(flash)]) => BootBank = 0)
    BY ElectedIsBooted DEF Elected, GivesWay
  <2>5. QED
    BY <2>2, <2>3, <2>4, ReinitializeUpdates
<1>5. CASE InitNonVolatileVarStore
  <2>1. pc = "init" /\ flash' = flash
    BY <1>5 DEF InitNonVolatileVarStore
  <2>2. CASE pc' = "idle" /\ UNCHANGED <<active, mem>>
    BY <1>2, <1>3, <2>1, <2>2 DEF AtWorkSteps
  <2>3. CASE BeginGarbageCollection(active, mem, ResetImage(mem.vars), "reset")
    BY <1>2, <2>1, <2>3, BeginUpdates DEF AtWorkSteps
  <2>4. QED
    BY <1>5, <2>2, <2>3 DEF InitNonVolatileVarStore
<1>6. CASE MarkForUpdate
  BY <1>6, MarkUpdates
<1>7. CASE CheckStore
  <2>1. pc = "check" /\ flash' = flash /\ (Sound(flash[1]) => Marked(flash[1]))
        /\ Sound(flash[Elected(flash)]) /\ (active = Elected(flash) \/ Rewritten(flash))
    BY <1>7 DEF CheckStore, Updates
  <2>2. CASE Passes
    <3>1. pc' \in {"idle", "set"} /\ UNCHANGED <<flash, active, mem>>
      BY <1>7, <2>2 DEF CheckStore, Finish, Passes
    <3>2. QED
      BY <1>3, <2>1, <2>2, <3>1, Verdict DEF AtWorkSteps
  <2>3. CASE ~Passes
    <3>1. HybridInterfaceReinitialize(active, mem.vars)
      BY <1>7, <2>3 DEF CheckStore, Passes
    <3>2. Selected(active) = Elected(flash)
      BY <1>1, <2>1, ElectedIsBooted
    <3>3. QED
      BY <1>1, <2>1, <3>1, <3>2, ReinitializeUpdates
  <2>4. QED
    BY <2>2, <2>3
<1>8. \A v \in Live(temp) : v \in Var /\ temp[v] \in Val \cup {Absent}
  BY Areas DEF Contents, Live
<1>9. ASSUME InUse, pc \in AtWorkSteps, NEW v \in Var, NEW d \in Val \cup {Absent},
             flash' = Append(v, d), mem' = Write(mem, v, d), active' = active,
             pc' \in AtWorkSteps \cup {"idle"}
      PROVE  Updates'
  <2>1. SameHeaders(flash')
    BY <1>9, RecordsKeepHeaders DEF SameHeaders
  <2>2. mem' = flash'[active]
    BY <1>1, <1>9 DEF Append, InUse
  <2>3. QED
    BY <1>9, <2>1, <2>2, RecordUpdates
<1>10. CASE RestoreVariable
  <2>1. pc = "readd" /\ active' = active /\ pc' = "readd"
    BY <1>10 DEF RestoreVariable
  <2>2. PICK v \in Missing : flash' = Append(v, temp[v]) /\ mem' = Write(mem, v, temp[v])
    BY <1>10 DEF RestoreVariable
  <2>3. v \in Var /\ temp[v] \in Val \cup {Absent}
    BY <1>8, <2>2 DEF Missing
  <2>4. QED
    BY <1>2, <1>9, <2>1, <2>2, <2>3 DEF AtWorkSteps
<1>11. CASE RestoreDone
  <2>1. pc = "readd" /\ pc' \in {"check", "idle"} /\ UNCHANGED <<flash, active, mem>>
    BY <1>11, FailedSteps DEF RestoreDone
  <2>2. QED
    BY <1>2, <1>3, <2>1 DEF AtWorkSteps
<1>12. CASE RestoreFails
  <2>1. pc = "readd" /\ flash' = flash
        /\ BeginGarbageCollection(active, flash'[active], temp, "restore")
    BY <1>12, NoneFails DEF RestoreFails
  <2>2. InUse /\ flash'[active] = mem /\ (Sound(flash[1]) => Marked(flash[1]))
    BY <1>2, <2>1 DEF AtWorkSteps, InUse
  <2>3. QED
    BY <2>1, <2>2, BeginUpdates
<1>13. CASE Update
  <2>1. pc = "set" /\ UNCHANGED <<flash, active, mem>>
        /\ pc' \in {"idle", "delete", "append", "recover"}
    BY <1>13 DEF Update, Finish
  <2>2. QED
    BY <1>2, <1>3, <2>1 DEF AtWorkSteps
<1>14. CASE AppendRecord
  <2>1. pc = "append" /\ active' = active /\ pc' = "idle"
        /\ flash' = Append(op.var, op.val) /\ mem' = Write(mem, op.var, op.val)
    BY <1>14 DEF AppendRecord, Finish
  <2>2. op.val \in Val \cup {Absent}
    BY DEF TypeOK, Calls
  <2>3. op.var \in Var
    BY <2>1 DEF Calling
  <2>4. QED
    BY <1>2, <1>9, <2>1, <2>2, <2>3 DEF AtWorkSteps
<1>15. CASE DeleteVariable
  <2>1. pc = "delete" /\ active' = active /\ pc' = "idle"
        /\ flash' = [flash EXCEPT ![active].vars[op.var] = Absent]
        /\ mem' = [mem EXCEPT !.vars[op.var] = Absent]
    BY <1>15 DEF DeleteVariable, Finish
  <2>2. SameHeaders(flash')
    BY <2>1, RecordsKeepHeaders DEF SameHeaders
  <2>3. mem' = flash'[active]
    BY <1>1, <1>2, <2>1 DEF InUse, AtWorkSteps
  <2>4. QED
    BY <2>1, <2>2, <2>3, RecordUpdates DEF AtWorkSteps
<1>16. CASE ErrorRecovery
  <2>1. pc = "recover" /\ flash' = flash
    BY <1>16 DEF ErrorRecovery
  <2>2. CASE pc' = "check" /\ UNCHANGED <<active, mem>>
    BY <1>2, <1>3, <2>1, <2>2 DEF AtWorkSteps
  <2>3. CASE \E content : BeginGarbageCollection(active, mem, content, "set")
    BY <1>2, <2>1, <2>3, BeginUpdates DEF AtWorkSteps
  <2>4. QED
    BY <1>16, <2>2, <2>3 DEF ErrorRecovery
<1>17. QED
  BY <1>4, <1>5, <1>6, <1>7, <1>10, <1>11, <1>12, <1>13, <1>14, <1>15, <1>16

\* While the other area is the store, the one the garbage collection works on is
\* none until its last step.
LEMMA CollectingUpdates ==
  ASSUME TypeOK, Updates, NEW area \in Area, flash' = [flash EXCEPT ![active] = area],
         active' = active, caller' = caller, pc \in GcSteps, pc' \in GcSteps \ {"endNew"},
         ~Sound(area), caller' = "repair" => pc' # "copy",
         pc' \in {"eraseBody", "header"} => mem'.state = HeaderState,
         pc' # "erase",
         pc' \in {"copy", "endOld"} => mem' = area /\ mem'.state = HeaderState
  PROVE  Updates'
<1>1. /\ active \in Bank /\ Other(active) \in Bank /\ Other(active) # active
      /\ Other(Other(active)) = active /\ flash \in [Bank -> Area]
      /\ active = 0 \/ active = 1
  BY Areas, Bits DEF Bank
<1>2. flash'[active] = area /\ flash'[Other(active)] = flash[Other(active)]
  BY <1>1
<1>3. Sound(flash'[1]) => Marked(flash'[1])
  <2>1. Sound(flash[1]) => Marked(flash[1])
    BY DEF Updates, GcSteps
  <2>2. CASE active = 1
    BY <1>2, <2>2
  <2>3. CASE active = 0
    BY <1>2, <2>1, <2>3 DEF Other
  <2>4. QED
    BY <1>1, <2>2, <2>3
<1>4. caller # "repair" => Sound(flash'[Other(active)]) /\ Elected(flash') = Other(active)
  BY <1>1, <1>2, ElectedAlone DEF Updates
<1>5. caller = "repair" => active = 1
  BY DEF Updates
<1>6. pc' \notin AtWorkSteps \cup RepairSteps \cup {"off", "mark", "idle", "check", "endNew"}
  BY DEF AtWorkSteps, GcSteps, RepairSteps
<1>7. QED
  BY <1>2, <1>3, <1>4, <1>5, <1>6 DEF Updates

LEMMA EndNewUpdates ==
  ASSUME TypeOK, TypeOK', StoreGuard, Updates, EndNewArea
  PROVE  Updates' /\ InUse' /\ mem'.vars = mem.vars
<1>1. /\ active \in Bank /\ Other(active) \in Bank /\ Other(active) # active
      /\ flash \in [Bank -> Area] /\ mem \in Area
      /\ active = 0 \/ active = 1
  BY Areas, Bits DEF Bank
<1>2. /\ mem = flash[active] /\ mem.state = HeaderState /\ Dead(flash[Other(active)])
      /\ flash[active].hdr /\ (Sound(flash[1]) => Marked(flash[1]))
  BY Guarded DEF EndNewArea, Updates
<1>3. /\ AddBits(active, NewAreaBits)[Other(active)] = flash[Other(active)]
      /\ AddBits(active, NewAreaBits)[active].hdr = flash[active].hdr
      /\ AddBits(active, NewAreaBits)[active].state = flash[active].state \cup NewAreaBits
  BY <1>1, AddedBits, Bits
<1>4. AddBits(active, NewAreaBits)[active]
        = [flash[active] EXCEPT !.state = flash[active].state \cup NewAreaBits]
  BY <1>1, AddedToArea, Bits
<1>5. flash' = AddBits(active, NewAreaBits) /\ active' = active
      /\ mem' = [mem EXCEPT !.state = mem.state \cup NewAreaBits]
  BY DEF EndNewArea
<1>6. mem' = flash'[active'] /\ mem'.vars = mem.vars
  BY <1>1, <1>2, <1>4, <1>5 DEF Area
<1>7. /\ flash'[Other(active)] = flash[Other(active)] /\ flash'[active].hdr
      /\ flash'[active].state = HeaderState \cup NewAreaBits
  BY <1>2, <1>3, <1>5
<1>8. Sound(flash'[active]) /\ Marked(flash'[active]) /\ ~Dead(flash'[active])
  BY <1>7, Bits DEF Sound, Marked, Dead, NewAreaBits
<1>9. Elected(flash') = active
  BY <1>1, <1>2, <1>7, <1>8, ElectedAlone
<1>10. InUse'
  BY <1>5, <1>6, <1>8, <1>9 DEF InUse
<1>11. mem'.state # BuildState
  <2>1. mem' = flash'[active]
    BY <1>5, <1>6
  <2>2. "MARKED_FOR_UPDATE" \notin BuildState
    BY DEF BuildState
  <2>3. QED
    BY <1>8, <2>1, <2>2 DEF Marked
<1>12. Sound(flash'[1]) => Marked(flash'[1])
  BY <1>1, <1>2, <1>7, <1>8 DEF Other
<1>13. pc' \in {"idle", "check", "init", "readd"}
  BY DEF EndNewArea, Finish, CheckStoreDone, ReinitializeDone
<1>14. QED
  BY <1>6, <1>10, <1>11, <1>12, <1>13, InUseUpdates DEF AtWorkSteps

LEMMA EndOldUpdates ==
  ASSUME TypeOK, TypeOK', StoreGuard, Updates, EndOldArea
  PROVE  Updates'
<1>1. /\ active \in Bank /\ Other(active) \in Bank /\ Other(active) # active
      /\ Other(Other(active)) = active /\ (active = 0 \/ active = 1)
      /\ flash \in [Bank -> Area] /\ flash[active] \in Area /\ mem \in Area
  BY Areas, Bits DEF Bank
<1>2. pc = "endOld" /\ mem = flash[active] /\ mem.state = HeaderState
  BY DEF EndOldArea, Updates
<1>3. /\ HeaderState \cup OldAreaBits \in SUBSET VALID_STATE_FLAGS
      /\ {"DELETED", "MARKED_FOR_UPDATE", "DATA_VALID"} \subseteq HeaderState \cup OldAreaBits
  BY DEF HeaderState, OldAreaBits, VALID_STATE_FLAGS
<1>4. /\ AddBits(Other(active), HeaderState \cup OldAreaBits)[active] = flash[active]
      /\ AddBits(Other(active), HeaderState \cup OldAreaBits)[Other(active)].state
           = flash[Other(active)].state \cup (HeaderState \cup OldAreaBits)
      /\ AddBits(Other(active), HeaderState \cup OldAreaBits)[Other(active)].hdr
           = flash[Other(active)].hdr
  BY <1>1, <1>3, AddedBits
<1>5. flash' = AddBits(Other(active), HeaderState \cup OldAreaBits)
      /\ pc' = "endNew" /\ active' = active /\ mem' = mem /\ caller' = caller
  BY <1>2 DEF EndOldArea
<1>6. /\ flash'[active] = flash[active] /\ ~Sound(flash'[active])
      /\ Dead(flash'[Other(active)]) /\ Marked(flash'[Other(active)])
      /\ flash'[Other(active)].hdr = flash[Other(active)].hdr
      /\ "DATA_VALID" \in flash'[Other(active)].state
  BY <1>2, <1>3, <1>4, <1>5, Bits DEF Dead, Marked, Sound
<1>7. caller # "repair" => Sound(flash'[Other(active)]) /\ Elected(flash') = Other(active)
  <2>1. caller # "repair" => Sound(flash'[Other(active)])
    BY <1>2, <1>6 DEF Updates, Sound, GcSteps
  <2>2. QED
    <3>1. ~Sound(flash'[Other(Other(active))])
      BY <1>1, <1>6
    <3>2. QED
      BY <1>1, <2>1, <3>1, ElectedAlone
<1>8. caller = "repair" => active = 1
  BY <1>2 DEF Updates, GcSteps
<1>9. Sound(flash'[1]) => Marked(flash'[1])
  BY <1>1, <1>6 DEF Other
<1>10. QED
  BY <1>2, <1>5, <1>6, <1>7, <1>8, <1>9 DEF Updates, AtWorkSteps, GcSteps, RepairSteps

LEMMA CollectUpdates ==
  ASSUME TypeOK, TypeOK', StoreGuard, Updates,
         \/ FixErase \/ FixHeader \/ EraseHeader \/ EraseBody \/ ProgramHeader
         \/ CopyVariable \/ CopyDone \/ EndOldArea \/ EndNewArea
  PROVE  Updates'
<1>1. /\ active \in Bank /\ Other(active) \in Bank /\ Other(active) # active
      /\ flash \in [Bank -> Area] /\ flash[active] \in Area /\ mem \in Area
      /\ flash = [flash EXCEPT ![active] = flash[active]]
  BY Areas, Bits
<1>2. ~Sound(Erased) /\ Erased \in Area
  BY ImageType DEF Sound, Erased
<1>3. CASE FixErase
  <2>1. /\ pc = "fixErase" /\ active = 0 /\ caller = "repair" /\ pc' = "fixHeader"
        /\ mem.state = BuildState \cup {"MARKED_FOR_UPDATE"} /\ (Sound(flash[1]) => Marked(flash[1]))
        /\ UNCHANGED <<active, mem, caller>> /\ flash' = [flash EXCEPT ![active] = Erased]
    BY <1>3 DEF FixErase, Updates, RepairSteps
  <2>2. flash'[1] = flash[1]
    BY <1>1, <2>1
  <2>3. QED
    BY <2>1, <2>2 DEF Updates, AtWorkSteps, GcSteps, RepairSteps
<1>4. CASE FixHeader
  <2>1. /\ pc = "fixHeader" /\ active = 0 /\ caller = "repair" /\ pc' = "erase"
        /\ Sound(flash[1]) => Marked(flash[1])
        /\ active' = 1 /\ caller' = caller /\ mem' = [mem EXCEPT !.state = HeaderState]
        /\ flash' = [flash EXCEPT ![active] = FormattedArea(mem.state)]
    BY <1>4 DEF FixHeader, Updates, RepairSteps, Other
  <2>2. flash'[1] = flash[1] /\ mem'.state = HeaderState
    BY <1>1, <2>1 DEF Area
  <2>3. QED
    BY <2>1, <2>2 DEF Updates, AtWorkSteps, GcSteps, RepairSteps
<1>5. CASE EraseHeader
  <2>1. [flash[active] EXCEPT !.hdr = FALSE, !.state = {}] \in Area
        /\ ~Sound([flash[active] EXCEPT !.hdr = FALSE, !.state = {}])
    BY <1>1 DEF Area, Sound
  <2>2. flash' = [flash EXCEPT ![active] = [flash[active] EXCEPT !.hdr = FALSE, !.state = {}]]
    BY <1>1, <1>5 DEF EraseHeader
  <2>3. pc = "erase" /\ pc' = "eraseBody" /\ UNCHANGED <<active, mem, caller>>
        /\ mem.state = HeaderState
    BY <1>5 DEF EraseHeader, Updates
  <2>4. QED
    BY <2>1, <2>2, <2>3, CollectingUpdates DEF GcSteps
<1>6. CASE EraseBody
  <2>1. pc = "eraseBody" /\ pc' = "header" /\ UNCHANGED <<active, mem, caller>>
        /\ mem.state = HeaderState /\ flash' = [flash EXCEPT ![active] = Erased]
    BY <1>6 DEF EraseBody, Updates
  <2>2. QED
    BY <1>2, <2>1, CollectingUpdates DEF GcSteps
<1>7. CASE ProgramHeader
  <2>1. mem.state = HeaderState /\ FormattedArea(mem.state) \in Area
    BY <1>1, <1>7, AreaOperations DEF ProgramHeader, Updates, Area
  <2>2. ~Sound(FormattedArea(mem.state)) /\ FormattedArea(mem.state).state = HeaderState
    BY <2>1, Bits DEF FormattedArea, Sound, Erased
  <2>3. /\ pc = "header" /\ pc' = (IF caller = "repair" THEN "endOld" ELSE "copy")
        /\ UNCHANGED <<active, caller>> /\ mem' = FormattedArea(mem.state)
        /\ flash' = [flash EXCEPT ![active] = FormattedArea(mem.state)]
    BY <1>7 DEF ProgramHeader
  <2>4. pc \in GcSteps /\ pc' \in GcSteps \ {"endNew"} /\ (caller' = "repair" => pc' # "copy")
        /\ pc' \in {"copy", "endOld"}
    BY <2>3 DEF GcSteps
  <2>5. QED
    BY <2>1, <2>2, <2>3, <2>4, CollectingUpdates
<1>8. CASE CopyVariable
  <2>1. PICK v \in Live(temp) \ Live(mem.vars) :
           flash' = Append(v, temp[v]) /\ mem' = Write(mem, v, temp[v])
    BY <1>8 DEF CopyVariable
  <2>2. flash' = [flash EXCEPT ![active] = Write(flash[active], v, temp[v])]
    BY <2>1 DEF Append
  <2>3. pc = "copy" /\ mem = flash[active] /\ mem.state = HeaderState /\ pc' = "copy"
        /\ UNCHANGED <<active, caller>>
    BY <1>8 DEF CopyVariable, Updates
  <2>4. v \in Var /\ temp[v] \in Val \cup {Absent}
    BY Areas, <2>1 DEF Contents, Live
  <2>5. Write(mem, v, temp[v]).state = HeaderState /\ Write(mem, v, temp[v]) \in Area
    BY <1>1, <2>3, <2>4, AreaOperations DEF Write, Area
  <2>6. ~Sound(Write(mem, v, temp[v]))
    BY <2>5, Bits DEF Sound
  <2>7. caller' # "repair"
    BY <2>3 DEF Updates, GcSteps
  <2>8. QED
    BY <2>1, <2>2, <2>3, <2>5, <2>6, <2>7, CollectingUpdates DEF GcSteps
<1>9. CASE CopyDone
  <2>1. pc = "copy" /\ mem = flash[active] /\ mem.state = HeaderState /\ pc' = "endOld"
        /\ UNCHANGED <<flash, active, mem, caller>>
    BY <1>9 DEF CopyDone, Updates
  <2>2. ~Sound(flash[active])
    BY <2>1, Bits DEF Sound
  <2>3. QED
    BY <1>1, <2>1, <2>2, CollectingUpdates DEF GcSteps
<1>10. QED
  BY <1>3, <1>4, <1>5, <1>6, <1>7, <1>8, <1>9, EndOldUpdates, EndNewUpdates

\* A store that is full sends the garbage collection back to the old area, with
\* the mirror of the new one.
LEMMA FullUpdates ==
  ASSUME Faultless, TypeOK, TypeOK', Updates, CopyFails
  PROVE  Updates'
<1>1. /\ active \in Bank /\ Other(active) \in Bank /\ mem \in Area /\ flash[active] \in Area
  BY Areas, Bits
<1>2. /\ pc = "copy" /\ flash' = flash /\ UpdateFailed(flash[active], FALSE)
      /\ active' = Other(active)
  BY NoneFails DEF CopyFails
<1>3. /\ flash[active].state = HeaderState /\ caller # "repair"
      /\ Sound(flash[Other(active)]) /\ Elected(flash) = Other(active)
      /\ Sound(flash[1]) => Marked(flash[1])
  BY <1>2 DEF Updates, GcSteps
<1>4. ~Sound(mem')
  <2>1. Sound(mem') <=> Sound(flash[active])
    BY <1>1, <1>2, FailedBuffer
  <2>2. QED
    BY <1>3, <2>1, Bits DEF Sound
<1>5. pc' \in {"check", "idle"}
  BY <1>2, <1>3, FailedSteps DEF UpdateFailed
<1>6. QED
  BY <1>2, <1>3, <1>4, <1>5 DEF Updates, AtWorkSteps, GcSteps, RepairSteps

\* Power is lost: only the last state byte of a garbage collection can leave a
\* backup area that is a store and not marked, and then the main one is DELETED.
LEMMA LossUpdates ==
  ASSUME TypeOK, TypeOK', StoreGuard, Updates, PowerLoss
  PROVE  Updates'
<1>1. /\ active \in Bank /\ Other(active) \in Bank /\ Other(active) # active
      /\ active = 0 \/ active = 1
      /\ Other(0) = 1 /\ Other(1) = 0 /\ 1 \in Bank /\ 0 \in Bank
      /\ flash \in [Bank -> Area] /\ flash' \in [Bank -> Area]
  BY Areas, Bits DEF Bank, Other, TypeOK
<1>2. pc' = "off" /\ ~media'
  BY DEF PowerLoss
<1>3. PICK f \in Partial : flash' = f
  BY DEF PowerLoss
<1>4. pc \notin {"off", "mark"} => (Sound(flash[1]) => Marked(flash[1]))
  BY DEF Updates
<1>5. SUFFICES ASSUME Sound(f[1])
               PROVE  Marked(f[1]) \/ Torn(f)
  <2>1. Sound(f[1]) => Marked(f[1]) \/ Torn(f)
    BY <1>5
  <2>2. QED
    BY <1>2, <1>3, <2>1 DEF Updates, AtWorkSteps, GcSteps, RepairSteps
<1>6. CASE pc \in {"append", "readd", "copy", "delete"}
  <2>1. SameHeaders(f)
    BY <1>6, PartialHeaders
  <2>2. QED
    BY <1>1, <1>3, <1>4, <1>5, <1>6, <2>1, SameElection
<1>7. CASE pc \in {"off", "failed", "init", "idle", "check", "set", "recover"}
  <2>1. f = flash
    BY <1>7, PartialHeaders
  <2>2. QED
    BY <1>5, <2>1 DEF Updates
<1>8. CASE pc \in {"erase", "eraseBody", "fixErase", "header"}
  <2>1. f[Other(active)] = flash[Other(active)]
        /\ (f[active] = flash[active] \/ ~Sound(f[active]))
    BY <1>8, PartialHeaders
  <2>2. f[1] = flash[1]
    BY <1>1, <1>5, <2>1
  <2>3. QED
    BY <1>4, <1>5, <1>8, <2>2
<1>9. CASE pc = "fixHeader"
  <2>1. active = 0 /\ f[Other(active)] = flash[Other(active)]
    BY <1>9, PartialHeaders DEF Updates, RepairSteps
  <2>2. QED
    BY <1>1, <1>4, <1>5, <1>9, <2>1
<1>10. CASE pc = "mark"
  <2>1. PICK s \in SUBSET VALID_STATE_FLAGS :
           s \subseteq {"MARKED_FOR_UPDATE"} /\ f = AddBits(active, s)
    BY <1>10, PartialHeaders
  <2>2. /\ \A c \in Bank : c # active => AddBits(active, s)[c] = flash[c]
        /\ AddBits(active, s)[active].hdr = flash[active].hdr
        /\ AddBits(active, s)[active].state = flash[active].state \cup s
    BY <1>1, AddedBits
  <2>3. /\ Sound(f[1]) <=> Sound(flash[1])
        /\ f[1].state = flash[1].state \/ Marked(f[1])
        /\ Sound(f[0]) <=> Sound(flash[0])
        /\ Dead(f[0]) <=> Dead(flash[0])
        /\ Marked(flash[1]) => Marked(f[1])
    <3>1. /\ f[active].hdr = flash[active].hdr /\ f[active].state = flash[active].state \cup s
          /\ f[Other(active)] = flash[Other(active)]
      BY <1>1, <2>1, <2>2
    <3>2. s = {} \/ "MARKED_FOR_UPDATE" \in s
      BY <2>1
    <3>3. "DATA_VALID" \notin s /\ "DELETED" \notin s
      BY <2>1
    <3>4. /\ Sound(f[active]) <=> Sound(flash[active])
          /\ f[active].state = flash[active].state \/ Marked(f[active])
          /\ Dead(f[active]) <=> Dead(flash[active])
          /\ Marked(flash[active]) => Marked(f[active])
      BY <3>1, <3>2, <3>3 DEF Sound, Dead, Marked
    <3>5. QED
      BY <1>1, <3>1, <3>4
  <2>4. Sound(flash[1]) => Marked(flash[1]) \/ Torn(flash)
    BY DEF Updates
  <2>5. QED
    BY <1>5, <2>3, <2>4 DEF Torn
<1>11. CASE pc = "endOld"
  <2>1. PICK s \in SUBSET VALID_STATE_FLAGS : s \subseteq OldAreaBits /\ f = AddBits(Other(active), s)
    BY <1>11, PartialHeaders
  <2>2. CASE active = 1
    <3>1. f[1] = flash[1]
      BY <1>1, <2>1, <2>2, AddedBits
    <3>2. QED
      BY <1>4, <1>5, <1>11, <3>1
  <2>3. CASE active = 0
    <3>1. Sound(flash[1])
      BY <1>1, <1>11, <2>3 DEF Updates, GcSteps
    <3>2. AddBits(1, s)[1].state = flash[1].state \cup s
      BY <1>1, AddedBits
    <3>3. QED
      BY <1>1, <1>4, <1>11, <2>1, <2>3, <3>1, <3>2 DEF Marked
  <2>4. QED
    BY <1>1, <2>2, <2>3
<1>12. CASE pc = "endNew"
  <2>1. PICK s \in SUBSET VALID_STATE_FLAGS : s \subseteq NewAreaBits /\ f = AddBits(active, s)
    BY <1>12, PartialHeaders
  <2>2. CASE active = 0
    <3>1. f[1] = flash[1]
      BY <1>1, <2>1, <2>2, AddedBits
    <3>2. QED
      BY <1>4, <1>5, <1>12, <3>1
  <2>3. CASE active = 1
    <3>1. /\ AddBits(1, s)[1].state = flash[1].state \cup s
          /\ AddBits(1, s)[0] = flash[0]
      BY <1>1, AddedBits
    <3>2. flash[1].state = HeaderState /\ Dead(flash[0])
      BY <1>1, <1>12, <2>3 DEF Updates
    <3>3. f[1].state = HeaderState \cup s /\ f[0] = flash[0]
      BY <2>1, <2>3, <3>1, <3>2
    <3>4. CASE "MARKED_FOR_UPDATE" \in s
      BY <3>3, <3>4 DEF Marked
    <3>5. CASE "MARKED_FOR_UPDATE" \notin s
      <4>1. "DATA_VALID" \in s
        BY <1>5, <3>3, Bits DEF Sound
      <4>2. s = {"DATA_VALID"}
        BY <2>1, <3>5, <4>1 DEF NewAreaBits
      <4>3. HeaderState \cup s = BuildState
        BY <4>2 DEF HeaderState, BuildState
      <4>4. QED
        BY <3>2, <3>3, <4>3 DEF Torn
    <3>6. QED
      BY <3>4, <3>5
  <2>4. QED
    BY <1>1, <2>2, <2>3
<1>13. QED
  BY <1>6, <1>7, <1>8, <1>9, <1>10, <1>11, <1>12 DEF TypeOK, Steps, GcSteps, RepairSteps

LEMMA UpdatesInit == Init => Updates
  BY DEF Init, Updates, Sound, Erased, Bank, AtWorkSteps, GcSteps, RepairSteps

LEMMA UpdatesStep ==
  Faultless /\ TypeOK /\ TypeOK' /\ StoreGuard /\ Calling /\ Updates /\ [Next]_vars
    => Updates'
<1> SUFFICES ASSUME Faultless, TypeOK, TypeOK', StoreGuard, Calling, Updates, [Next]_vars
             PROVE  Updates'
  OBVIOUS
<1>1. CASE MarkFails \/ AppendFails \/ DeleteFails \/ EraseFails \/ HeaderFails \/ EndFails
  BY <1>1, NoneFails DEF MarkFails, AppendFails, DeleteFails, EraseFails, HeaderFails, EndFails
<1>2. CASE Driver
  BY <1>1, <1>2, CallsUpdates, CollectUpdates, FullUpdates DEF Driver
<1>3. CASE DxeSetVariable
  <2>1. pc = "idle" /\ pc' = "check" /\ UNCHANGED <<flash, active, mem>>
    BY <1>3 DEF DxeSetVariable
  <2>2. QED
    BY <2>1 DEF Updates, AtWorkSteps, GcSteps, RepairSteps, InUse
<1>4. CASE PowerLoss
  BY <1>4, LossUpdates
<1>5. CASE Reflash
  <2>1. pc = "idle" /\ pc' = "idle" /\ UNCHANGED <<active, mem>>
        /\ (Sound(flash[1]) => Marked(flash[1])) /\ (Sound(mem) => mem.state # BuildState)
    BY <1>5 DEF Reflash, Updates
  <2>2. Rewritten(flash') /\ (flash'[1] = Erased \/ flash'[1] = flash[1])
    <3>1. flash \in [Bank -> Area]
      BY DEF TypeOK
    <3>2. QED
      BY <1>5, <3>1 DEF Reflash, Rewritten, Bank
  <2>3. Sound(flash'[1]) => Marked(flash'[1])
    BY <2>1, <2>2 DEF Sound, Erased
  <2>4. Sound(flash'[0]) /\ ~Marked(flash'[0]) /\ ~Dead(flash'[0])
    BY <2>2 DEF Rewritten, BuildImage, BuildState, Sound, Marked, Dead
  <2>5. Elected(flash') = 0
    BY <2>4 DEF Elected, GivesWay
  <2>6. QED
    BY <2>1, <2>2, <2>3, <2>4, <2>5 DEF Updates, AtWorkSteps, GcSteps, RepairSteps
<1>6. CASE UNCHANGED vars
  BY <1>6 DEF vars, Updates, InUse
<1>7. QED
  BY <1>2, <1>3, <1>4, <1>5, <1>6 DEF Next

LEMMA UpdatesCorrect == Faultless => (Spec => []Updates)
<1>1. SUFFICES ASSUME Faultless
               PROVE  Spec => []Updates
  OBVIOUS
<1>2. TypeOK /\ TypeOK' /\ StoreGuard /\ Calling /\ Updates /\ [Next]_vars => Updates'
  BY <1>1, UpdatesStep
<1>3. QED
  BY <1>2, UpdatesInit, TypeCorrect, GuardCorrect, CallingCorrect, PTL DEF Spec

\* CheckStore of the call: a variable it had to restore is restored, or it was
\* there; the image of the build brings only what it defines.
LEMMA CheckRestores ==
  ASSUME Faultless, TypeOK, Updates, Restoring, CheckStore
  PROVE  Restoring'
<1>1. pc = "check" /\ flash' = flash
  BY DEF CheckStore
<1>2. CASE Passes
  <2>1. pc' \in {"idle", "set"} /\ UNCHANGED <<mem, temp, ctx, media>>
    BY <1>2 DEF CheckStore, Finish, Passes
  <2>2. QED
    BY <1>1, <2>1 DEF Restoring
<1>3. CASE ~Passes
  <2>1. /\ HybridInterfaceReinitialize(active, mem.vars)
        /\ media' <=> HybridInterfaceCheckStore = "MEDIA_CHANGED"
    BY <1>3 DEF CheckStore, Passes
  <2>2. pc' \in {"mark", "init", "readd", "erase", "fixErase"}
    BY <2>1 DEF HybridInterfaceReinitialize, BeginGarbageCollection
  <2>3. CASE ~media'
    BY <2>2, <2>3 DEF Restoring
  <2>4. CASE media'
    <3>1. Rewritten(flash) /\ active \in Bank
      BY <1>1, <2>1, <2>4, Verdict, Areas
    <3>2. Selected(active) = 0 /\ Elected(flash) = 0 /\ Sound(flash[0])
      BY <1>1, <3>1, ElectedIsBooted DEF Updates
    <3>3. Valid(0)
      BY <3>2, ElectedIsBooted
    <3>4. mem' = BuildImage
      BY <2>1, <3>1, <3>2, <3>3 DEF HybridInterfaceReinitialize, Rewritten
    <3>5. mem'.vars = Default
      BY <3>4 DEF BuildImage
    <3>6. QED
      BY <2>2, <3>5 DEF Restoring, KeptOf
  <2>5. QED
    BY <2>3, <2>4
<1>4. QED
  BY <1>2, <1>3

LEMMA RestoringStep ==
  Faultless /\ TypeOK /\ TypeOK' /\ StoreGuard /\ Calling /\ Updates /\ Restoring /\ [Next]_vars
    => Restoring'
<1> SUFFICES ASSUME Faultless, TypeOK, TypeOK', StoreGuard, Calling, Updates, Restoring,
                    [Next]_vars
             PROVE  Restoring'
  OBVIOUS
<1>1. /\ mem \in Area /\ mem.vars \in Contents /\ temp \in Contents /\ Persistent \subseteq Var
  BY Areas, BanksAssumption DEF Area
\* Nothing is to be restored, or has been, in the other steps.
<1>2. ASSUME \/ pc' \notin {"mark", "readd", "check", "set"}
             \/ ~media'
             \/ pc' = "check" /\ ctx' # "second"
      PROVE  Restoring'
  BY <1>2 DEF Restoring
<1>3. CASE CheckStore
  BY <1>3, CheckRestores
<1>4. CASE Boot
  BY <1>2, <1>4 DEF Boot, Updates
<1>5. CASE MarkForUpdate
  <2>1. pc = "mark" /\ pc' \in {"init", "readd"} /\ UNCHANGED <<temp, media>>
        /\ mem' = [mem EXCEPT !.state = mem.state \cup {"MARKED_FOR_UPDATE"}]
    BY <1>5 DEF MarkForUpdate, ReinitializeDone
  <2>2. mem'.vars = mem.vars
    BY <1>1, <2>1 DEF Area
  <2>3. QED
    BY <2>1, <2>2 DEF Restoring, KeptOf
<1>6. CASE RestoreVariable
  <2>1. pc = "readd" /\ pc' = "readd" /\ UNCHANGED <<temp, media>>
    BY <1>6 DEF RestoreVariable
  <2>2. PICK v \in Missing : mem' = Write(mem, v, temp[v])
    BY <1>6 DEF RestoreVariable
  <2>3. mem'.vars = [mem.vars EXCEPT ![v] = temp[v]]
    BY <1>1, <2>2 DEF Write, Area
  <2>4. \A w \in Var : mem'.vars[w] \in {mem.vars[w], temp[w]}
    BY <1>1, <2>3 DEF Contents
  <2>5. QED
    BY <1>1, <2>1, <2>4 DEF Restoring, KeptOf
<1>7. CASE RestoreDone
  <2>1. pc = "readd" /\ Missing = {} /\ UNCHANGED <<mem, temp, media>> /\ CheckStoreDone
    BY <1>7 DEF RestoreDone
  <2>2. pc' \in {"check", "idle"}
    BY <2>1, FailedSteps
  <2>3. ASSUME media
        PROVE  \A v \in Persistent : temp[v] # Absent /\ Default[v] = Absent => mem.vars[v] = temp[v]
    <3>1. SUFFICES ASSUME NEW v \in Persistent, temp[v] # Absent, Default[v] = Absent
                   PROVE  mem.vars[v] = temp[v]
      OBVIOUS
    <3>2. mem.vars[v] \in {Absent, temp[v]}
      BY <2>1, <2>3, <3>1 DEF Restoring, KeptOf
    <3>3. v \in Live(temp) /\ v \notin Missing
      BY <1>1, <2>1, <3>1 DEF Live
    <3>4. v \in Live(mem.vars)
      BY <2>3, <3>3 DEF Missing
    <3>5. QED
      BY <3>2, <3>4 DEF Live
  <2>4. QED
    BY <2>1, <2>2, <2>3 DEF Restoring
<1>8. CASE EndNewArea
  <2>1. /\ pc = "endNew" /\ temp' = temp /\ media' = (media /\ caller # "repair")
        /\ caller # "repair" => mem.vars = temp
    BY <1>8 DEF EndNewArea, Calling
  <2>2. mem'.vars = mem.vars
    BY <1>8, EndNewUpdates
  <2>3. pc' \in {"idle", "check", "init", "readd"} /\ (pc' = "readd" => caller = "repair")
    BY <1>8 DEF EndNewArea, Finish, CheckStoreDone, ReinitializeDone
  <2>4. QED
    BY <2>1, <2>2, <2>3 DEF Restoring
<1>9. CASE CopyFails
  <2>1. pc = "copy" /\ UpdateFailed(flash'[active], FALSE)
    BY <1>9 DEF CopyFails
  <2>2. caller # "repair"
    BY <2>1 DEF Updates, GcSteps
  <2>3. pc' = "idle" \/ (pc' = "check" /\ ctx' = "final")
    BY <2>1, <2>2, FailedSteps DEF UpdateFailed
  <2>4. QED
    BY <1>2, <2>3
<1>10. CASE MarkFails \/ AppendFails \/ DeleteFails \/ EraseFails \/ HeaderFails \/ EndFails
  BY <1>10, NoneFails DEF MarkFails, AppendFails, DeleteFails, EraseFails, HeaderFails, EndFails
<1>11. CASE \/ InitNonVolatileVarStore \/ RestoreFails \/ ErrorRecovery
  <2>1. \/ pc' \in {"idle", "erase", "fixErase"}
        \/ pc' = "check" /\ ctx' = "final"
    BY <1>11 DEF InitNonVolatileVarStore, RestoreFails, ErrorRecovery, BeginGarbageCollection
  <2>2. QED
    BY <1>2, <2>1
<1>12. CASE Update \/ AppendRecord \/ DeleteVariable
  BY <1>2, <1>12 DEF Update, AppendRecord, DeleteVariable, Finish
<1>13. CASE FixErase \/ FixHeader \/ EraseHeader \/ EraseBody \/ ProgramHeader \/ CopyVariable
            \/ CopyDone \/ EndOldArea
  BY <1>2, <1>13 DEF FixErase, FixHeader, EraseHeader, EraseBody, ProgramHeader, CopyVariable,
     CopyDone, EndOldArea
<1>14. CASE DxeSetVariable \/ PowerLoss \/ Reflash
  BY <1>2, <1>14 DEF DxeSetVariable, PowerLoss, Reflash
<1>15. CASE UNCHANGED vars
  BY <1>15 DEF vars, Restoring, KeptOf
<1>16. QED
  BY <1>3, <1>4, <1>5, <1>6, <1>7, <1>8, <1>9, <1>10, <1>11, <1>12, <1>13, <1>14, <1>15
     DEF Next, Driver

\* The store a boot would find is what the driver works on.
LEMMA ElectedStore ==
  TypeOK /\ InUse => BootBank = active /\ Valid(active) /\ Store = mem.vars
<1>1. SUFFICES ASSUME TypeOK, InUse
               PROVE  BootBank = active /\ Valid(active) /\ Store = mem.vars
  OBVIOUS
<1>2. BootBank = active /\ Valid(active)
  BY <1>1, ElectedIsBooted DEF InUse
<1>3. QED
  BY <1>1, <1>2 DEF Store, InUse

LEMMA ElectedStoreNext ==
  (TypeOK /\ InUse => BootBank = active /\ Valid(active) /\ Store = mem.vars)'
  BY ElectedStore, PTL

\* What the call's last step leaves when it returns success.
LEMMA SuccessUpdates ==
  ASSUME Faultless, TypeOK, TypeOK', StoreGuard, Calling, Updates, [Next]_vars,
         op # NoOp, op' = NoOp, result' = "success"
  PROVE  Store'[op.var] = op.val
<1>1. Updates' /\ active \in Bank /\ flash \in [Bank -> Area] /\ mem \in Area
  BY UpdatesStep, Areas
<1>2. ASSUME InUse', mem'.vars[op.var] = op.val
      PROVE  Store'[op.var] = op.val
  BY <1>2, ElectedStoreNext
<1>3. CASE Update
  <2>1. pc = "set" /\ UNCHANGED <<flash, active, mem>> /\ mem.vars[op.var] = op.val
    BY <1>3 DEF Update, Finish
  <2>2. InUse'
    BY <2>1 DEF Updates, AtWorkSteps, InUse
  <2>3. QED
    BY <1>2, <2>1, <2>2
<1>4. CASE AppendRecord \/ DeleteVariable
  <2>1. /\ pc \in {"append", "delete"} /\ pc \in AtWorkSteps /\ op.var \in Var /\ active' = active
        /\ pc = "delete" => op.val = Absent
    BY <1>4 DEF AppendRecord, DeleteVariable, Calling, AtWorkSteps
  <2>2. \/ mem' = Write(mem, op.var, op.val) /\ flash' = Append(op.var, op.val)
        \/ /\ mem' = [mem EXCEPT !.vars[op.var] = Absent] /\ op.val = Absent
           /\ flash' = [flash EXCEPT ![active].vars[op.var] = Absent]
    BY <1>4 DEF AppendRecord, DeleteVariable, Calling
  <2>3. mem'.vars = [mem.vars EXCEPT ![op.var] = op.val]
    BY <1>1, <2>2 DEF Write, Area
  <2>4. op.val \in Val \cup {Absent}
    BY DEF TypeOK, Calls
  <2>5. SameHeaders(flash')
    <3>1. CASE flash' = Append(op.var, op.val)
      BY <2>1, <2>4, <3>1, RecordsKeepHeaders DEF SameHeaders
    <3>2. CASE flash' = [flash EXCEPT ![active].vars[op.var] = Absent]
      BY <3>2, RecordsKeepHeaders DEF SameHeaders
    <3>3. QED
      BY <2>2, <3>1, <3>2
  <2>6. InUse
    BY <2>1 DEF Updates
  <2>7. mem' = flash'[active]
    BY <1>1, <2>2, <2>6 DEF InUse, Append
  <2>8. Elected(flash') = Elected(flash) /\ Sound(flash'[active])
    BY <1>1, <2>5, <2>6, SameElection DEF InUse, TypeOK
  <2>9. InUse'
    BY <2>1, <2>6, <2>7, <2>8 DEF InUse
  <2>10. mem'.vars[op.var] = op.val
    BY <1>1, <2>1, <2>3 DEF Area, Contents
  <2>11. QED
    BY <1>2, <2>9, <2>10
<1>5. CASE EndNewArea
  <2>1. caller = "set" \/ (caller = "restore" /\ CheckStoreDone) \/ op' = op
    BY <1>5 DEF EndNewArea, ReinitializeDone
  <2>2. caller = "set"
    BY <2>1 DEF CheckStoreDone, Finish
  <2>3. mem.vars = temp /\ temp[op.var] = op.val
    BY <1>5, <2>2 DEF EndNewArea, Calling, GcSteps
  <2>4. InUse' /\ mem'.vars = mem.vars
    BY <1>5, EndNewUpdates
  <2>5. QED
    BY <1>2, <2>3, <2>4
\* The other steps leave the call alone, or end it with an error.
<1>6. CASE \/ Boot \/ InitNonVolatileVarStore \/ MarkForUpdate \/ RestoreVariable \/ RestoreFails
           \/ ErrorRecovery \/ FixErase \/ FixHeader \/ EraseHeader \/ EraseBody
           \/ ProgramHeader \/ CopyVariable \/ CopyDone \/ EndOldArea \/ Reflash
           \/ UNCHANGED vars
  <2>1. op' = op
    BY <1>6 DEF Boot, InitNonVolatileVarStore, MarkForUpdate, RestoreVariable, RestoreFails,
       ErrorRecovery, FixErase, FixHeader, EraseHeader, EraseBody, ProgramHeader, CopyVariable,
       CopyDone, EndOldArea, Reflash, vars, ReinitializeDone, HybridInterfaceReinitialize
  <2>2. QED
    BY <2>1
<1>7. CASE CheckStore \/ RestoreDone \/ MarkFails \/ AppendFails \/ DeleteFails
           \/ EraseFails \/ HeaderFails \/ CopyFails \/ EndFails
  <2>1. op' = op \/ result' = "error"
    BY <1>7 DEF CheckStore, RestoreDone, MarkFails, AppendFails, DeleteFails, EraseFails,
       HeaderFails, CopyFails, EndFails, CheckStoreDone, ReinitializeFailed, UpdateFailed,
       Finish, HybridInterfaceReinitialize
  <2>2. QED
    BY <2>1
<1>8. CASE DxeSetVariable
  <2>1. op'.var \in Var
    BY <1>8 DEF DxeSetVariable
  <2>2. QED
    BY <2>1, BanksAssumption DEF NoOp
<1>9. CASE PowerLoss
  BY <1>9 DEF PowerLoss
<1>10. QED
  BY <1>3, <1>4, <1>5, <1>6, <1>7, <1>8, <1>9 DEF Next, Driver

\* However often the areas are rewritten by a firmware update, SetVariable, error
\* recovery and the restoring of variables only go on when the mirror is what the
\* area that the next boot takes contains (CheckStore, Reinitialize).
THEOREM SyncedAfterUpdates == Faultless => (Spec => []SyncedWhenUsed)
<1>1. TypeOK /\ Updates => SyncedWhenUsed
  <2>1. SUFFICES ASSUME TypeOK, Updates, pc \in AtWorkSteps \cup {"mark"}
                 PROVE  active = BootBank /\ Valid(active) /\ mem = flash[active]
    BY DEF SyncedWhenUsed, AtWorkSteps
  <2>2. InUse
    BY <2>1 DEF Updates
  <2>3. QED
    BY <2>1, <2>2, ElectedStore DEF InUse
<1>2. QED
  BY <1>1, TypeCorrect, UpdatesCorrect, PTL

\* However often the areas are rewritten by a firmware update, a SetVariable call
\* that returns success is in the flash, where the next boot finds it.
THEOREM SuccessAfterUpdates == Faultless => (Spec => SuccessIsDurable)
<1>1. SUFFICES ASSUME Faultless
               PROVE  Spec => SuccessIsDurable
  OBVIOUS
<1>2. TypeOK /\ TypeOK' /\ StoreGuard /\ Calling /\ Updates /\ [Next]_vars =>
        [op # NoOp /\ op' = NoOp /\ result' = "success" => Store'[op.var] = op.val]_vars
  BY <1>1, SuccessUpdates
<1>3. QED
  BY <1>2, TypeCorrect, GuardCorrect, CallingCorrect, <1>1, UpdatesCorrect, PTL
     DEF Spec, SuccessIsDurable

\* A persistent variable that the new image does not define keeps its value when
\* SetVariable goes on after a firmware update: CheckStore recognises the new
\* image, and restores what it has taken from the old one (EFI_MEDIA_CHANGED).
THEOREM PersistentIsCarried == Faultless => (Spec => []PersistentCarriedOver)
<1>1. SUFFICES ASSUME Faultless
               PROVE  Spec => []PersistentCarriedOver
  OBVIOUS
<1>2. Init => Restoring
  BY DEF Init, Restoring
<1>3. TypeOK /\ TypeOK' /\ StoreGuard /\ Calling /\ Updates /\ Restoring /\ [Next]_vars
        => Restoring'
  BY <1>1, RestoringStep
<1>4. Restoring => PersistentCarriedOver
  BY DEF Restoring, PersistentCarriedOver
<1>5. Spec => []Updates
  BY <1>1, UpdatesCorrect
<1>6. QED
  BY <1>2, <1>3, <1>4, <1>5, TypeCorrect, GuardCorrect, CallingCorrect, PTL DEF Spec
=============================================================================
