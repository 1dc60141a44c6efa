---------------------------- MODULE NvramState ----------------------------
(***************************************************************************)
(* The FFS file state byte that the AMI NVRAM driver uses as its journal,  *)
(* and the pure functions that pick the valid one of the two NVRAM areas.  *)
(* A state byte is the set of its bits; erase polarity is abstracted, so   *)
(* programming flash adds bits and erasing removes them.                   *)
(***************************************************************************)
EXTENDS Naturals

\* The five bits VALID_STATE_FLAGS is made of (NVRAM.h).
VALID_STATE_FLAGS ==
    {"HEADER_CONSTRUCTION", "HEADER_VALID", "DATA_VALID",
     "MARKED_FOR_UPDATE", "DELETED"}

\* EFI_FILE_HEADER_INVALID: the value reported for an area that has no
\* firmware volume header, or whose state byte is still empty.
HEADER_INVALID == {"HEADER_INVALID"}

\* What the build tools leave in the state byte of the NVRAM image.
BuildState == {"HEADER_CONSTRUCTION", "HEADER_VALID", "DATA_VALID"}

\* What BeginGarbageCollection programs into the area it has just erased.
HeaderState == {"HEADER_CONSTRUCTION", "HEADER_VALID"}

\* What EndGarbageCollection adds to the new area, and to the old one.
NewAreaBits == {"DATA_VALID", "MARKED_FOR_UPDATE"}
\* Mutant: the old area is not marked DELETED.
OldAreaBitsUndeleted == {"MARKED_FOR_UPDATE", "DATA_VALID"}
OldAreaBits == {"DELETED", "MARKED_FOR_UPDATE", "DATA_VALID"}

\* The state of a header: hdr says that the firmware volume header is sound.
GetNvramFfsFileState(area) ==
    IF area.hdr /\ area.state # {} THEN area.state ELSE HEADER_INVALID

StoreValid(s) == "DATA_VALID" \in s /\ s \subseteq VALID_STATE_FLAGS

\* TRUE when the store called main is the one to use.
CheckNvramStoreState(main, backup) ==
    IF StoreValid(main) /\ StoreValid(backup)
    THEN \/ "DELETED" \in backup
         \/ /\ "DELETED" \notin main
            /\ "MARKED_FOR_UPDATE" \in main => "MARKED_FOR_UPDATE" \in backup
    ELSE StoreValid(main)

\* The caller's rule: use main, unless main lost and backup is valid.
UseBackup(main, backup) ==
    ~CheckNvramStoreState(main, backup) /\ StoreValid(backup)


---------------------------------------------------------------------------
\* The table in the comment of CheckNvramStoreState and EndGarbageCollection: the
\* cycle the two areas go through, and the area that is to be used.  What is not
\* DATA_VALID is one stage, and so is a store with and without MARKED_FOR_UPDATE.
Stage(s) == IF ~StoreValid(s) THEN "none" ELSE IF "DELETED" \in s THEN "old" ELSE "store"

Transitions ==
    <<[main |-> "store", backup |-> "none",  use |-> 0],   \* 0, 1, 2 and 8
      [main |-> "old",   backup |-> "none",  use |-> 0],   \* 3
      [main |-> "old",   backup |-> "store", use |-> 1],   \* 4
      [main |-> "none",  backup |-> "store", use |-> 1],   \* 5
      [main |-> "none",  backup |-> "old",   use |-> 1],   \* 6
      [main |-> "store", backup |-> "old",   use |-> 0]>>  \* 7
Following(row) == IF row = 6 THEN 1 ELSE row + 1
===========================================================================
