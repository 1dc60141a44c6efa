--------------------------- MODULE MCNvramBanks ---------------------------
(* Values of the constants of NvramBanks for TLC. *)
EXTENDS NvramBanks, TLC

CONSTANTS v1, v2, v3, a, b

\* The image of the build defines v1 and gives it the value a.
MCDefault == [v \in Var |-> IF v = v1 THEN a ELSE Absent]

\* Only v1 is in the image of the build and is persistent.
Symmetry == Permutations({v2, v3})
===========================================================================
