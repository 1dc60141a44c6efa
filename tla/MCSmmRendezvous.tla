-------------------------- MODULE MCSmmRendezvous --------------------------
(***************************************************************************)
(* SmmRendezvous on two or three processors.                               *)
(***************************************************************************)
EXTENDS SmmRendezvous, TLC

CONSTANTS c0, c1, c2 \* processors

\* Without a default BSP the processors are interchangeable; liveness is
\* checked without symmetry.
Symmetry == Permutations(Cpu)
===========================================================================
