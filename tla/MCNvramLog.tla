----------------------------- MODULE MCNvramLog -----------------------------
(* Values of the constants of NvramLog for TLC. *)
EXTENDS NvramLog, TLC

CONSTANTS n1, n2, g1, g2, x, y

\* Every name occurs with every GUID.
MCVar == [name : {n1, n2}, guid : {g1, g2}]
MCPersistent == [name : {n1, n2}, guid : {g1}]
\* No step depends on how the last call ended.
MCView == <<log, guids, info, index, indexOn, pc, op, rec, faults, store>>
MCSymmetry == Permutations({x, y}) \cup Permutations({n1, n2})
=============================================================================
