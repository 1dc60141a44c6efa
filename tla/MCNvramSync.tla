----------------------------- MODULE MCNvramSync ----------------------------
(* Values of the constants of NvramSync for TLC. *)
EXTENDS NvramSync

CONSTANTS x

\* No step depends on what the last call returned.
MCView == <<copies, mailbox, mor, pc, arg, pos, counts, ghosts>>
=============================================================================
