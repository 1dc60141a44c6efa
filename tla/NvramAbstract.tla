-------------------------- MODULE NvramAbstract --------------------------
(***************************************************************************)
(* What the non-volatile variable store promises its callers when flash    *)
(* operations work: SetVariable takes effect in one step, at once and for  *)
(* good, however often power is lost.  A full store may shed the variables *)
(* the cleanup filter does not keep, in the same step; a configuration     *)
(* reset puts defaults back, in one step too.                              *)
(***************************************************************************)
CONSTANTS Var, Val, Absent, Persistent, Default

VARIABLES store,   \* the variables a boot would find
          op,      \* the SetVariable call in progress
          result   \* how the last call ended, "none" since power came on

NoOp == [var |-> Absent, val |-> Absent]

Init ==
    /\ store \in {Default, [v \in Var |-> Absent]}
    /\ op = NoOp /\ result = "none"

\* What the call in progress makes of the store, alone or after a cleanup.
Effects ==
    {[store EXCEPT ![op.var] = op.val],
     [v \in Var |-> IF v = op.var THEN op.val
                    ELSE IF v \in Persistent THEN store[v] ELSE Absent]}

Defaulted ==
    [v \in Var |-> IF Default[v] # Absent /\ (v \notin Persistent \/ store[v] = Absent)
                   THEN Default[v] ELSE store[v]]

Call ==
    /\ op = NoOp
    /\ \E v \in Var, d \in Val \cup {Absent} : op' = [var |-> v, val |-> d]
    /\ UNCHANGED <<store, result>>

\* A call that succeeds takes effect; one that fails changes nothing.
Succeed == op # NoOp /\ store' \in Effects /\ op' = NoOp /\ result' = "success"
Fail    == op # NoOp /\ UNCHANGED store /\ op' = NoOp /\ result' = "error"

\* A configuration reset, during a boot.
Reset == op = NoOp /\ result = "none" /\ store' = Defaulted /\ UNCHANGED <<op, result>>

\* Power is lost: what was in progress has taken effect, or has not.
PowerLoss ==
    /\ op' = NoOp /\ result' = "none"
    /\ \/ UNCHANGED store
       \/ op # NoOp /\ store' \in Effects
       \/ op = NoOp /\ result = "none" /\ store' = Defaulted

Next == Call \/ Succeed \/ Fail \/ Reset \/ PowerLoss

vars == <<store, op, result>>
Spec == Init /\ [][Next]_vars
===========================================================================
