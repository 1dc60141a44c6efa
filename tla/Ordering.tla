------------------------------ MODULE Ordering ------------------------------
(***************************************************************************)
(* The elements of a finite set of numbers in their order, for the loops   *)
(* of the NVRAM code that pass over some of the records of a store.        *)
(***************************************************************************)
EXTENDS Naturals, FiniteSets

Nth(S, k) == CHOOSE i \in S : Cardinality({j \in S : j < i}) = k - 1
InOrder(S) == [k \in 1 .. Cardinality(S) |-> Nth(S, k)]
=============================================================================
