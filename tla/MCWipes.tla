------------------------------- MODULE MCWipes -------------------------------
(* A small instance of Wipes for TLC: a layer and a location in a workspace, *)
(* a layer in another one.                                                   *)
EXTENDS Wipes

CONSTANTS l, m, x, o1, o2

ModelOfOthers == [d \in Others |-> "Location"]
Homes == [d \in Docs |-> IF d = m THEN o2 ELSE o1]
=============================================================================
