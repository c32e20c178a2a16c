---------------------------- MODULE MCWeightPool ----------------------------
(* Instance of WeightPool: one table with an ordinary name, one whose name  *)
(* is so long that both its keys are cut to the same one.                   *)
EXTENDS WeightPool, TLC

CONSTANTS short, long

MCTables == {short, long}
MCUnits == 1 .. 9
MCPrefix == [t \in MCTables |-> t]
MCNameLen == (short :> 61) @@ (long :> 62)
MCRowKinds == {[val |-> 2, bias |-> 1], [val |-> 3, bias |-> 2]}
=============================================================================
