---------------------------- MODULE MCEventStream ----------------------------
(* Allocations on a node of the pool; any further node is of no pool. *)
EXTENDS EventStream

CONSTANTS n1, p1

MCNodeOf == [a \in Allocs |-> n1]
MCPoolOf == [n \in Nodes |-> IF n = n1 THEN p1 ELSE None]
=============================================================================
