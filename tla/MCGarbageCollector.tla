-------------------------- MODULE MCGarbageCollector --------------------------
(***************************************************************************)
(* Instances of GarbageCollector.  The free nodes allowed follow the shape *)
(* of the expression in gcAction_test.go: none in a small pool, else some. *)
(***************************************************************************)
EXTENDS GarbageCollector

CONSTANTS p1, n1, n2

MCPoolOf == [n \in Nodes |-> p1]

\* "if (totalnodes < 2) { 0 } else { 1 }"
MCAllowed == [total \in 0..Cardinality(Nodes) |->
               [used \in 0..Cardinality(Nodes) |-> IF total < 2 THEN 0 ELSE 1]]
=============================================================================
