-------------------------- MODULE MCEvalProcessor --------------------------
(***************************************************************************)
(* Instances of EvalProcessor: evaluation n belongs to the first job when  *)
(* n is odd and to the second when n is even, so that two chains compete   *)
(* and one of them can grow beyond its head.                               *)
(***************************************************************************)
EXTENDS EvalProcessor

CONSTANTS j1, j2, MaxEval

MCJobs == {j1, j2}
MCEvals == 1..MaxEval
MCJobOf == [e \in MCEvals |-> IF e % 2 = 1 THEN j1 ELSE j2]
=============================================================================
