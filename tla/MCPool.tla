------------------------------- MODULE MCPool -------------------------------
(***************************************************************************)
(* Instances of Pool: allocation a1 is of the job of the first thread, a2  *)
(* of the job of the second if there is one and of an unrelated job        *)
(* otherwise; with two nodes a2 is on the second.                          *)
(***************************************************************************)
EXTENDS Pool

CONSTANTS t1, t2, n1, n2, a1, a2

MCAllocs == {a1, a2}
MCNodeOf == [a \in MCAllocs |-> IF a = a2 /\ n2 \in Nodes THEN n2 ELSE n1]
MCJobOf == [a \in MCAllocs |-> IF a = a1 THEN t1
                               ELSE IF t2 \in Threads THEN t2 ELSE None]
=============================================================================
