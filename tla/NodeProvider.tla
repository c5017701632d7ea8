----------------------------- MODULE NodeProvider -----------------------------
(***************************************************************************)
(* What a pool and its node provider promise each other, whichever         *)
(* provider it is (nodeprovider/interface.go, pool.go).                    *)
(*                                                                         *)
(* Instances come and go as the cloud likes.  The provider stops only      *)
(* those that are condemned: by an UpdateNode, instances whose node has    *)
(* registered and that are not in the pool, and the pool does not change   *)
(* until UpdateNode has returned; by a RemoveNode, nodes of the pool.  At  *)
(* no time do two of these calls run.                                      *)
(***************************************************************************)
CONSTANT Instances  \* the instances the cloud may ever run for the pool

VARIABLES
  status,    \* status[i]: "none" yet, "live" or "gone"
  joined,    \* instances whose Nomad client registered a node
  nodes,     \* instances of the nodes in the pool
  caller,    \* who uses the provider: "nobody", "update" or "remove"
  condemned  \* instances that call may stop

vars == <<status, joined, nodes, caller, condemned>>

Init ==
  /\ status \in [Instances -> {"none", "live"}]
  /\ joined \in SUBSET {i \in Instances : status[i] = "live"}
  /\ nodes = {}
  /\ caller = "nobody" /\ condemned = {}

\* The cloud.
Launch(i) ==
  /\ status[i] = "none"
  /\ status' = [status EXCEPT ![i] = "live"]
  /\ UNCHANGED <<joined, nodes, caller, condemned>>

Fail(i) ==
  /\ status[i] = "live"
  /\ status' = [status EXCEPT ![i] = "gone"]
  /\ UNCHANGED <<joined, nodes, caller, condemned>>

Join(i) ==
  /\ status[i] = "live"
  /\ joined' = joined \cup {i}
  /\ UNCHANGED <<status, nodes, caller, condemned>>

\* The pool.
Enter(i) ==
  /\ caller # "update"
  /\ i \in joined
  /\ nodes' = nodes \cup {i}
  /\ UNCHANGED <<status, joined, caller, condemned>>

Leave(i) ==
  /\ caller # "update"
  /\ nodes' = nodes \ {i}
  /\ UNCHANGED <<status, joined, caller, condemned>>

\* UpdateNode is called, and finds strangers or none.
Update(S) ==
  /\ caller = "nobody"
  /\ S \subseteq joined \ nodes
  /\ caller' = "update" /\ condemned' = S
  /\ UNCHANGED <<status, joined, nodes>>

\* RemoveNode is called.
Remove(S) ==
  /\ caller = "nobody"
  /\ S \subseteq nodes
  /\ caller' = "remove" /\ condemned' = S
  /\ UNCHANGED <<status, joined, nodes>>

\* The call stops some of the condemned; it may then be done with all.
Stop(S) ==
  /\ S \subseteq condemned
  /\ status' = [i \in Instances |-> IF i \in S THEN "gone" ELSE status[i]]
  /\ condemned' \in {condemned, {}}
  /\ \/ caller' = caller
     \/ caller' = "nobody" /\ condemned' = {}
  /\ UNCHANGED <<joined, nodes>>

Next ==
  \/ \E i \in Instances : \/ Launch(i) \/ Fail(i) \/ Join(i)
                          \/ Enter(i) \/ Leave(i)
  \/ \E S \in SUBSET Instances : Update(S) \/ Remove(S) \/ Stop(S)

Spec == Init /\ [][Next]_vars
=============================================================================
