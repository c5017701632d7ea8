------------------------ MODULE GarbageCollectorProofs ------------------------
(***************************************************************************)
(* Theorems about GarbageCollector, for every set of pools and nodes,      *)
(* every number of cycles and every allowed_freexpr.                       *)
(*                                                                         *)
(* The history idleFor is written by Scan alone.  CountsSound relates it   *)
(* to lnodesToGC while a count is under way, pool by pool; CycleSound says *)
(* what a cycle has collected so far, and ReserveSound balances what is    *)
(* left of the reserve with the idle nodes the cycle has passed over.      *)
(***************************************************************************)
EXTENDS GarbageCollector, FiniteSetTheorems, TLAPS

\* A node of a pool this cycle has counted is in current if it was idle; a
\* pool it has yet to count is as the last cycle left it.
CountsSound ==
  pc = "scan" =>
    \A n \in Nodes :
      /\ PoolOf[n] \notin toScan => (n \in current <=> idleFor[n] > 0)
      /\ PoolOf[n] \in toScan => /\ n \notin current
                                 /\ n \in DOMAIN seen <=> idleFor[n] > 0
      /\ n \in DOMAIN seen /\ idleFor[n] > 0 => seen[n] = idleFor[n]

\* The nodes to remove are of the pool they are listed under and were idle
\* long enough; those the provider is asked to remove are among them.
CycleSound ==
  /\ pc \in {"wait", "scan"} => deleted = NoneDeleted
  /\ removing # None <=> pc \in {"lock", "provider"}
  /\ pc = "remove" => toVisit = {}
  /\ toVisit \subseteq DOMAIN seen
  /\ pc \in {"lock", "provider"} => toVisit = {}
  /\ pc # "provider" => targets = {}
  /\ pc = "provider" => targets \subseteq deleted[removing]
  /\ \A p \in Pools : \A n \in deleted[p] :
       PoolOf[n] = p /\ idleFor[n] >= CiclesToGc

\* The idle nodes of p that nobody collects and this cycle has decided on.
Left(p) == ({n \in NodesOf(p) : idleFor[n] > 0} \ collecting) \ toVisit

\* Every node the reserve was charged for is left, and the reserve of a pool
\* some node of which is to be removed was used up.
ReserveSound ==
  /\ pc = "scan" => \A p \in Pools \ toScan : allowed[p] = reserve[p]
  /\ pc \notin {"wait", "scan"} =>
       \A p \in Pools : /\ Cardinality(Left(p)) >= reserve[p] - allowed[p]
                        /\ deleted[p] # {} => allowed[p] <= 0

IInv == TypeOK /\ CountsConsecutive /\ CountsSound /\ CycleSound /\ ReserveSound

\* A set of nodes has a size, no larger than all of them.
LEMMA Countable ==
  ASSUME NEW S \in SUBSET Nodes
  PROVE  /\ IsFiniteSet(S) /\ Cardinality(S) \in Nat
         /\ Cardinality(S) \in 0..Cardinality(Nodes)
BY FS_Subset, FS_CardinalityType, PoolAssumption

\* The expression is defined for what a pool can count.
LEMMA FreeAllowedType ==
  ASSUME TypeOK, NEW p \in Pools
  PROVE  FreeAllowed(p) \in Int
<1>1. /\ NodesOf(p) \cap nodes \in SUBSET Nodes
      /\ NodesOf(p) \cap busy \in SUBSET Nodes
  BY DEF NodesOf
<1> QED
  BY <1>1, Countable, AllowedAssumption DEF FreeAllowed, Total, Busy

\* The lemmas on single steps look into the invariant and its parts.
USE CountAssumption, PoolAssumption
    DEF IInv, TypeOK, CountsConsecutive, CountsSound, CycleSound, ReserveSound,
        Left, poolVars, extVars, lockVars, gcVars

LEMMA InitSound == Init => IInv
<1> SUFFICES ASSUME Init
             PROVE  IInv
  OBVIOUS
<1>1. DOMAIN seen = {} /\ seen \in [DOMAIN seen -> 1..CiclesToGc]
  BY DEF Init
<1> QED
  BY <1>1 DEF Init, NoneDeleted

\* Nobody but the collector touches its variables.
LEMMA SurroundingsSound ==
  ASSUME IInv, Surroundings
  PROVE  IInv'
<1>1. UNCHANGED gcVars
  BY DEF Surroundings, NodeUp, NodeDown, Place, Finish, AllocEvent, AllocAdd,
         AllocStop, WarmUpEnters, UpdateEnters, ReaderLeaves
<1>2. /\ nodes' \subseteq Nodes /\ busy' \subseteq Nodes
      /\ handling' \in Nodes \cup {None}
      /\ running' \subseteq Nodes /\ draining' \subseteq Nodes
      /\ gone' \subseteq Nodes /\ launched' \subseteq Pools
      /\ readers' \in [Pools -> 0..MaxReaders]
  <2>1. CASE \E n \in Nodes : \/ NodeUp(n) \/ NodeDown(n)
                              \/ Place(n) \/ Finish(n)
                              \/ AllocEvent(n) \/ AllocStop(n)
    BY <2>1 DEF NodeUp, NodeDown, Place, Finish, AllocEvent, AllocStop
  <2>2. CASE AllocAdd
    BY <2>2 DEF AllocAdd
  <2>3. CASE \E p \in Pools : \/ WarmUpEnters(p) \/ UpdateEnters(p)
                              \/ ReaderLeaves(p)
    BY <2>3 DEF WarmUpEnters, UpdateEnters, ReaderLeaves, CanRLock
  <2> QED
    BY <2>1, <2>2, <2>3 DEF Surroundings
<1>3. TypeOK'
  BY <1>1, <1>2
<1>4. CountsConsecutive' /\ CountsSound'
  BY <1>1
<1>5. CycleSound'
  BY <1>1 DEF NoneDeleted
<1>6. ReserveSound'
  <2>1. \A p \in Pools : Left(p)' = Left(p)
    BY <1>1 DEF NodesOf
  <2> HIDE DEF Left
  <2> QED
    BY <1>1, <2>1
<1> QED
  BY <1>3, <1>4, <1>5, <1>6

\* A cycle begins with no pool counted.
LEMMA StartSound ==
  ASSUME IInv, StartCycle
  PROVE  IInv'
<1>1. TypeOK'
  BY DEF StartCycle
<1>2. CountsConsecutive' /\ CountsSound'
  BY DEF StartCycle
<1>3. CycleSound' /\ ReserveSound'
  BY DEF StartCycle, NoneDeleted
<1> QED
  BY <1>1, <1>2, <1>3

\* A count goes through one pool: its idle nodes are one count further, the
\* history of the others starts again.
LEMMA ScanSound ==
  ASSUME IInv, NEW p \in Pools, Scan(p)
  PROVE  IInv'
<1>1. /\ Idle(p) \subseteq Nodes /\ Idle(p) \subseteq nodes \ busy
      /\ \A n \in Nodes : n \in Idle(p) <=> PoolOf[n] = p /\ n \in nodes \ busy
  BY DEF Idle, NodesOf
<1>2. /\ DOMAIN seen' = DOMAIN seen \cup Idle(p)
      /\ \A n \in DOMAIN seen' :
           seen'[n] = IF n \notin Idle(p) THEN seen[n]
                      ELSE IF n \in DOMAIN seen THEN OneMore(seen[n]) ELSE 1
      /\ seen' = [n \in DOMAIN seen' |-> seen'[n]]
  BY DEF Scan, SeenAfter
<1>3. \A k \in 0..CiclesToGc : OneMore(k) \in 1..CiclesToGc
  BY DEF OneMore
<1>4. \A n \in Nodes :
        idleFor'[n] = IF PoolOf[n] # p THEN idleFor[n]
                      ELSE IF n \in nodes \ busy THEN OneMore(idleFor[n]) ELSE 0
  BY DEF Scan
<1>5. TypeOK'
  <2>1. \A n \in DOMAIN seen' : seen'[n] \in 1..CiclesToGc
    BY <1>2, <1>3
  <2>2. seen' \in [DOMAIN seen' -> 1..CiclesToGc]
    BY <1>2, <2>1, Zenon
  <2>3. idleFor' \in [Nodes -> 0..CiclesToGc]
    BY <1>3, <1>4 DEF Scan
  <2>4. allowed' \in [Pools -> Int] /\ reserve' \in [Pools -> Int]
    BY FreeAllowedType DEF Scan
  <2>5. DOMAIN seen' \subseteq Nodes /\ current' \subseteq DOMAIN seen'
        /\ collecting' \subseteq DOMAIN seen'
    BY <1>1, <1>2 DEF Scan
  <2>6. launched' \subseteq Pools /\ toScan' \subseteq Pools
    BY DEF Scan
  <2> QED
    BY <2>2, <2>3, <2>4, <2>5, <2>6 DEF Scan
<1>6. CountsSound'
  <2> SUFFICES ASSUME NEW n \in Nodes
               PROVE  /\ PoolOf[n] \notin toScan' =>
                           (n \in current' <=> idleFor'[n] > 0)
                      /\ PoolOf[n] \in toScan' =>
                           /\ n \notin current'
                           /\ n \in DOMAIN seen' <=> idleFor'[n] > 0
                      /\ n \in DOMAIN seen' /\ idleFor'[n] > 0 =>
                           seen'[n] = idleFor'[n]
    BY DEF Scan
  <2>1. CASE PoolOf[n] # p
    <3>1. /\ n \notin Idle(p) /\ idleFor'[n] = idleFor[n]
          /\ n \in current' <=> n \in current
          /\ PoolOf[n] \in toScan' <=> PoolOf[n] \in toScan
          /\ n \in DOMAIN seen' <=> n \in DOMAIN seen
          /\ n \in DOMAIN seen => seen'[n] = seen[n]
      BY <1>1, <1>2, <1>4, <2>1 DEF Scan
    <3> QED
      BY <3>1 DEF Scan
  <2>2. CASE PoolOf[n] = p /\ n \in nodes \ busy
    <3>1. n \in Idle(p) /\ n \in current' /\ PoolOf[n] \notin toScan'
      BY <1>1, <2>2 DEF Scan
    <3>2. idleFor'[n] = OneMore(idleFor[n]) /\ idleFor'[n] > 0
      BY <1>3, <1>4, <2>2
    <3>3. CASE n \in DOMAIN seen
      BY <1>2, <2>2, <3>1, <3>2, <3>3 DEF Scan
    <3>4. CASE n \notin DOMAIN seen
      <4>1. idleFor[n] = 0 /\ seen'[n] = 1
        BY <1>2, <2>2, <3>1, <3>4 DEF Scan
      <4> QED
        BY <3>1, <3>2, <4>1 DEF OneMore
    <3> QED
      BY <3>3, <3>4
  <2>3. CASE PoolOf[n] = p /\ n \notin nodes \ busy
    <3>1. n \notin Idle(p) /\ n \notin current' /\ idleFor'[n] = 0
          /\ PoolOf[n] \notin toScan'
      BY <1>1, <1>4, <2>3 DEF Scan
    <3> QED
      BY <3>1
  <2> QED
    BY <2>1, <2>2, <2>3
<1>7. CycleSound'
  BY <1>2 DEF Scan, NoneDeleted
<1>8. ReserveSound' /\ CountsConsecutive'
  BY DEF Scan
<1> QED
  BY <1>5, <1>6, <1>7, <1>8

\* Once every pool was counted the entries that stay are those counted.
LEMMA ForgetSound ==
  ASSUME IInv, Forget
  PROVE  IInv'
<1>1. /\ Remaining = current /\ DOMAIN seen' = current
      /\ \A n \in current : seen'[n] = seen[n]
      /\ seen' = [n \in current |-> seen'[n]]
  BY DEF Forget, Remaining, Restrict
<1>2. seen' \in [DOMAIN seen' -> 1..CiclesToGc]
  <2>1. \A n \in current : seen'[n] \in 1..CiclesToGc
    BY <1>1
  <2> QED
    BY <1>1, <2>1, Zenon
<1>3. TypeOK'
  BY <1>1, <1>2 DEF Forget, NoneDeleted
<1>4. \A n \in Nodes : n \in current <=> idleFor[n] > 0
  BY DEF Forget
<1>5. CountsConsecutive' /\ CountsSound'
  BY <1>1, <1>4 DEF Forget
<1>6. CycleSound'
  BY <1>1 DEF Forget, NoneDeleted
<1>7. ReserveSound'
  <2> SUFFICES ASSUME NEW p \in Pools
               PROVE  /\ Cardinality(Left(p)') >= reserve[p] - allowed[p]
                      /\ deleted'[p] = {}
    BY DEF Forget
  <2>1. Left(p)' \in SUBSET Nodes
    BY DEF NodesOf
  <2>2. allowed[p] = reserve[p] /\ deleted'[p] = {}
    BY DEF Forget, NoneDeleted
  <2> QED
    BY <2>1, <2>2, Countable
<1> QED
  BY <1>3, <1>5, <1>6, <1>7

\* An entry that is passed over is left, or collected already.
LEMMA PassOverSound ==
  ASSUME IInv, NEW n \in Nodes, PassOver(n)
  PROVE  IInv'
<1>1. TypeOK' /\ CountsConsecutive' /\ CountsSound' /\ CycleSound'
  BY DEF PassOver, Visit, NoneDeleted
<1>2. ReserveSound'
  <2> SUFFICES ASSUME NEW p \in Pools
               PROVE  /\ Cardinality(Left(p)') >= reserve[p] - allowed[p]
                      /\ deleted[p] # {} => allowed[p] <= 0
    BY DEF PassOver, Visit
  <2>1. Left(p) \in SUBSET Left(p)' /\ Left(p)' \in SUBSET Nodes
    BY DEF PassOver, Visit, NodesOf
  <2>2. /\ Cardinality(Left(p)) <= Cardinality(Left(p)')
        /\ Cardinality(Left(p)) \in Nat /\ Cardinality(Left(p)') \in Nat
    BY <2>1, Countable, FS_Subset
  <2> HIDE DEF Left
  <2> QED
    BY <2>2 DEF PassOver, Visit
<1> QED
  BY <1>1, <1>2

\* One that is kept free is left, and the reserve of its pool is charged.
LEMMA KeepFreeSound ==
  ASSUME IInv, NEW n \in Nodes, KeepFree(n)
  PROVE  IInv'
<1>1. TypeOK' /\ CountsConsecutive' /\ CountsSound' /\ CycleSound'
  BY DEF KeepFree, Visit, NoneDeleted
<1>2. ReserveSound'
  <2> SUFFICES ASSUME NEW p \in Pools
               PROVE  /\ Cardinality(Left(p)') >= reserve[p] - allowed'[p]
                      /\ deleted[p] # {} => allowed'[p] <= 0
    BY DEF KeepFree, Visit
  <2>1. Left(p) \in SUBSET Nodes /\ Left(p)' \in SUBSET Nodes
    BY DEF NodesOf
  <2>2. CASE PoolOf[n] = p
    <3>1. n \notin Left(p) /\ n \in Left(p)' /\ Left(p) \subseteq Left(p)'
      BY <2>2 DEF KeepFree, Visit, Due, NodesOf
    <3>2. Cardinality(Left(p) \cup {n}) = Cardinality(Left(p)) + 1
      BY <2>1, <3>1, Countable, FS_AddElement
    <3>3. /\ Cardinality(Left(p) \cup {n}) <= Cardinality(Left(p)')
          /\ Cardinality(Left(p)) \in Nat /\ Cardinality(Left(p)') \in Nat
      BY <2>1, <3>1, Countable, FS_Subset
    <3>4. allowed'[p] = allowed[p] - 1 /\ allowed[p] > 0
      BY <2>2 DEF KeepFree, ReserveLeft
    <3> HIDE DEF Left
    <3> QED
      BY <3>2, <3>3, <3>4 DEF KeepFree, Visit
  <2>3. CASE PoolOf[n] # p
    <3>1. Left(p)' = Left(p) /\ allowed'[p] = allowed[p]
      BY <2>3 DEF KeepFree, Visit, NodesOf
    <3> HIDE DEF Left
    <3> QED
      BY <3>1 DEF KeepFree, Visit
  <2> QED
    BY <2>2, <2>3
<1> QED
  BY <1>1, <1>2

\* One that is collected was not left before and is not now.
LEMMA CollectSound ==
  ASSUME IInv, NEW n \in Nodes, NEW drained \in BOOLEAN, Collect(n, drained)
  PROVE  IInv'
<1>1. n \in DOMAIN seen /\ seen[n] >= CiclesToGc /\ seen[n] = idleFor[n]
  BY DEF Collect, Visit, Due
<1>2. deleted' = [deleted EXCEPT ![PoolOf[n]] = @ \cup {n}]
  BY DEF Collect
<1>3. TypeOK' /\ CountsConsecutive' /\ CountsSound'
  BY <1>1, <1>2 DEF Collect, Visit
<1>4. CycleSound'
  BY <1>1, <1>2 DEF Collect, Visit
<1>5. ReserveSound'
  <2> SUFFICES ASSUME NEW p \in Pools
               PROVE  /\ Cardinality(Left(p)') >= reserve[p] - allowed[p]
                      /\ deleted'[p] # {} => allowed[p] <= 0
    BY DEF Collect, Visit
  <2>1. Left(p)' = Left(p)
    BY DEF Collect, Visit, NodesOf
  <2>2. deleted'[p] # {} => deleted[p] # {} \/ p = PoolOf[n]
    BY <1>2
  <2> HIDE DEF Left
  <2> QED
    BY <2>1, <2>2 DEF Collect, Visit, ReserveLeft
<1> QED
  BY <1>3, <1>4, <1>5

\* The removal keeps the count and what is left.
LEMMA RemovalSound ==
  ASSUME IInv,
         \/ EndCollect \/ RemoveSelect \/ RemoveReturn \/ EndCycle
         \/ \E p \in Pools : RemoveCall(p)
  PROVE  IInv'
<1>1. /\ UNCHANGED <<seen, collecting, current, allowed, idleFor, reserve,
                     toScan, toVisit, nodes, busy, handling, draining>>
      /\ UNCHANGED lockVars
      /\ pc # "scan" /\ pc' # "scan"
      /\ pc' # "wait" => pc \notin {"wait", "scan"}
      /\ \A p \in Pools : deleted'[p] \subseteq deleted[p]
      /\ deleted' \in [Pools -> SUBSET Nodes]
  BY DEF EndCollect, RemoveCall, RemoveSelect, RemoveReturn, EndCycle
<1>2. TypeOK'
  BY <1>1 DEF EndCollect, RemoveCall, RemoveSelect, RemoveReturn, EndCycle,
              Targets
<1>3. CountsConsecutive' /\ CountsSound'
  BY <1>1
<1>4. CycleSound'
  <2>1. /\ \A p \in Pools : \A n \in deleted'[p] :
             PoolOf[n] = p /\ idleFor'[n] >= CiclesToGc
        /\ toVisit' \subseteq DOMAIN seen'
    BY <1>1
  <2>2. CASE EndCollect
    BY <2>1, <2>2 DEF EndCollect
  <2>3. CASE \E p \in Pools : RemoveCall(p)
    BY <2>1, <2>3 DEF RemoveCall
  <2>4. CASE RemoveSelect
    BY <2>1, <2>4 DEF RemoveSelect, Targets
  <2>5. CASE RemoveReturn
    BY <2>1, <2>5 DEF RemoveReturn
  <2>6. CASE EndCycle
    BY <2>1, <2>6 DEF EndCycle
  <2> QED
    BY <2>2, <2>3, <2>4, <2>5, <2>6
<1>5. ReserveSound'
  <2> SUFFICES ASSUME pc' # "wait", NEW p \in Pools
               PROVE  /\ Cardinality(Left(p)') >= reserve[p] - allowed[p]
                      /\ deleted'[p] # {} => allowed[p] <= 0
    BY <1>1
  <2>1. Left(p)' = Left(p)
    BY <1>1 DEF NodesOf
  <2>2. deleted'[p] # {} => deleted[p] # {}
    BY <1>1
  <2> HIDE DEF Left
  <2> QED
    BY <1>1, <2>1, <2>2
<1> QED
  BY <1>2, <1>3, <1>4, <1>5

\* The invariant is inductive.
THEOREM InductiveInvariant == Spec => []IInv
<1>1. ASSUME IInv, UNCHANGED vars
      PROVE  IInv'
  <2>1. /\ UNCHANGED <<poolVars, extVars, lockVars, gcVars>>
        /\ \A p \in Pools : Left(p)' = Left(p)
    BY <1>1 DEF vars, NodesOf
  <2> HIDE DEF Left
  <2> QED
    BY <1>1, <2>1 DEF NoneDeleted
<1>2. IInv /\ [Next]_vars => IInv'
  <2> SUFFICES ASSUME IInv, Next
               PROVE  IInv'
    BY <1>1
  <2>1. CASE \E n \in Nodes : CollectStep(n)
    <3> HIDE DEF IInv
    <3> QED
      BY <2>1, PassOverSound, KeepFreeSound, CollectSound DEF CollectStep
  <2>2. CASE \E p \in Pools : Scan(p)
    <3> HIDE DEF IInv
    <3> QED
      BY <2>2, ScanSound
  <2>3. CASE Surroundings
    <3> HIDE DEF IInv
    <3> QED
      BY <2>3, SurroundingsSound
  <2>4. CASE StartCycle \/ Forget
    <3> HIDE DEF IInv
    <3> QED
      BY <2>4, StartSound, ForgetSound
  <2>5. CASE \/ EndCollect \/ RemoveSelect \/ RemoveReturn \/ EndCycle
             \/ \E p \in Pools : RemoveCall(p)
    <3> HIDE DEF IInv
    <3> QED
      BY <2>5, RemovalSound
  <2> QED
    BY <2>1, <2>2, <2>3, <2>4, <2>5 DEF Next, Collector
<1> HIDE DEF IInv
<1> QED
  BY <1>2, InitSound, PTL DEF Spec

\* Every variable keeps its type; lnodesToGC has an entry for every node a
\* cycle marks as being collected or has counted (gcAction.go 12-19, 48-59).
THEOREM TypeCorrect == Spec => []TypeOK
<1>1. IInv => TypeOK
  OBVIOUS
<1> HIDE DEF IInv
<1> QED
  BY <1>1, InductiveInvariant, PTL

\* Between the counts lnodesToGC has exactly the nodes the last count found
\* idle, with the length of their run of idle counts (gcAction.go 48-63, 81-91).
THEOREM CountingCorrect == Spec => []CountsConsecutive
<1>1. IInv => CountsConsecutive
  OBVIOUS
<1> HIDE DEF IInv
<1> QED
  BY <1>1, InductiveInvariant, PTL

\* A pool from which a node is to be removed keeps the idle nodes that
\* allowed_freexpr wants (gcAction.go 65-72, 96-114).
THEOREM ReserveCorrect == Spec => []ReserveKept
<1>1. ASSUME IInv, NEW p \in Pools, deleted[p] # {}
      PROVE  Cardinality({n \in NodesOf(p) : idleFor[n] > 0} \ collecting)
               >= reserve[p]
  <2> DEFINE Idlers == {n \in NodesOf(p) : idleFor[n] > 0} \ collecting
  <2>1. pc \notin {"wait", "scan"}
    BY <1>1 DEF NoneDeleted
  <2>2. Left(p) \in SUBSET Idlers /\ Idlers \in SUBSET Nodes
    BY DEF NodesOf
  <2>3. /\ Cardinality(Left(p)) <= Cardinality(Idlers)
        /\ Cardinality(Left(p)) \in Nat /\ Cardinality(Idlers) \in Nat
    BY <2>2, Countable, FS_Subset
  <2> HIDE DEF Left, Idlers
  <2>4. /\ Cardinality(Left(p)) >= reserve[p] - allowed[p] /\ allowed[p] <= 0
        /\ allowed[p] \in Int /\ reserve[p] \in Int
    BY <1>1, <2>1
  <2>5. Cardinality(Idlers) >= reserve[p]
    BY <2>3, <2>4
  <2> QED
    BY <2>5 DEF Idlers
<1>2. IInv => ReserveKept
  BY <1>1 DEF ReserveKept
<1> HIDE DEF IInv
<1> QED
  BY <1>2, InductiveInvariant, PTL

\* The provider is only asked to remove nodes that every one of the last
\* CiclesToGc counts of their pool found idle, whatever came between the
\* counts and the removal (gcAction.go 96-121).
THEOREM RemovalCorrect == Spec => RemovedWasIdle
<1>1. ASSUME IInv, [Next]_vars, NEW n \in gone' \ gone
      PROVE  idleFor[n] >= CiclesToGc
  <2>1. RemoveReturn
    BY <1>1 DEF vars, Next, Collector, CollectStep, Surroundings, StartCycle,
       Scan, Forget, PassOver, KeepFree, Collect, EndCollect, RemoveCall,
       RemoveSelect, EndCycle, NodeUp, NodeDown, Place, Finish, AllocEvent,
       AllocAdd, AllocStop, WarmUpEnters, UpdateEnters, ReaderLeaves
  <2>2. n \in deleted[removing] /\ removing \in Pools
    BY <1>1, <2>1 DEF RemoveReturn
  <2> QED
    BY <1>1, <2>2
<1>2. IInv /\ [Next]_vars =>
        [\A n \in gone' \ gone : idleFor[n] >= CiclesToGc]_vars
  BY <1>1
<1> HIDE DEF IInv
<1> QED
  BY <1>2, InductiveInvariant, PTL DEF Spec, RemovedWasIdle
=============================================================================
