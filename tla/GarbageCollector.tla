--------------------------- MODULE GarbageCollector ---------------------------
(***************************************************************************)
(* The collector thread (gcAction.go): every cycle it counts the nodes and *)
(* the busy nodes of each pool, starts WarmUp where the pool has fewer     *)
(* free nodes than allowed_freexpr wants, and drains and removes the nodes *)
(* that were idle in CiclesToGc cycles in a row, but for the reserve.  The *)
(* thread runs beside everything else: between any two of its critical     *)
(* sections and API calls nodes come and go, allocations are placed, seen, *)
(* and stop, and scale-ups enter and leave the pools.                      *)
(*                                                                         *)
(* Nomad (running, draining) and the instances (gone) are external.  A     *)
(* pool knows them by events only: nodes and busy are what its maps hold.  *)
(***************************************************************************)
EXTENDS Integers, FiniteSets, Functions

CONSTANTS
  Pools,
  Nodes,
  PoolOf,       \* PoolOf[n]: the pool whose provider has the instance of n
  CiclesToGc,
  Allowed,      \* Allowed[total][busy]: what allowed_freexpr evaluates to
  Flaky,        \* nodes that may go down, and come back, on their own
  MaxReaders,   \* bound: holders of one pool's updrmvlock.RLock
  None

ASSUME CountAssumption == /\ CiclesToGc \in Nat \ {0}
                          /\ MaxReaders \in Nat
ASSUME PoolAssumption == /\ PoolOf \in [Nodes -> Pools]
                         /\ IsFiniteSet(Nodes)
                         /\ Flaky \subseteq Nodes
                         /\ None \notin Pools \cup Nodes
ASSUME AllowedAssumption ==
  LET counts == 0..Cardinality(Nodes)
  IN Allowed \in [counts -> [counts -> Int]]

VARIABLES
  nodes,       \* the keys of the nomadNodes of all pools
  busy,        \* nodes that allocations in nomadAllocs are on
  handling,    \* the node whose allocation processAllocs is about to enter
  running,     \* nodes Nomad runs allocations on
  draining,    \* nodes Nomad drains
  gone,        \* nodes whose instance the provider removed
  launched,    \* pools with a WarmUp goroutine that has yet to get the lock
  readers,     \* readers[p]: holders of updrmvlock.RLock
  pc,          \* "wait", "scan", "collect", "remove", "lock" or "provider"
  toScan,      \* pools this cycle has yet to count
  toVisit,     \* entries this cycle has yet to decide on
  seen,        \* seenEmptyCiclesCount of the entries of lnodesToGC, capped
  collecting,  \* the entries with Collecting set
  current,     \* lnodesToGCCurrentCicle
  allowed,     \* allowedfreeByPools
  deleted,     \* gcnodedesdeleted
  removing,    \* the pool whose RemoveNode runs
  targets,     \* nomadNodes of that RemoveNode
  idleFor,     \* history: consecutive counts that found the node idle
  reserve      \* history: allowed_freexpr when the pool was counted last

poolVars == <<nodes, busy, handling>>
extVars == <<running, draining, gone>>
lockVars == <<launched, readers>>
gcVars == <<pc, toScan, toVisit, seen, collecting, current, allowed, deleted,
            removing, targets, idleFor, reserve>>
vars == <<poolVars, extVars, lockVars, gcVars>>

NodesOf(p) == {n \in Nodes : PoolOf[n] = p}
NoneDeleted == [p \in Pools |-> {}]

Init == /\ nodes = {} /\ busy = {} /\ handling = None
        /\ running = {} /\ draining = {} /\ gone = {}
        /\ launched = {} /\ readers = [p \in Pools |-> 0]
        /\ pc = "wait"
        /\ toScan = {} /\ toVisit = {}
        /\ seen = <<>> /\ collecting = {} /\ current = {}
        /\ allowed = [p \in Pools |-> 0]
        /\ deleted = NoneDeleted
        /\ removing = None /\ targets = {}
        /\ idleFor = [n \in Nodes |-> 0]
        /\ reserve = [p \in Pools |-> 0]

-----------------------------------------------------------------------------
(* The surroundings: Nomad, the event handlers of the pools, the lock.     *)

NodeUp(n) ==
  /\ n \notin nodes \cup gone
  /\ nodes' = nodes \cup {n}
  /\ UNCHANGED <<busy, handling, extVars, lockVars, gcVars>>

\* The pool drops the node with its allocations.  A node whose instance is
\* gone goes down; a flaky one may, and loses what ran on it.
NodeDown(n) ==
  /\ n \in nodes \cap (gone \cup Flaky)
  /\ nodes' = nodes \ {n}
  /\ busy' = busy \ {n}
  /\ running' = running \ {n}
  /\ UNCHANGED <<handling, draining, gone, lockVars, gcVars>>

\* Nomad places an allocation, not on a node that is drained, and it ends.
Place(n) ==
  /\ n \in nodes \ (draining \cup gone \cup running)
  /\ running' = running \cup {n}
  /\ UNCHANGED <<poolVars, draining, gone, lockVars, gcVars>>

Finish(n) ==
  /\ n \in running
  /\ running' = running \ {n}
  /\ UNCHANGED <<poolVars, draining, gone, lockVars, gcVars>>

\* tryNomadAllocation checks the node and enters the allocation in two
\* critical sections; one that stopped is taken out.
AllocEvent(n) ==
  /\ handling = None
  /\ n \in (nodes \cap running) \ busy
  /\ handling' = n
  /\ UNCHANGED <<nodes, busy, extVars, lockVars, gcVars>>

AllocAdd ==
  /\ handling # None
  /\ busy' = busy \cup {handling}
  /\ handling' = None
  /\ UNCHANGED <<nodes, extVars, lockVars, gcVars>>

AllocStop(n) ==
  /\ handling = None
  /\ n \in (nodes \cap busy) \ running
  /\ busy' = busy \ {n}
  /\ UNCHANGED <<nodes, handling, extVars, lockVars, gcVars>>

\* Mutant: readers do not mind a RemoveNode.
ReadersOvertake(p) == readers[p] < MaxReaders

\* RLock is refused while RemoveNode holds the lock or waits for it.
CanRLock(p) == removing # p /\ readers[p] < MaxReaders

\* A WarmUp that was started, or an Update, gets the lock, and returns.
WarmUpEnters(p) ==
  /\ p \in launched
  /\ CanRLock(p)
  /\ launched' = launched \ {p}
  /\ readers' = [readers EXCEPT ![p] = @ + 1]
  /\ UNCHANGED <<poolVars, extVars, gcVars>>

UpdateEnters(p) ==
  /\ CanRLock(p)
  /\ readers' = [readers EXCEPT ![p] = @ + 1]
  /\ UNCHANGED <<launched, poolVars, extVars, gcVars>>

ReaderLeaves(p) ==
  /\ readers[p] > 0
  /\ readers' = [readers EXCEPT ![p] = @ - 1]
  /\ UNCHANGED <<launched, poolVars, extVars, gcVars>>

-----------------------------------------------------------------------------
(* A cycle: count every pool, forget, collect, remove. *)

StartCycle ==
  /\ pc = "wait"
  /\ pc' = "scan"
  /\ toScan' = Pools
  /\ current' = {}
  /\ allowed' = [p \in Pools |-> 0]
  /\ UNCHANGED <<poolVars, extVars, lockVars, toVisit, seen, collecting,
                 deleted, removing, targets, idleFor, reserve>>

Idle(p) == NodesOf(p) \cap (nodes \ busy)

\* One more idle cycle; the counter is only compared with CiclesToGc, so it
\* is kept no larger.
OneMore(k) == IF k < CiclesToGc THEN k + 1 ELSE k

\* Mutant: the cycle that creates an entry does not count.
SeenLate(p) ==
  [n \in DOMAIN seen \cup Idle(p) |->
     IF n \notin Idle(p) THEN seen[n]
     ELSE IF n \in DOMAIN seen THEN OneMore(seen[n]) ELSE 0]

\* The entries of lnodesToGC after the idle nodes of p were counted.
SeenAfter(p) ==
  [n \in DOMAIN seen \cup Idle(p) |->
     IF n \notin Idle(p) THEN seen[n]
     ELSE IF n \in DOMAIN seen THEN OneMore(seen[n]) ELSE 1]

\* A node that an allocation names is busy even if the pool has dropped it,
\* but counts as a node only while the pool has it.
Total(p) == Cardinality(NodesOf(p) \cap nodes)
Busy(p) == Cardinality(NodesOf(p) \cap busy)

FreeAllowed(p) == Allowed[Total(p)][Busy(p)]

\* Count pool p in one critical section.
Scan(p) ==
  /\ pc = "scan"
  /\ p \in toScan
  /\ toScan' = toScan \ {p}
  /\ seen' = SeenAfter(p)
  /\ current' = current \cup Idle(p)
  /\ allowed' = [allowed EXCEPT ![p] = FreeAllowed(p)]
  /\ launched' = IF FreeAllowed(p) > Total(p) - Busy(p) THEN launched \cup {p}
                                                       ELSE launched
  /\ reserve' = [reserve EXCEPT ![p] = FreeAllowed(p)]
  /\ idleFor' = [n \in Nodes |-> IF PoolOf[n] # p THEN idleFor[n]
                                 ELSE IF n \in nodes \ busy
                                      THEN OneMore(idleFor[n]) ELSE 0]
  /\ UNCHANGED <<poolVars, extVars, readers, pc, toVisit, collecting,
                 deleted, removing, targets>>

\* Mutant: entries that were not counted in this cycle stay.
KeepsAll == DOMAIN seen

\* The entries that survive the clean-up.
Remaining == DOMAIN seen \cap current

\* Entries of nodes that were not counted idle in this cycle are deleted.
Forget ==
  /\ pc = "scan"
  /\ toScan = {}
  /\ pc' = "collect"
  /\ seen' = Restrict(seen, Remaining)
  /\ collecting' = collecting \cap Remaining
  /\ toVisit' = Remaining
  /\ deleted' = NoneDeleted
  /\ UNCHANGED <<poolVars, extVars, lockVars, toScan, current, allowed,
                 removing, targets, idleFor, reserve>>

\* Mutant: one cycle too early.
DueEarly(n) == seen[n] + 1 >= CiclesToGc /\ n \notin collecting

Due(n) == seen[n] >= CiclesToGc /\ n \notin collecting

\* Mutant: the reserve is used up one node early.
ReserveLeftOne(p) == allowed[p] > 1

ReserveLeft(p) == allowed[p] > 0

Visit(n) == /\ pc = "collect"
            /\ n \in toVisit
            /\ toVisit' = toVisit \ {n}

PassOver(n) ==
  /\ Visit(n)
  /\ ~Due(n)
  /\ UNCHANGED <<poolVars, extVars, lockVars, pc, toScan, seen, collecting,
                 current, allowed, deleted, removing, targets, idleFor,
                 reserve>>

KeepFree(n) ==
  /\ Visit(n)
  /\ Due(n)
  /\ ReserveLeft(PoolOf[n])
  /\ allowed' = [allowed EXCEPT ![PoolOf[n]] = @ - 1]
  /\ UNCHANGED <<poolVars, extVars, lockVars, pc, toScan, seen, collecting,
                 current, deleted, removing, targets, idleFor, reserve>>

\* The node is drained, or the call fails; it is collected either way.
Collect(n, drained) ==
  /\ Visit(n)
  /\ Due(n)
  /\ ~ReserveLeft(PoolOf[n])
  /\ draining' = IF drained THEN draining \cup {n} ELSE draining
  /\ deleted' = [deleted EXCEPT ![PoolOf[n]] = @ \cup {n}]
  /\ collecting' = collecting \cup {n}
  /\ UNCHANGED <<poolVars, running, gone, lockVars, pc, toScan, seen, current,
                 allowed, removing, targets, idleFor, reserve>>

EndCollect ==
  /\ pc = "collect"
  /\ toVisit = {}
  /\ pc' = "remove"
  /\ UNCHANGED <<poolVars, extVars, lockVars, toScan, toVisit, seen,
                 collecting, current, allowed, deleted, removing, targets,
                 idleFor, reserve>>

\* RemoveNode of pool p asks for updrmvlock ...
RemoveCall(p) ==
  /\ pc = "remove"
  /\ deleted[p] # {}
  /\ pc' = "lock"
  /\ removing' = p
  /\ UNCHANGED <<poolVars, extVars, lockVars, toScan, toVisit, seen,
                 collecting, current, allowed, deleted, targets, idleFor,
                 reserve>>

\* The nodes the pool still knows.
Targets == deleted[removing] \cap nodes

\* ... gets it when the last reader left, looks the nodes up, ...
RemoveSelect ==
  /\ pc = "lock"
  /\ readers[removing] = 0
  /\ pc' = "provider"
  /\ targets' = Targets
  /\ UNCHANGED <<poolVars, extVars, lockVars, toScan, toVisit, seen,
                 collecting, current, allowed, deleted, removing, idleFor,
                 reserve>>

\* ... and the provider has terminated the instances when it returns.
RemoveReturn ==
  /\ pc = "provider"
  /\ pc' = "remove"
  /\ gone' = gone \cup targets
  /\ running' = running \ targets
  /\ deleted' = [deleted EXCEPT ![removing] = {}]
  /\ removing' = None
  /\ targets' = {}
  /\ UNCHANGED <<poolVars, draining, lockVars, toScan, toVisit, seen,
                 collecting, current, allowed, idleFor, reserve>>

EndCycle ==
  /\ pc = "remove"
  /\ deleted = NoneDeleted
  /\ pc' = "wait"
  /\ UNCHANGED <<poolVars, extVars, lockVars, toScan, toVisit, seen,
                 collecting, current, allowed, deleted, removing, targets,
                 idleFor, reserve>>

-----------------------------------------------------------------------------
CollectStep(n) == PassOver(n) \/ KeepFree(n) \/ \E d \in BOOLEAN : Collect(n, d)

Collector == \/ StartCycle
             \/ \E p \in Pools : Scan(p) \/ RemoveCall(p)
             \/ Forget
             \/ \E n \in Nodes : CollectStep(n)
             \/ EndCollect
             \/ RemoveSelect \/ RemoveReturn
             \/ EndCycle

Surroundings ==
  \/ \E n \in Nodes : \/ NodeUp(n) \/ NodeDown(n)
                      \/ Place(n) \/ Finish(n)
                      \/ AllocEvent(n) \/ AllocStop(n)
  \/ AllocAdd
  \/ \E p \in Pools : WarmUpEnters(p) \/ UpdateEnters(p) \/ ReaderLeaves(p)

Next == Collector \/ Surroundings

Spec == Init /\ [][Next]_vars

\* The ticker keeps firing and the collector runs; whoever holds the read
\* lock returns (hungprevention bounds an Update; of a WarmUp it is assumed
\* that its nodes come, see PoolHung); the event handlers run, and a node
\* whose instance is gone is reported down.
FairSpec == /\ Spec
            /\ WF_vars(Collector)
            /\ \A p \in Pools : WF_vars(ReaderLeaves(p))
            /\ WF_vars(AllocAdd)
            /\ \A n \in Nodes : WF_vars(n \in gone /\ NodeDown(n))

-----------------------------------------------------------------------------
TypeOK == /\ nodes \subseteq Nodes
          /\ busy \subseteq Nodes
          /\ handling \in Nodes \cup {None}
          /\ running \subseteq Nodes
          /\ draining \subseteq Nodes
          /\ gone \subseteq Nodes
          /\ launched \subseteq Pools
          /\ readers \in [Pools -> 0..MaxReaders]
          /\ pc \in {"wait", "scan", "collect", "remove", "lock", "provider"}
          /\ toScan \subseteq Pools
          /\ toVisit \subseteq Nodes
          /\ DOMAIN seen \subseteq Nodes
          /\ seen \in [DOMAIN seen -> 1..CiclesToGc]
          /\ collecting \subseteq DOMAIN seen
          /\ current \subseteq DOMAIN seen
          /\ allowed \in [Pools -> Int]
          /\ deleted \in [Pools -> SUBSET Nodes]
          /\ removing \in Pools \cup {None}
          /\ targets \subseteq Nodes
          /\ idleFor \in [Nodes -> 0..CiclesToGc]
          /\ reserve \in [Pools -> Int]

\* Outside a count, lnodesToGC holds exactly the nodes the last count of
\* their pool found idle, each with the number of counts in a row that did:
\* a node that was busy, or absent, in between starts again from one.
CountsConsecutive ==
  pc # "scan" =>
    /\ DOMAIN seen = {n \in Nodes : idleFor[n] > 0}
    /\ \A n \in DOMAIN seen : seen[n] = idleFor[n]

\* README.md line 46: the allowed free nodes "will not garbage collected".
\* Once a node of a pool is to be removed, at least allowed_freexpr nodes
\* that were counted idle are left alone, those of earlier cycles whose
\* removal is still under way not counted among them.
ReserveKept ==
  \A p \in Pools :
    deleted[p] # {} =>
      Cardinality({n \in NodesOf(p) : idleFor[n] > 0} \ collecting)
        >= reserve[p]

\* README.md line 44: an instance the provider removes was idle in the last
\* CiclesToGc counts of its pool, all of them, whatever came between.
RemovedWasIdle ==
  [][\A n \in gone' \ gone : idleFor[n] >= CiclesToGc]_vars

Positive(k) == IF k > 0 THEN k ELSE 0

\* The idle nodes of a pool that nobody collects and that are more than
\* allowed_freexpr wants do not stay so for ever: some are collected, or
\* used, or others change, although readers of the lock keep coming.
SurplusCollected ==
  \A p \in Pools : \A S \in SUBSET NodesOf(p) :
    []<>~(Idle(p) = S /\ Cardinality(S \ collecting) > Positive(FreeAllowed(p)))
=============================================================================
