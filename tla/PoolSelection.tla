---------------------------- MODULE PoolSelection ----------------------------
(***************************************************************************)
(* From a blocked job to the pools it is scaled on: the feasibility check  *)
(* (feasiblePoolByConstraint.go), the choice of a pool for every task      *)
(* group (GetOptimalPoolSpec and getSuitableNodes in poolnodespec.go) and  *)
(* the event processEvals makes of it.                                     *)
(*                                                                         *)
(* A pool is a record of a size and of all its other attributes: the       *)
(* datacenter, the traits that constraints and drivers are checked         *)
(* against, devices.  A group asks for traits, perhaps for a device, and   *)
(* for a size.  Nothing keeps a configuration from listing a pool twice,   *)
(* so that pools are known by their position.                              *)
(*                                                                         *)
(* The Nomad scheduler is external.  Its stack shuffles the nodes and      *)
(* scores a few of them: Select returns any node the group fits on.        *)
(***************************************************************************)
EXTENDS Integers, FiniteSets, SequencesExt

CONSTANTS
  Universe,  \* pools that may be configured
  MaxPools,  \* pools that are configured at most
  Orders,    \* orders in which Go may visit the entries of a pool's maps
  Jobs,      \* jobs that may be blocked
  NilPool    \* a nil *PoolNodeSpec

ASSUME PoolAssumption == NilPool \notin Universe
ASSUME JobAssumption == \A j \in Jobs : j.groups # {} /\ j.short \subseteq j.groups

VARIABLES
  pools,    \* _poolSpecs, in the order of the configuration
  job,      \* the job: datacenters, traits, groups; those with failed
            \* placements and queued allocations are short
  stage,    \* where processEvals is
  visited,  \* position -> order in which the maps of the pool were visited
            \* when its class was computed
  tgPools,  \* GetOptimalPoolSpec: group -> pool, groups decided so far
  missing,  \* groups decided that get no entry
  event     \* unAllocatedTg of the event: group -> pool

vars == <<pools, job, stage, visited, tgPools, missing, event>>

Init == /\ pools \in BoundedSeq(Universe, MaxPools)
        /\ job \in Jobs
        /\ stage = "check"
        /\ visited = <<>>
        /\ tgPools = <<>> /\ missing = {}
        /\ event = <<>>

-----------------------------------------------------------------------------
(* What Nomad's checkers and its stack say. *)

InDatacenter(p) == p.attrs.dc \in job.dcs

\* The constraint, driver and device checks for a group.
Suits(p, g) == /\ job.traits \cup g.traits \subseteq p.attrs.traits
               /\ g.device => p.attrs.devices

\* A node of the pool passes the checks and has the resources.
Fits(p, g) == Suits(p, g) /\ g.cpu <= p.cpu /\ g.mem <= p.mem

-----------------------------------------------------------------------------
(* feasiblePoolByConstraint *)

Eligible == {p \in Range(pools) : InDatacenter(p)
                                    /\ job.traits \subseteq p.attrs.traits}

\* Mutant: a pool that fails the check of one group is not tried again.
FeasibleByOne == \E p \in Eligible : \A g \in job.groups : Suits(p, g)

\* Every group has a pool it could run on, were it only large enough.
Feasible == Eligible # {} /\ \A g \in job.groups :
                               \E p \in Eligible : Suits(p, g)

-----------------------------------------------------------------------------
(* Names and classes.  HashIncludeMap takes cpu, mem and disk out of the   *)
(* map Attributes, but the full name is hashed as well.  A map among the   *)
(* attributes (a provider, a device) is hashed in the order it is visited, *)
(* so that two computations of one class may differ.                       *)

GetName(p) == <<p.cpu, p.mem>>

\* The class in it is left out: what it tells apart, attributes and order do.
FullName(p) == [name |-> GetName(p), attrs |-> p.attrs]

\* Mutant: the full name is not set yet, as it is at line 33.
Nameless(p, o) == [attrs |-> p.attrs, order |-> o]

ComputeClass(p, o) == [fullName |-> FullName(p), attrs |-> p.attrs, order |-> o]

\* Mutant: the class is computed once more.
Rehashed(n) == [n[2] EXCEPT !.order = CHOOSE o \in Orders : o # @]

\* The class is cut out of the name of a node.
ClassIn(n) == n[2]

-----------------------------------------------------------------------------
(* getSuitableNodes, GetOptimalPoolSpec *)

Plain(S) == {i \in S : ~pools[i].attrs.devices}

\* Mutant: pools with devices compete from the start.
AllFirst(S) == S

\* Nodes tried first.
First(S) == IF Plain(S) # {} THEN Plain(S) ELSE S

Fitting(S, g) == {i \in S : Fits(pools[i], g)}

\* The nodes Select may return for g when it is offered S: those without
\* devices go first, and all are tried when none of them fits.
Suitable(S, g) == IF Fitting(First(S), g) # {} THEN Fitting(First(S), g)
                                               ELSE Fitting(S, g)

\* testNodes: one for each listed pool of a datacenter of the job.
TestNodes == {i \in DOMAIN pools : InDatacenter(pools[i])}

NodeName(i) == <<GetName(pools[i]), ComputeClass(pools[i], visited[i])>>

\* testNodesByGroups
NodesOf(c) == {i \in TestNodes : ComputeClass(pools[i], visited[i]) = c}

\* poolsByNames.  The last pool of a name is kept; they are all alike.
PoolOf(n) == pools[CHOOSE i \in TestNodes : NodeName(i) = n]

\* What getSuitableNodes answers for a single node.
Answer(i, g) == IF Fits(pools[i], g) THEN PoolOf(NodeName(i)) ELSE NilPool

\* The pool the map gets for g when Select returned the node named n.  Its
\* class has one node, or is sorted by size and the first is asked: since
\* those of a class have one size, any of them may be the first.
Named(n, g) == LET nodes == NodesOf(ClassIn(n))
               IN IF Cardinality(nodes) = 1 THEN {PoolOf(n)}
                                            ELSE {Answer(i, g) : i \in nodes}

\* No node fits, or there is none of the class that is looked for.
NoEntry(g) == \/ Suitable(TestNodes, g) = {}
              \/ \E i \in Suitable(TestNodes, g) : Named(NodeName(i), g) = {}

-----------------------------------------------------------------------------
(* The steps of processEvals. *)

RejectJob ==
  /\ stage = "check"
  /\ ~Feasible
  /\ stage' = "removed"
  /\ UNCHANGED <<pools, job, visited, tgPools, missing, event>>

\* GetOptimalPoolSpec computes the class of every pool once.
StartSearch ==
  /\ stage = "check"
  /\ Feasible
  /\ stage' = "choose"
  /\ visited' \in [DOMAIN pools -> Orders]
  /\ UNCHANGED <<pools, job, tgPools, missing, event>>

Undecided == job.groups \ (DOMAIN tgPools \cup missing)

ChoosePool(g) ==
  /\ stage = "choose"
  /\ g \in Undecided
  /\ \E i \in Suitable(TestNodes, g) : \E p \in Named(NodeName(i), g) :
       tgPools' = [x \in DOMAIN tgPools \cup {g} |->
                     IF x = g THEN p ELSE tgPools[x]]
  /\ UNCHANGED <<pools, job, stage, visited, missing, event>>

NoPool(g) ==
  /\ stage = "choose"
  /\ g \in Undecided
  /\ NoEntry(g)
  /\ missing' = missing \cup {g}
  /\ UNCHANGED <<pools, job, stage, visited, tgPools, event>>

\* unAllocatedTg: the groups that are short and have an entry.
UnAllocated == [g \in job.short \cap DOMAIN tgPools |-> tgPools[g]]

\* Mutant: an event is fired for nothing.
FiresAnyway == TRUE

Fires == DOMAIN UnAllocated # {}

\* The event is fired, or the chain removed.
MakeEvent ==
  /\ stage = "choose"
  /\ Undecided = {}
  /\ event' = UnAllocated
  /\ stage' = IF Fires THEN "fired" ELSE "removed"
  /\ UNCHANGED <<pools, job, visited, tgPools, missing>>

Next == \/ RejectJob \/ StartSearch \/ MakeEvent
        \/ \E g \in job.groups : ChoosePool(g) \/ NoPool(g)

Spec == Init /\ [][Next]_vars

-----------------------------------------------------------------------------
TypeOK ==
  /\ Range(pools) \subseteq Universe
  /\ stage \in {"check", "choose", "removed", "fired"}
  /\ DOMAIN tgPools \subseteq job.groups
  /\ Range(tgPools) \subseteq Universe \cup {NilPool}
  /\ missing \subseteq job.groups \ DOMAIN tgPools
  /\ DOMAIN event \subseteq DOMAIN tgPools
  /\ stage = "fired" <=> DOMAIN event # {}

\* Can run: in a datacenter of the job, on a node that fits.
Runs(p, g) == p.attrs.dc \in job.dcs /\ Fits(p, g)

\* Every entry of the map is a pool the group can run on, and none is nil,
\* which a scaling thread would dereference: the pool of the node that was
\* found is found again by the class and the name of that node, also when the
\* class has several nodes (poolnodespec.go 539-586, scalingAction.go 37).
ChosenFits == \A g \in DOMAIN tgPools : /\ tgPools[g] \in Range(pools)
                                        /\ Runs(tgPools[g], g)

\* The first check turns no job away that the search could serve, though they
\* decide by different means: if it fails there is a group no pool can run
\* (feasiblePoolByConstraint.go 25-70, processEvals.go 110).
RejectsOnlyHopeless ==
  stage = "removed" /\ Undecided = job.groups =>
    \E g \in job.groups : \A p \in Range(pools) : ~Runs(p, g)

\* A short group that some pool can run is in the event, whatever the others
\* of its job look like and however the classes were hashed
\* (poolnodespec.go 494-579, processEvals.go 128-142).
NoGroupLost ==
  stage = "fired" \/ (stage = "removed" /\ Undecided = {}) =>
    \A g \in job.short : (\E p \in Range(pools) : Runs(p, g))
                          => g \in DOMAIN event

\* README.md line 12: "it makes no sense to allocate instances with gpu for
\* loads that do not require gpu": a pool with devices is taken only if no
\* pool without can run the group (poolnodespec.go 494-515).
DevicesLastResort ==
  \A g \in DOMAIN tgPools :
    tgPools[g].attrs.devices
      => \A p \in Range(pools) : ~p.attrs.devices => ~Runs(p, g)
=============================================================================
