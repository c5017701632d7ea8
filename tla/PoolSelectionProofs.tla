------------------------- MODULE PoolSelectionProofs -------------------------
(***************************************************************************)
(* Theorems about PoolSelection, for every set of pools and jobs, however  *)
(* long the configuration is and in whatever orders maps are visited.      *)
(*                                                                         *)
(* Between the feasibility check and the search nobody is lost that a pool *)
(* could run.  The pool that is taken is like the one that was found: the  *)
(* class has the full name in it, so that the nodes of a class differ in   *)
(* nothing (AlikeLemma), and the node itself is always one of its class,   *)
(* as the class is computed once (NamedLemma).                             *)
(***************************************************************************)
EXTENDS PoolSelection, TLAPS

-----------------------------------------------------------------------------
(* Names and classes. *)

\* Two pools that a class does not tell apart.
Alike(p, q) == p.attrs = q.attrs /\ p.cpu = q.cpu /\ p.mem = q.mem

\* A class tells sizes apart, although cpu and mem are not hashed with the
\* attributes.
LEMMA AlikeLemma ==
  ASSUME NEW p, NEW q, NEW o, NEW u, ComputeClass(p, o) = ComputeClass(q, u)
  PROVE  Alike(p, q)
<1>1. FullName(p) = FullName(q)
  BY DEF ComputeClass
<1>2. GetName(p) = GetName(q) /\ p.attrs = q.attrs
  BY <1>1 DEF FullName
<1> QED
  BY <1>2 DEF GetName, Alike

\* poolsByNames has every node of the call, and a pool like that of the node.
LEMMA PoolOfLemma ==
  ASSUME NEW i \in TestNodes
  PROVE  /\ PoolOf(NodeName(i)) \in Range(pools)
         /\ Alike(PoolOf(NodeName(i)), pools[i])
<1> DEFINE j == CHOOSE k \in TestNodes : NodeName(k) = NodeName(i)
<1>1. j \in TestNodes /\ NodeName(j) = NodeName(i)
  OBVIOUS
<1> HIDE DEF j
<1>2. Alike(pools[j], pools[i])
  BY <1>1, AlikeLemma DEF NodeName
<1>3. pools[j] \in Range(pools)
  BY <1>1 DEF TestNodes, Range
<1>4. PoolOf(NodeName(i)) = pools[j]
  BY DEF PoolOf, j
<1> QED
  BY <1>2, <1>3, <1>4

\* What the second half of GetOptimalPoolSpec makes of a node that fits: one
\* pool or more come into question, each like that of the node.
LEMMA NamedLemma ==
  ASSUME NEW g, NEW i \in TestNodes, Fits(pools[i], g)
  PROVE  /\ Named(NodeName(i), g) # {}
         /\ \A p \in Named(NodeName(i), g) : p \in Range(pools) /\ Alike(p, pools[i])
<1> DEFINE nodes == NodesOf(ClassIn(NodeName(i)))
<1>1. /\ i \in nodes
      /\ \A j \in nodes : j \in TestNodes /\ Alike(pools[j], pools[i])
  <2>1. ClassIn(NodeName(i)) = ComputeClass(pools[i], visited[i])
    BY DEF ClassIn, NodeName
  <2> QED
    BY <2>1, AlikeLemma DEF NodesOf
<1>2. Named(NodeName(i), g) = IF Cardinality(nodes) = 1 THEN {PoolOf(NodeName(i))}
                              ELSE {Answer(j, g) : j \in nodes}
  BY DEF Named
<1> HIDE DEF nodes
<1>3. ASSUME NEW j \in nodes
      PROVE  Answer(j, g) \in Range(pools) /\ Alike(Answer(j, g), pools[i])
  <2>1. Fits(pools[j], g)
    BY <1>1 DEF Alike, Fits, Suits
  <2>2. Answer(j, g) = PoolOf(NodeName(j))
    BY <2>1 DEF Answer
  <2> QED
    BY <1>1, <2>2, PoolOfLemma DEF Alike
<1> QED
  BY <1>1, <1>2, <1>3, PoolOfLemma

-----------------------------------------------------------------------------
(* The scheduler's answer. *)

\* What the stack may return: it fits, and if it has devices no pool without
\* fits.
LEMMA SuitableLemma ==
  ASSUME NEW g, NEW i \in Suitable(TestNodes, g)
  PROVE  /\ i \in TestNodes /\ Fits(pools[i], g)
         /\ pools[i].attrs.devices
              => \A p \in Range(pools) : ~p.attrs.devices => ~Runs(p, g)
<1>1. i \in TestNodes /\ Fits(pools[i], g)
  BY DEF Suitable, First, Fitting, Plain
<1>2. ASSUME pools[i].attrs.devices, NEW p \in Range(pools), ~p.attrs.devices,
             Runs(p, g)
      PROVE  FALSE
  <2>1. PICK j \in DOMAIN pools : p = pools[j]
    BY DEF Range
  <2>2. j \in Plain(TestNodes) /\ Fits(pools[j], g)
    BY <1>2, <2>1 DEF Plain, TestNodes, InDatacenter, Runs
  <2>3. First(TestNodes) = Plain(TestNodes)
    BY <2>2 DEF First
  <2>4. Fitting(First(TestNodes), g) # {}
    BY <2>2, <2>3 DEF Fitting
  <2>5. i \in Plain(TestNodes)
    BY <2>3, <2>4 DEF Suitable, Fitting
  <2> QED
    BY <1>2, <2>5 DEF Plain
<1> QED
  BY <1>1, <1>2

\* No pool can run a group.
Hopeless(g) == \A p \in Range(pools) : ~Runs(p, g)

\* The search leaves out only a group that no pool can run: it finds nothing,
\* with and without devices, and what it finds it finds again.
LEMMA SearchComplete ==
  ASSUME NEW g, NoEntry(g)
  PROVE  Hopeless(g)
<1>1. \A i \in Suitable(TestNodes, g) : Named(NodeName(i), g) # {}
  BY SuitableLemma, NamedLemma
<1>2. Fitting(TestNodes, g) = {}
  BY <1>1 DEF NoEntry, Suitable
<1> QED
  BY <1>2 DEF Fitting, TestNodes, InDatacenter, Hopeless, Runs, Range

-----------------------------------------------------------------------------
(* Nobody is lost. *)

\* Nothing is decided before the check, which only hopeless jobs fail; a
\* group is left out only if no pool can run it.
Decisions ==
  /\ stage \in {"check", "choose", "removed", "fired"}
  /\ job \in Jobs
  /\ stage = "check" => DOMAIN tgPools = {} /\ missing = {}
  /\ \A g \in missing : Hopeless(g)

\* After the search every group is decided; the event has those that are
\* short and have a pool.
Outcome ==
  /\ stage = "fired" =>
       Undecided = {} /\ DOMAIN event = job.short \cap DOMAIN tgPools
  /\ stage = "removed" =>
       \/ /\ DOMAIN tgPools = {} /\ missing = {}
          /\ \E g \in job.groups : Hopeless(g)
       \/ /\ Undecided = {}
          /\ DOMAIN event = job.short \cap DOMAIN tgPools

IInv == Decisions /\ Outcome

USE JobAssumption DEF IInv, Decisions, Outcome, Undecided

\* The check fails only for a job some group of which no pool can run: what
\* a group can run on is eligible and suits it.
LEMMA FeasibleComplete ==
  ASSUME job \in Jobs, ~Feasible
  PROVE  \E g \in job.groups : Hopeless(g)
<1>1. \A p \in Range(pools), g \in job.groups :
        Runs(p, g) => p \in Eligible /\ Suits(p, g)
  BY DEF Runs, Fits, Suits, Eligible, InDatacenter
<1>2. CASE Eligible = {}
  BY <1>1, <1>2 DEF Hopeless
<1>3. CASE \E g \in job.groups : \A p \in Eligible : ~Suits(p, g)
  BY <1>1, <1>3 DEF Hopeless
<1> QED
  BY <1>2, <1>3 DEF Feasible

LEMMA InitSound == Init => IInv
BY DEF Init

LEMMA NextSound ==
  ASSUME IInv, [Next]_vars
  PROVE  IInv'
<1>1. CASE UNCHANGED vars
  BY <1>1 DEF vars, Hopeless, Runs, Fits, Suits
<1>2. ASSUME UNCHANGED <<pools, job>>
      PROVE  \A g : Hopeless(g)' = Hopeless(g)
  BY <1>2 DEF Hopeless, Runs, Fits, Suits
<1>3. CASE RejectJob
  BY <1>2, <1>3, FeasibleComplete DEF RejectJob
<1>4. CASE StartSearch
  BY <1>2, <1>4 DEF StartSearch
<1>5. CASE \E g \in job.groups : ChoosePool(g)
  BY <1>2, <1>5 DEF ChoosePool
<1>6. CASE \E g \in job.groups : NoPool(g)
  BY <1>2, <1>6, SearchComplete DEF NoPool
<1>7. CASE MakeEvent
  <2>1. DOMAIN event' = job.short \cap DOMAIN tgPools
    BY <1>7 DEF MakeEvent, UnAllocated
  <2> QED
    BY <1>2, <1>7, <2>1 DEF MakeEvent
<1> QED
  BY <1>1, <1>3, <1>4, <1>5, <1>6, <1>7 DEF Next

\* The invariant is inductive.
THEOREM InductiveInvariant == Spec => []IInv
<1> HIDE DEF IInv
<1> QED
  BY InitSound, NextSound, PTL DEF Spec

\* No job is turned away that a configured pool could run
\* (feasiblePoolByConstraint.go 25-70, processEvals.go 110).
THEOREM CheckComplete == Spec => []RejectsOnlyHopeless
<1>1. IInv => RejectsOnlyHopeless
  BY DEF RejectsOnlyHopeless, Hopeless
<1> HIDE DEF IInv
<1> QED
  BY <1>1, InductiveInvariant, PTL

\* No short group is left out of its event that a configured pool could run
\* (poolnodespec.go 494-579, processEvals.go 128-142).
THEOREM SelectionComplete == Spec => []NoGroupLost
<1>1. IInv => NoGroupLost
  <2> SUFFICES ASSUME IInv,
                      stage = "fired" \/ (stage = "removed" /\ Undecided = {}),
                      NEW g \in job.short, \E p \in Range(pools) : Runs(p, g)
               PROVE  g \in DOMAIN event
    BY DEF NoGroupLost
  <2>1. g \in job.groups /\ ~Hopeless(g) /\ job.groups # {}
    BY DEF Hopeless
  <2> QED
    BY <2>1
<1> HIDE DEF IInv
<1> QED
  BY <1>1, InductiveInvariant, PTL

-----------------------------------------------------------------------------
(* The pool that is chosen. *)

\* What an entry of the map promises about the pool p of a group g.
GoodChoice(p, g) ==
  /\ p \in Range(pools) /\ Runs(p, g)
  /\ p.attrs.devices => \A q \in Range(pools) : ~q.attrs.devices => ~Runs(q, g)

\* What is taken is as good as what was found.
LEMMA ChoiceLemma ==
  ASSUME NEW g, NEW i \in Suitable(TestNodes, g), NEW p \in Named(NodeName(i), g)
  PROVE  GoodChoice(p, g)
<1>1. /\ i \in TestNodes /\ Fits(pools[i], g)
      /\ pools[i].attrs.devices
           => \A q \in Range(pools) : ~q.attrs.devices => ~Runs(q, g)
  BY SuitableLemma
<1>2. p \in Range(pools) /\ Alike(p, pools[i])
  BY <1>1, NamedLemma
<1>3. Runs(p, g)
  BY <1>1, <1>2 DEF Runs, Fits, Suits, Alike, TestNodes, InDatacenter
<1> QED
  BY <1>1, <1>2, <1>3 DEF GoodChoice, Alike

\* The map and the event: groups of the job, and an event only when there is
\* one to scale for.
Entries ==
  /\ Range(pools) \subseteq Universe
  /\ DOMAIN tgPools \subseteq job.groups
  /\ missing \subseteq job.groups \ DOMAIN tgPools
  /\ DOMAIN event \subseteq DOMAIN tgPools
  /\ stage = "fired" <=> DOMAIN event # {}

Chosen == \A g \in DOMAIN tgPools : GoodChoice(tgPools[g], g)

ChoicesSound == Entries /\ Chosen

LEMMA InitChoices == Init => ChoicesSound
<1> SUFFICES ASSUME Init
             PROVE  ChoicesSound
  OBVIOUS
<1>1. PICK m \in 0..MaxPools : pools \in [1..m -> Universe]
  BY DEF Init, BoundedSeq, SeqOf
<1>2. Range(pools) \subseteq Universe
  BY <1>1 DEF Range
<1>3. DOMAIN tgPools = {} /\ missing = {} /\ DOMAIN event = {} /\ stage = "check"
  BY DEF Init
<1> QED
  BY <1>2, <1>3 DEF ChoicesSound, Entries, Chosen

LEMMA NextChoices ==
  ASSUME ChoicesSound, [Next]_vars
  PROVE  ChoicesSound'
<1> USE DEF ChoicesSound, Entries, Chosen
<1>1. UNCHANGED <<pools, job>>
  BY DEF Next, vars, RejectJob, StartSearch, MakeEvent, ChoosePool, NoPool
<1>2. \A p, g : GoodChoice(p, g)' = GoodChoice(p, g)
  BY <1>1 DEF GoodChoice, Runs, Fits, Suits
<1>3. Range(pools)' = Range(pools)
  BY <1>1
<1>4. CASE UNCHANGED vars
  BY <1>2, <1>3, <1>4 DEF vars
<1>5. CASE RejectJob \/ StartSearch
  BY <1>2, <1>3, <1>5 DEF RejectJob, StartSearch
<1>6. CASE \E g \in job.groups : ChoosePool(g)
  <2>1. PICK g \in job.groups : ChoosePool(g)
    BY <1>6
  <2>2. PICK p : /\ \E i \in Suitable(TestNodes, g) : p \in Named(NodeName(i), g)
                 /\ tgPools' = [x \in DOMAIN tgPools \cup {g} |->
                                  IF x = g THEN p ELSE tgPools[x]]
    BY <2>1 DEF ChoosePool
  <2>3. GoodChoice(p, g)
    BY <2>2, ChoiceLemma
  <2>4. /\ stage = "choose" /\ g \notin DOMAIN tgPools /\ g \notin missing
        /\ UNCHANGED <<stage, missing, event>>
    BY <2>1 DEF ChoosePool, Undecided
  <2>5. Chosen'
    BY <1>2, <2>2, <2>3
  <2> QED
    BY <1>1, <1>3, <2>1, <2>2, <2>4, <2>5
<1>7. CASE \E g \in job.groups : NoPool(g)
  BY <1>2, <1>3, <1>7 DEF NoPool, Undecided
<1>8. CASE MakeEvent
  <2>1. /\ event' = UnAllocated /\ stage = "choose"
        /\ stage' = IF Fires THEN "fired" ELSE "removed"
        /\ UNCHANGED <<tgPools, missing>>
    BY <1>8 DEF MakeEvent
  <2>2. DOMAIN event' = DOMAIN UnAllocated /\ DOMAIN event' \subseteq DOMAIN tgPools
    BY <2>1 DEF UnAllocated
  <2> QED
    BY <1>1, <1>2, <1>3, <2>1, <2>2 DEF Fires
<1> QED
  BY <1>4, <1>5, <1>6, <1>7, <1>8 DEF Next

\* The invariant about the map is inductive.
THEOREM ChoicesInvariant == Spec => []ChoicesSound
BY InitChoices, NextChoices, PTL DEF Spec

\* No state holds anything but pools of the configuration for groups of the
\* job, and an event is fired exactly when it has a group (processEvals.go
\* 128-145).
THEOREM TypeCorrect == Spec => []TypeOK
<1>1. IInv /\ ChoicesSound => TypeOK
  <2> SUFFICES ASSUME IInv, ChoicesSound
               PROVE  TypeOK
    OBVIOUS
  <2>1. Range(tgPools) \subseteq Universe
    BY DEF ChoicesSound, Entries, Chosen, GoodChoice, Range
  <2> QED
    BY <2>1 DEF ChoicesSound, Entries, TypeOK
<1> HIDE DEF IInv
<1> QED
  BY <1>1, InductiveInvariant, ChoicesInvariant, PTL

\* A pool nodes are added to is one the group can run on, and none is nil,
\* also when a pool is listed twice (poolnodespec.go 539-586,
\* scalingAction.go 37).
THEOREM ChoiceFits == Spec => []ChosenFits
<1>1. ChoicesSound => ChosenFits
  BY DEF ChoicesSound, Chosen, GoodChoice, ChosenFits
<1> QED
  BY <1>1, ChoicesInvariant, PTL

\* Devices are the last resort, in both rounds of the search and in what is
\* made of its answer (poolnodespec.go 494-515, 560-586).
THEOREM DevicesSpared == Spec => []DevicesLastResort
<1>1. ChoicesSound => DevicesLastResort
  BY DEF ChoicesSound, Chosen, GoodChoice, DevicesLastResort
<1> QED
  BY <1>1, ChoicesInvariant, PTL
=============================================================================
