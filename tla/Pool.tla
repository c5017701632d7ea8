-------------------------------- MODULE Pool --------------------------------
(***************************************************************************)
(* One node pool (pool.go): the nodes and allocations Nomad reported for   *)
(* it, the ephemeral nodes and allocations of scale-ups that are under way *)
(* and the goroutines that meet here:                                      *)
(*                                                                         *)
(*   - processNodes and processAllocs feed tryNomadNode and                *)
(*     tryNomadAllocation with the events of the Nomad stream, one at a    *)
(*     time each, but independently of each other;                         *)
(*   - the scaling threads estimate how many nodes an event needs          *)
(*     (estimateRequiredNodes.go), call Update and wait in it;             *)
(*   - the collector starts WarmUp goroutines and calls RemoveNode.        *)
(*                                                                         *)
(* A critical section of p.lock in which nothing can block is one action;  *)
(* the sections that call the provider or send to a subscriber while they  *)
(* hold the lock keep it (variable lock) over several actions.  updrmvlock *)
(* is a readers-writer lock that prefers a waiting writer, as Go's does;   *)
(* nobody waits for it with p.lock held, so an RLock and the p.lock taken  *)
(* right after it are one action.                                          *)
(* The node provider is external: a call of it returns some time, with or  *)
(* without an error.                                                       *)
(***************************************************************************)
EXTENDS Integers, Sequences, FiniteSets, Functions

CONSTANTS
  Threads,   \* the scaling threads; each scales for one job at a time
  Warmers,   \* WarmUp goroutines
  Nodes,     \* the nodes Nomad may report
  Allocs,    \* the allocations Nomad may report
  NodeOf,    \* NodeOf[a]: the node allocation a is on
  JobOf,     \* JobOf[a]: the thread whose job and group a is of, or None
  Want,      \* allocations an event asks for
  Cap,       \* allocations that fit on one node
  MaxWarm,   \* nodes one WarmUp adds at most
  Free,      \* p.lock is not held
  None

ASSUME SizeAssumption == /\ Want \in Nat \ {0}
                         /\ Cap \in Nat \ {0}
                         /\ MaxWarm \in Nat
ASSUME AllocAssumption == /\ NodeOf \in [Allocs -> Nodes]
                          /\ JobOf \in [Allocs -> Threads \cup {None}]
ASSUME NamesAssumption ==
  /\ None \notin Threads \cup Nodes \cup Allocs
  /\ Free \notin Threads \cup Warmers \cup {"nodes", "allocs"}
  /\ Threads \cap Warmers = {}
  /\ (Threads \cup Warmers) \cap {"nodes", "allocs"} = {}

\* n ephemeral nodes, or allocations, of a scale-up of t.
Batch(t, n) == [i \in 1..n |-> <<t, i>>]

EphAllocs(t) == Range(Batch(t, Want))   \* _ea of a scale-up of t
EphNodes(t) == Range(Batch(t, Want))    \* its candidates for _en
AllEph == UNION {EphAllocs(t) : t \in Threads}

VARIABLES
  lock,       \* the holder of p.lock across actions, or Free
  readers,    \* holders of updrmvlock.RLock
  remover,    \* RemoveNode: "idle", "waiting" for the lock, "locked"
  nodes,      \* keys of p.nomadNodes
  allocs,     \* keys of p.nomadAllocs
  ephNodes,   \* p.ephemeralnomadNodes
  ephAllocs,  \* p.ephemeralnomadAllocs
  on,         \* the ephemeral node each ephemeral allocation is placed on
  nodeSubs,   \* open subscriptions in p.countNodesPubCh
  allocSubs,  \* open subscriptions in p.countAllocsPubCh
  nh,         \* processNodes: the event it handles and how far it is
  ah,         \* processAllocs: likewise
  pc,         \* pc[t]: where scaling thread t is
  en,         \* en[t]: len(_en) of its Update
  waitCount,  \* waitCount[p] of an Update or WarmUp
  placed,     \* placed[t]: len(allocationsPlaced)
  timerOn,    \* waitAllocsTimer[t] is running
  wpc         \* wpc[w]: where WarmUp goroutine w is

dataVars == <<nodes, allocs, ephNodes, ephAllocs, on>>
subVars == <<nodeSubs, allocSubs>>
threadVars == <<pc, en, placed, timerOn>>
lockVars == <<lock, readers, remover>>
vars == <<lockVars, dataVars, subVars, nh, ah, threadVars, waitCount, wpc>>

IdleNode == [pc |-> "idle", count |-> 0, pending |-> {}]
IdleAlloc == [pc |-> "idle", alloc |-> None, run |-> FALSE, eph |-> None,
              pending |-> {}]

Init == /\ lock = Free /\ readers = {} /\ remover = "idle"
        /\ nodes = {} /\ allocs = {}
        /\ ephNodes = <<>> /\ ephAllocs = <<>> /\ on = <<>>
        /\ nodeSubs = {} /\ allocSubs = {}
        /\ nh = IdleNode /\ ah = IdleAlloc
        /\ pc = [t \in Threads |-> "idle"]
        /\ en = [t \in Threads |-> 0]
        /\ waitCount = [p \in Threads \cup Warmers |-> 0]
        /\ placed = [t \in Threads |-> 0]
        /\ timerOn = [t \in Threads |-> FALSE]
        /\ wpc = [w \in Warmers |-> "idle"]

Count == Cardinality(nodes)

\* The pool size to ask for and to wait for: k more than there are.
TargetSize(k) == Count + k

\* A slice without the members of S, the order of the others kept.
Minus(s, S) ==
  LET keep == {i \in DOMAIN s : s[i] \notin S}
      place(i) == Cardinality({j \in keep : j <= i})
  IN [k \in 1..Cardinality(keep) |-> s[CHOOSE i \in keep : place(i) = k]]

-----------------------------------------------------------------------------
(* tryNomadNode *)

\* A node that is not down is entered; a new one is published.  (The pool is
\* looked up first and the provider asked whether an unknown instance is its
\* own, in a critical section before this one; but nobody else writes
\* nomadNodes, so what was seen there still holds.)
NodeUp(n) ==
  /\ nh.pc = "idle"
  /\ lock = Free
  /\ nodes' = nodes \cup {n}
  /\ nh' = IF n \in nodes THEN nh
           ELSE [nh EXCEPT !.pc = "publish", !.count = Cardinality(nodes')]
  /\ UNCHANGED <<lockVars, allocs, ephNodes, ephAllocs, on, subVars, ah,
                 threadVars, waitCount, wpc>>

\* A node that is down goes, with the allocations the pool has on it.
NodeDown(n) ==
  /\ nh.pc = "idle"
  /\ lock = Free
  /\ nodes' = nodes \ {n}
  /\ allocs' = {a \in allocs : NodeOf[a] # n}
  /\ UNCHANGED <<lockVars, ephNodes, ephAllocs, on, subVars, nh, ah,
                 threadVars, waitCount, wpc>>

\* Publish the new count: lock, go through the subscribers, unlock.
NodePublish ==
  /\ nh.pc = "publish"
  /\ lock = Free
  /\ lock' = "nodes"
  /\ nh' = [nh EXCEPT !.pc = "send", !.pending = nodeSubs]
  /\ UNCHANGED <<readers, remover, dataVars, subVars, ah, threadVars,
                 waitCount, wpc>>

\* case <-lcountCh.closemonitor
NodeSkipClosed(p) ==
  /\ nh.pc = "send"
  /\ p \in nh.pending \ nodeSubs
  /\ nh' = [nh EXCEPT !.pending = @ \ {p}]
  /\ UNCHANGED <<lockVars, dataVars, subVars, ah, threadVars, waitCount, wpc>>

\* case lcountCh.consummer <- lnomadNodesCount, to an Update that waits ...
NodeSendUpdate(t) ==
  /\ nh.pc = "send"
  /\ t \in nh.pending \cap Threads
  /\ pc[t] = "wait"
  /\ nh' = [nh EXCEPT !.pending = @ \ {t}]
  /\ timerOn' = [timerOn EXCEPT ![t] = @ \/ nh.count >= waitCount[t]]
  /\ UNCHANGED <<lockVars, dataVars, subVars, ah, pc, en, placed,
                 waitCount, wpc>>

\* ... or to a WarmUp that waits, which is then satisfied or reads on.
NodeSendWarmUp(w) ==
  /\ nh.pc = "send"
  /\ w \in nh.pending \cap Warmers
  /\ wpc[w] = "wait"
  /\ nh' = [nh EXCEPT !.pending = @ \ {w}]
  /\ wpc' = [wpc EXCEPT ![w] = IF nh.count >= waitCount[w] THEN "close"
                                                          ELSE "wait"]
  /\ UNCHANGED <<lockVars, dataVars, subVars, ah, threadVars, waitCount>>

\* Mutant: publishes again.
NodeRepublish == [nh EXCEPT !.pc = "publish"]

\* tryNomadNode returns.
NodeDone == IdleNode

NodePublished ==
  /\ nh.pc = "send"
  /\ nh.pending = {}
  /\ lock' = Free
  /\ nh' = NodeDone
  /\ UNCHANGED <<readers, remover, dataVars, subVars, ah, threadVars,
                 waitCount, wpc>>

-----------------------------------------------------------------------------
(* tryNomadAllocation *)

\* An event for allocation a, which is to run or not: it is dropped unless
\* the pool has its node.
AllocEvent(a, run) ==
  /\ ah.pc = "idle"
  /\ lock = Free
  /\ NodeOf[a] \in nodes
  /\ ah' = [IdleAlloc EXCEPT !.pc = "apply", !.alloc = a, !.run = run]
  /\ UNCHANGED <<lockVars, dataVars, subVars, nh, threadVars, waitCount, wpc>>

AllocRun ==
  /\ ah.pc = "apply" /\ ah.run
  /\ lock = Free
  /\ allocs' = allocs \cup {ah.alloc}
  /\ ah' = IF ah.alloc \in allocs THEN IdleAlloc
           ELSE [ah EXCEPT !.pc = "match"]
  /\ UNCHANGED <<lockVars, nodes, ephNodes, ephAllocs, on, subVars, nh,
                 threadVars, waitCount, wpc>>

AllocStop ==
  /\ ah.pc = "apply" /\ ~ah.run
  /\ lock = Free
  /\ allocs' = allocs \ {ah.alloc}
  /\ ah' = IdleAlloc
  /\ UNCHANGED <<lockVars, nodes, ephNodes, ephAllocs, on, subVars, nh,
                 threadVars, waitCount, wpc>>

\* The positions of the ephemeral allocations of a's job and group.
Matches(a) == {i \in 1..Len(ephAllocs) : ephAllocs[i][1] = JobOf[a]}

\* The first of them, as a set of at most one.
Match(a) == {ephAllocs[i] : i \in {j \in Matches(a) :
                                     \A k \in Matches(a) : j <= k}}

\* The first ephemeral node that carries no ephemeral allocation outside S.
FirstEmpty(S) ==
  LET used == {on[e] : e \in Range(ephAllocs) \ S}
      empty == {i \in 1..Len(ephNodes) : ephNodes[i] \notin used}
  IN {ephNodes[i] : i \in {j \in empty : \A k \in empty : j <= k}}

\* A new allocation takes the place of the first ephemeral one of its job
\* and group; the first ephemeral node that is left empty goes, whether or
\* not anything matched; and the Updates are told which one was placed.
AllocMatch ==
  /\ ah.pc = "match"
  /\ lock = Free
  /\ ephAllocs' = Minus(ephAllocs, Match(ah.alloc))
  /\ ephNodes' = Minus(ephNodes, FirstEmpty(Match(ah.alloc)))
  /\ IF Match(ah.alloc) = {}
     THEN lock' = lock /\ ah' = IdleAlloc
     ELSE /\ lock' = "allocs"
          /\ ah' = [ah EXCEPT !.pc = "send", !.pending = allocSubs,
                              !.eph = CHOOSE e \in Match(ah.alloc) : TRUE]
  /\ UNCHANGED <<readers, remover, nodes, allocs, on, subVars, nh, threadVars,
                 waitCount, wpc>>

AllocSkipClosed(t) ==
  /\ ah.pc = "send"
  /\ t \in ah.pending \ allocSubs
  /\ ah' = [ah EXCEPT !.pending = @ \ {t}]
  /\ UNCHANGED <<lockVars, dataVars, subVars, nh, threadVars, waitCount, wpc>>

\* The published ephemeral allocation is one of t's own.
Mine(t) == ah.eph \in EphAllocs(t)

\* Mutant: an Update counts the placements of others too.
CountsAny(t) == placed[t] + 1

\* allocationsPlaced after t heard of a placement.
Counted(t) == IF Mine(t) THEN placed[t] + 1 ELSE placed[t]

\* An Update that owns the ephemeral allocation counts it, restarts its
\* timer, and leaves its loop when that was the last one.
AllocSend(t) ==
  /\ ah.pc = "send"
  /\ t \in ah.pending
  /\ pc[t] = "wait"
  /\ ah' = [ah EXCEPT !.pending = @ \ {t}]
  /\ placed' = [placed EXCEPT ![t] = Counted(t)]
  /\ timerOn' = [timerOn EXCEPT ![t] = @ \/ Mine(t)]
  /\ pc' = [pc EXCEPT ![t] = IF Mine(t) /\ Counted(t) = Want
                             THEN "close" ELSE "wait"]
  /\ UNCHANGED <<lockVars, dataVars, subVars, nh, en, waitCount, wpc>>

AllocPublished ==
  /\ ah.pc = "send"
  /\ ah.pending = {}
  /\ lock' = Free
  /\ ah' = IdleAlloc
  /\ UNCHANGED <<readers, remover, dataVars, subVars, nh, threadVars,
                 waitCount, wpc>>

-----------------------------------------------------------------------------
(* estimateRequiredNodes, Update *)

\* Allocations a node can still take, by the ephemeral ones placed on it.
Room(n) == Cap - Cardinality({e \in Range(ephAllocs) : on[e] = n})

\* A scaling thread took an event and packs its allocations on the ephemeral
\* nodes the pool has and, once those are full, on new ones.  Only the
\* ephemerals are copied under the lock; they may be others by the time
\* Update adds the result.
Estimate(t) ==
  LET old == {n \in Range(ephNodes) : Room(n) > 0}
      fits(f, S) == \A n \in S : Cardinality({e \in DOMAIN f : f[e] = n})
                                    <= IF n \in old THEN Room(n) ELSE Cap
      packs(S) == {f \in [EphAllocs(t) -> S] : fits(f, S)}
      news(k) == Range(Batch(t, k))
  IN /\ pc[t] = "idle"
     /\ lock = Free
     /\ \E k \in 0..Want :
          /\ packs(old \cup news(k)) # {}
          /\ \A j \in 0..(k - 1) : packs(old \cup news(j)) = {}
          /\ \E f \in packs(old \cup news(k)) :
               on' = [e \in DOMAIN on \cup EphAllocs(t) |->
                        IF e \in EphAllocs(t) THEN f[e] ELSE on[e]]
          /\ en' = [en EXCEPT ![t] = k]
     /\ pc' = [pc EXCEPT ![t] = "rlock"]
     /\ UNCHANGED <<lockVars, nodes, allocs, ephNodes, ephAllocs, subVars, nh,
                    ah, placed, timerOn, waitCount, wpc>>

\* Mutant: scale-ups do not take the lock.
NoRLock == TRUE

\* updrmvlock.RLock: held up by a writer that holds it or waits for it.
CanRLock == remover = "idle"

\* Lock, add the ephemerals, compute the size to wait for, call the provider.
UpdateCall(t) ==
  /\ pc[t] = "rlock"
  /\ CanRLock
  /\ lock = Free
  /\ lock' = t
  /\ readers' = readers \cup {t}
  /\ ephNodes' = ephNodes \o Batch(t, en[t])
  /\ ephAllocs' = ephAllocs \o Batch(t, Want)
  /\ waitCount' = [waitCount EXCEPT ![t] = TargetSize(Len(ephNodes'))]
  /\ pc' = [pc EXCEPT ![t] = "provider"]
  /\ UNCHANGED <<remover, nodes, allocs, on, subVars, nh, ah, en, placed,
                 timerOn, wpc>>

\* Mutant: only the allocations are taken back.
DropAllocs(t) == /\ ephAllocs' = Minus(ephAllocs, EphAllocs(t))
                 /\ UNCHANGED ephNodes

\* What is left of t's ephemerals is taken back.
DropEphemerals(t) == /\ ephAllocs' = Minus(ephAllocs, EphAllocs(t))
                     /\ ephNodes' = Minus(ephNodes, Range(Batch(t, en[t])))

\* Update returns: updrmvlock is released and its locals are gone.
Return(t) ==
  /\ readers' = readers \ {t}
  /\ pc' = [pc EXCEPT ![t] = "idle"]
  /\ on' = Restrict(on, DOMAIN on \ EphAllocs(t))
  /\ en' = [en EXCEPT ![t] = 0]
  /\ waitCount' = [waitCount EXCEPT ![t] = 0]
  /\ placed' = [placed EXCEPT ![t] = 0]
  /\ timerOn' = [timerOn EXCEPT ![t] = FALSE]

\* The provider refused.
UpdateError(t) ==
  /\ pc[t] = "provider"
  /\ DropEphemerals(t)
  /\ lock' = Free
  /\ Return(t)
  /\ UNCHANGED <<remover, nodes, allocs, subVars, nh, ah, wpc>>

\* p.countAllocsPubCh with the channel of t.
WithAllocSub(t) == allocSubs \cup {t}

\* Subscribe to both publications before the lock is released, and wait.
UpdateSubscribe(t) ==
  /\ pc[t] = "provider"
  /\ nodeSubs' = nodeSubs \cup {t}
  /\ allocSubs' = WithAllocSub(t)
  /\ lock' = Free
  /\ pc' = [pc EXCEPT ![t] = "wait"]
  /\ UNCHANGED <<readers, remover, dataVars, nh, ah, en, placed, timerOn,
                 waitCount, wpc>>

\* case <-waitAllocsTimer.C
UpdateTimeout(t) ==
  /\ pc[t] = "wait"
  /\ timerOn[t]
  /\ pc' = [pc EXCEPT ![t] = "close"]
  /\ UNCHANGED <<lockVars, dataVars, subVars, nh, ah, en, placed, timerOn,
                 waitCount, wpc>>

\* Mutant: the wait does not look at the context.
IgnoresCtx(t) == FALSE

\* The context may be done at any time.
CtxDone(t) == TRUE

\* case <-_ctx.Done(): processEvals cancelled the event, or it timed out.
\* Nowhere else does an Update look at its context.
UpdateCtxDone(t) ==
  /\ pc[t] = "wait"
  /\ CtxDone(t)
  /\ pc' = [pc EXCEPT ![t] = "close"]
  /\ UNCHANGED <<lockVars, dataVars, subVars, nh, ah, en, placed, timerOn,
                 waitCount, wpc>>

\* close(...closemonitor): a publisher that holds the lock goes on.
UpdateClose(t) ==
  /\ pc[t] = "close"
  /\ nodeSubs' = nodeSubs \ {t}
  /\ allocSubs' = allocSubs \ {t}
  /\ pc' = [pc EXCEPT ![t] = "clean"]
  /\ UNCHANGED <<lockVars, dataVars, nh, ah, en, placed, timerOn,
                 waitCount, wpc>>

UpdateReturn(t) ==
  /\ pc[t] = "clean"
  /\ lock = Free
  /\ DropEphemerals(t)
  /\ Return(t)
  /\ UNCHANGED <<lock, remover, nodes, allocs, subVars, nh, ah, wpc>>

-----------------------------------------------------------------------------
(* WarmUp and RemoveNode, called by the collector. *)

WarmUpCall(w, n) ==
  /\ wpc[w] = "idle"
  /\ CanRLock
  /\ lock = Free
  /\ lock' = w
  /\ readers' = readers \cup {w}
  /\ nodeSubs' = nodeSubs \cup {w}
  /\ waitCount' = [waitCount EXCEPT ![w] = TargetSize(n)]
  /\ wpc' = [wpc EXCEPT ![w] = "provider"]
  /\ UNCHANGED <<remover, dataVars, allocSubs, nh, ah, threadVars>>

\* UpdateNode returned; its error is not looked at.
WarmUpWait(w) ==
  /\ wpc[w] = "provider"
  /\ lock' = Free
  /\ wpc' = [wpc EXCEPT ![w] = "wait"]
  /\ UNCHANGED <<readers, remover, dataVars, subVars, nh, ah, threadVars,
                 waitCount>>

WarmUpReturn(w) ==
  /\ wpc[w] = "close"
  /\ nodeSubs' = nodeSubs \ {w}
  /\ readers' = readers \ {w}
  /\ waitCount' = [waitCount EXCEPT ![w] = 0]
  /\ wpc' = [wpc EXCEPT ![w] = "idle"]
  /\ UNCHANGED <<lock, remover, dataVars, allocSubs, nh, ah, threadVars>>

\* updrmvlock.Lock is called ...
RemoveCall ==
  /\ remover = "idle"
  /\ remover' = "waiting"
  /\ UNCHANGED <<lock, readers, dataVars, subVars, nh, ah, threadVars,
                 waitCount, wpc>>

\* ... granted when the last reader left ...
RemoveLock ==
  /\ remover = "waiting"
  /\ readers = {}
  /\ remover' = "locked"
  /\ UNCHANGED <<lock, readers, dataVars, subVars, nh, ah, threadVars,
                 waitCount, wpc>>

\* ... the nodes are looked up under p.lock and handed to the provider, and
\* whatever it says, the lock is released.
RemoveReturn ==
  /\ remover = "locked"
  /\ lock = Free
  /\ remover' = "idle"
  /\ UNCHANGED <<lock, readers, dataVars, subVars, nh, ah, threadVars,
                 waitCount, wpc>>

-----------------------------------------------------------------------------
NodeStep == \/ NodePublish \/ NodePublished
            \/ \E p \in Threads \cup Warmers : NodeSkipClosed(p)
            \/ \E t \in Threads : NodeSendUpdate(t)
            \/ \E w \in Warmers : NodeSendWarmUp(w)

AllocStep == \/ AllocRun \/ AllocStop \/ AllocMatch \/ AllocPublished
             \/ \E t \in Threads : AllocSkipClosed(t) \/ AllocSend(t)

UpdateStep(t) == \/ UpdateCall(t) \/ UpdateError(t) \/ UpdateSubscribe(t)
                 \/ UpdateTimeout(t) \/ UpdateClose(t) \/ UpdateReturn(t)

RemoveStep == RemoveLock \/ RemoveReturn

Next == \/ \E n \in Nodes : NodeUp(n) \/ NodeDown(n)
        \/ NodeStep
        \/ \E a \in Allocs, run \in BOOLEAN : AllocEvent(a, run)
        \/ AllocStep
        \/ \E t \in Threads : Estimate(t) \/ UpdateStep(t) \/ UpdateCtxDone(t)
        \/ \E w \in Warmers : \/ \E n \in 1..MaxWarm : WarmUpCall(w, n)
                              \/ WarmUpWait(w) \/ WarmUpReturn(w)
        \/ RemoveCall \/ RemoveStep

Spec == Init /\ [][Next]_vars

\* Goroutines run and mutexes are granted to everyone in the end (SF for the
\* steps that need p.lock; Go hands a mutex to a waiter that starved a
\* millisecond, and a readers-writer lock cannot starve either side), the
\* provider returns, and hungprevention ends every context.  The Nomad events
\* and the collector owe nothing.
FairSpec ==
  /\ Spec
  /\ SF_vars(NodeStep)
  /\ SF_vars(AllocStep)
  /\ \A t \in Threads : SF_vars(UpdateStep(t)) /\ WF_vars(UpdateCtxDone(t))
  /\ \A w \in Warmers : WF_vars(WarmUpWait(w)) /\ WF_vars(WarmUpReturn(w))
  /\ SF_vars(RemoveStep)

-----------------------------------------------------------------------------
TypeOK ==
  /\ lock \in {Free, "nodes", "allocs"} \cup Threads \cup Warmers
  /\ readers \subseteq Threads \cup Warmers
  /\ remover \in {"idle", "waiting", "locked"}
  /\ nodes \subseteq Nodes
  /\ allocs \subseteq Allocs
  /\ ephNodes \in Seq(UNION {EphNodes(t) : t \in Threads})
  /\ ephAllocs \in Seq(AllEph)
  /\ DOMAIN on \subseteq AllEph
  /\ en \in [Threads -> 0..Want]
  /\ nodeSubs \subseteq Threads \cup Warmers
  /\ allocSubs \subseteq Threads
  /\ nh.pc \in {"idle", "publish", "send"}
  /\ ah.pc \in {"idle", "apply", "match", "send"}
  /\ pc \in [Threads -> {"idle", "rlock", "provider", "wait", "close", "clean"}]
  /\ waitCount \in [Threads \cup Warmers -> Nat]
  /\ placed \in [Threads -> 0..Want]
  /\ timerOn \in [Threads -> BOOLEAN]
  /\ wpc \in [Warmers -> {"idle", "provider", "wait", "close"}]

InUpdate == {t \in Threads : pc[t] \in {"provider", "wait", "close", "clean"}}

\* Ephemerals belong to an Update that is under way and are listed once: none
\* survives the Update that added it, whichever way it ended, and would
\* inflate every later waitCount (pool.go 285, 295-311, 375-391).
EphemeralsOwned ==
  /\ IsInjective(ephNodes)
  /\ IsInjective(ephAllocs)
  /\ \A n \in Range(ephNodes) : \E t \in InUpdate : n \in Range(Batch(t, en[t]))
  /\ \A e \in Range(ephAllocs) : \E t \in InUpdate : e \in EphAllocs(t)

\* A waiting Update hears of every placement exactly once: what it counted,
\* what is still ephemeral and what is just being published to it add up to
\* what it asked for (pool.go 215-252, 352-363).
EveryPlacementCounted ==
  \A t \in Threads : pc[t] = "wait" =>
    placed[t] + Cardinality(Range(ephAllocs) \cap EphAllocs(t))
      + (IF ah.pc = "send" /\ t \in ah.pending /\ Mine(t) THEN 1 ELSE 0)
      = Want

\* Nodes are never removed while a scale-up of the pool is in flight.
RemoveExcludesUpdate ==
  remover = "locked" =>
    /\ InUpdate = {}
    /\ \A w \in Warmers : wpc[w] = "idle"

WarmUpWaits == \E w \in Warmers : wpc[w] = "wait"

\* With a context that ends, every Update returns, unless a WarmUp waits for
\* its nodes: nothing else keeps updrmvlock or p.lock for ever.
UpdateReturns ==
  \A t \in Threads : pc[t] # "idle" ~> (pc[t] = "idle" \/ WarmUpWaits)

\* README.md line 57: hungprevention "prevents scale action hung": with a
\* context that ends, every scaling action ends, whatever the provider does.
NoUpdateHangs == \A t \in Threads : pc[t] # "idle" ~> pc[t] = "idle"

\* The stream handlers are never stuck on a lock or on a subscriber.
HandlersReturn == /\ nh.pc # "idle" ~> nh.pc = "idle"
                  /\ ah.pc # "idle" ~> ah.pc = "idle"
=============================================================================
