# A formal model of nomad-ondemand-scaler

TLA+ specifications of the scaler's core, TLC configurations that check them on
small instances, and TLAPS proofs about them for every instance. Line numbers
below and in `PROJECT.json` are those of the repository's files.

## 1. Inventory

The scaler follows Nomad's event stream, groups blocked evaluations by job,
decides which jobs lack nodes, and lets a few scaling threads grow node pools
through a provider; a collector thread shrinks them again.

| Component | State | Operations | Talks to | Hard part | Correct when |
|---|---|---|---|---|---|
| Scaling queue (`queue.go`) | slice of entries, id-to-index map, one-token wake-up channel, unbuffered hand-over channel, feeder goroutine | `Enqueue`, `Remove`, `Dequeue`, feeder loop | evaluation processor, scaling threads | the feeder announces entries it looked at without the lock; indexes of a slice cut at the head and in the middle | it is a FIFO with cancellation, and never stalls |
| Evaluation processor (`processEvals.go`) | `evals`, `blockedEvalsChains`, `firedEvents`, a timer | receive evaluation, done report, summary | queue, done channel, Nomad API | four partial views of "this chain has an event"; API calls inside the loop; timer ticks | each blocked chain has exactly one event or a summary due |
| Scaling threads (`scalingAction.go`, `estimateRequiredNodes.go`) | the event in hand | estimate, `Update`, report done | queue, pools, done channel | several threads scale one pool | every event ends and is reported once |
| Node pool (`pool.go`) | nodes, allocations, ephemeral nodes and allocations, two lists of subscribers, `lock`, `updrmvlock` | `tryNomadNode`, `tryNomadAllocation`, `Update`, `WarmUp`, `RemoveNode` | event handlers, threads, collector, provider | sends to subscribers and provider calls under a lock; readers-writer lock; contexts | no ephemeral leaks, no placement is lost, nobody hangs |
| Garbage collector (`gcAction.go`) | idle counters with a `Collecting` mark | one cycle: count, warm up, drain, remove | pools, Nomad API | everything changes between count and removal | only nodes idle long enough go, the reserve stays |
| Providers (`nodeprovider/karpenter.go`, `awsautoscalegroupv2.go`, `anynodetest.go`) | known instances, pending increments, last update time | `IsNodeExists`, `UpdateNode`, `RemoveNode` | cloud, pools | stale listings, instances not yet registered, calls that fail in part or whose answers get lost | only the right instances are stopped, none is orphaned, no node is turned away |
| Pool selection (`poolnodespec.go`, `feasiblePoolByConstraint.go`) | none | `GetOptimalPoolSpec`, `feasiblePoolByConstraint` | evaluation processor | two checks that decide by different means; names and classes from hashes; pools with devices | a pool that fits is found if there is one, and it is the one that is scaled |
| Start-up and stream (`main.go`, `createPools`) | last index | list, follow, reconnect | Nomad, handlers | order of node and allocation events, gaps | the pools converge to what Nomad has |
| Configuration, variants, statistics, dumps, generated gRPC code | - | - | - | - | - |

The hazards of this code, each at its line and with the properties about it, are
listed under `hazards` in `PROJECT.json`.

## 2. Modules

```
EventQueue           what the scaling queue promises (abstract)
  ScalingQueue       queue.go, implements EventQueue
    ScalingQueueProofs     type, safety and refinement proofs
  EvalProcessor      processEvals.go with the scaling threads, uses EventQueue
    MCEvalProcessor        instances
    EvalProcessorProofs    type and safety proofs
Pool                 pool.go, estimateRequiredNodes.go, calls of scalingAction.go
  MCPool                   instances
  PoolProofs               type and safety proofs, refinement of NodeProvider as its caller
GarbageCollector     gcAction.go, with what it needs of pool.go
  MCGarbageCollector       instances
  GarbageCollectorProofs   type and safety proofs
NodeProvider         what a pool and its provider promise each other (abstract)
  KarpenterProvider      nodeprovider/karpenter.go with the calls of pool.go, implements it
    KarpenterProviderProofs      type, safety and refinement proofs
  AwsAutoscaleProvider   nodeprovider/awsautoscalegroupv2.go, likewise
    AwsAutoscaleProviderProofs   type, safety and refinement proofs
EventStream          main.go, createPools, what the handlers do to the pools
  MCEventStream            instances
  EventStreamProofs        type proof and proof of convergence
PoolSelection        feasiblePoolByConstraint.go, poolnodespec.go, the event made of them
  MCPoolSelection          instances
  PoolSelectionProofs      type and safety proofs
```

The queue is specified once (`EventQueue`) and used twice: `ScalingQueue` is shown
to implement it and `EvalProcessor` is built on it, so what is checked of the
processor with the abstract queue holds with the one of the code.

**EventQueue** has `Put`, `Take`, `Cancel` and `Release`. An id is outstanding from
`Put` until it is cancelled or released, and is not put again meanwhile.

**ScalingQueue** has one action per critical section or channel operation:
`FeederPeek` (lines 32-36), `HandOver` (39 with 68), `FeederWake` (42), `Enqueue`,
`Remove`, `DequeueCall`, `Pop` (70-92) and `Release`, where the thread is done with
the event. An entry of the slice is its id. The map is a function with `Absent` for
a missing key and `Removed` for the marker -1. Mapped to `EventQueue` by
`queue <- items`: the feeder's announcements are invisible, `Pop` is `Take`.

**EvalProcessor** has the three cases of the select (`ReceiveEval`, `ScalingDone`,
`StartSummary`), the timer (`TimerExpires`; a tick may stay in the channel after a
`Reset`), and the summary chain by chain: `CancelQueued`, `CancelRunning`,
`KeepFired`, `ExamineChain`, then the API's answer as `RejectChain` or `FireEvent`,
and `EndSummary`, which swaps `evals` and drops chains. Chains are visited in any
order, as Go visits maps. An evaluation is its create index; its status is blocked
or not. `PurgeJob` makes the lookup of a job fail for ever, which the helpers of
`util.go` repeat for ever (`Answered`). Scaling threads take events and report them
through a channel of capacity `DoneCap`.

**Pool** has the two stream handlers, the threads and the collector's calls as
processes on one pool. A critical section of `p.lock` that cannot block is one
action. A publication keeps the lock while it goes through the subscribers it found,
one send or one closed monitor at a time; a provider call keeps it until it returns
(`UpdateSubscribe`, `UpdateError`, `WarmUpWait`). `Estimate` packs allocations on
ephemeral nodes of capacity `Cap`; the scheduler's scores are left out, any packing
that needs the least new nodes is possible. `updrmvlock` refuses new readers as soon
as a writer waits. Contexts may end at any time; only the wait loop looks at them.

**GarbageCollector** has one action per pool count, per entry of the second loop and
per part of `RemoveNode`, with Nomad's placements, drains, node events, allocation
events (checked and entered in two sections) and readers of the lock in between.
`busy` is the set of nodes that the pool's allocations name. `idleFor` and `reserve`
are history variables that only properties read.

**NodeProvider** is the contract of `nodeprovider/interface.go`, as `pool.go` uses it. The
cloud has instances that start, register and end as they like (`status`, `joined`); nodes
enter the pool once they registered, and leave it. A call of the provider, an `UpdateNode` or
a `RemoveNode`, never two at a time, condemns some instances and stops none but those:
`UpdateNode` only ones that registered and are not in the pool, which does not change until
the call has returned; `RemoveNode` only nodes of the pool. The contract has two halves. That
calls do not overlap and that the nodes keep still is up to the pool, and `PoolProofs` shows
that `Pool` does so; which instances are condemned and stopped is up to the provider, and both providers implement it.

**KarpenterProvider** has the provider between its three callers. An instance is in the
cloud (`status`), has a node in Nomad (`reg`), is a key of `p.state` (`known`), marked there
(`seen`) and in the pool (`nodes`); `fresh` has the registrations later than
`lastUpdatetime`. `IsNodeExists` is four actions, since the plugin is called without the
lock; `UpdateNode` is three (`UpdateScan`, `UpdateForget`, `UpdateRemove`) and its outcome
(`UpdateGrow`, `UpdateEnough`), all with `p.lock` of the pool held by its caller, which is
what `PoolLock` says to the node handler. `RemoveForget` and `RemoveReturn` are the
collector's removal, never beside an `UpdateNode` (`RemoveExcludesUpdate` of `Pool`). A
goroutine of `UpdateNode` and its entry in `incephemeral` are one record: `inc` is the entry,
`left` the local count, `got` what the running `AddInstances` started so far.

**AwsAutoscaleProvider** has the provider, the auto scaling group and the same callers. An
instance is in the group, unhealthy there (`sick`), `leaving` it while it is detached, `out`
of it and running, or gone; `desired` is the group's capacity, and the group starts and
stops instances (`Launch`, `ScaleIn`) to match it. `op` is the one `UpdateNode` or
`RemoveNode` that runs: `ids` is what it removes, `batch` and `todo` the batch in its hands
and the rest. `Detach` may lose its answer, then the call is repeated and refused
(`Refused`); `WaitList`, `WaitAnswer` and `WaitInstall` are one round of the wait, which
installs a listing of its own beside the one of `IsNodeExists` (`AskGroup`, `ListAnswer`,
`Install`); `Terminate` includes its wait. `Resize` sets the size when the group allows it,
`GiveUp` is the ended context. What an error makes the code repeat is the same step later.
The group's minimum size is zero: with a larger one the group also refuses to detach, and
the call waits for ever.

**EventStream** has Nomad as its log: an event for each change of a node, an allocation or an
evaluation, with its place as the index. `StartList`, `StartNode` and `StartAllocs` are
`createPools`: a list that may be older than what is asked next, then node by node its
state and its allocations. `StartEvals` starts the handlers. The main loop connects at
`lnomadLastIndex` (`Resume`: the event with that index comes again), reads, hands the event
to a handler over an unbuffered channel (`Send`), and connects again after a break. The
handlers are `NodeHandled`, and `AllocChecked` and `AllocHandled` for the two critical sections
of `tryNomadAllocation`; what they do to ephemerals and subscribers is in `Pool`.
`EvalHandled` is an evaluation and what `processEvals` may do before it takes the next.
`Crash` ends and restarts the scaler, whose state is all in memory. `raced` is a history
variable that only a property reads.

**PoolSelection** is a pure algorithm between two decisions, checked for all inputs of an
instance: a configuration and a job are picked, the check is made, a pool is chosen for each
group, and the event is made. `Suitable` is what the scheduler may pick. The rest of
`GetOptimalPoolSpec` finds the pool again from the name of the node: `ClassIn` cuts the class
out of the name, `Named` looks at the nodes of that class. The class is a hash of the full name,
which has the size in it, and of the attributes but for the size; a map among the attributes
(each pool has one, `provider`) is hashed in the order Go happens to visit it, so that `visited`
holds the orders of the call and two computations may differ. A class therefore has one node
unless a pool is listed twice, which nothing forbids; pools are known by their position. The
load-time hash inside the full name is left out: what it tells apart the attributes and the
orders of visit do. The reference definition is `Runs`: datacenter, constraints, devices, size.

## 3. Runs

| Run | Checks | Instance |
|---|---|---|
| `queue` | types, index map, exclusive delivery, refinement of EventQueue, every event leaves | 3 ids, 2 threads |
| `evals` | bookkeeping of chains, events, queue and done channel; what a summary decides; due chains are decided, events complete | 2 jobs, 3 evaluations, 2 threads, done channel of one, one job may be purged |
| `pool` | ephemerals, placements | 2 Updates of one allocation, 1 node, 2 allocations |
| `pool_warmup` | additions exclude removals; Updates return, handlers return | 1 Update of two allocations, 1 WarmUp, 1 node |
| `pool_hung` (violation) | every Update returns | 1 Update, 1 WarmUp |
| `gc` | idle counters, reserve, removed nodes were idle long enough, surplus is collected | 1 pool, 2 nodes, one flaky, 2 cycles to collect |
| `karpenter` | which nodes the provider knows and turns away; refinement of NodeProvider | 2 instances, 2 goroutines |
| `aws` | no instance is orphaned, no node turned away; refinement of NodeProvider; calls return | 2 instances, batches of 20, a group of at most 2 |
| `aws_batches` (violation) | every instance of a removal gets into a batch | 2 instances, batches of one |
| `stream` | the pools are what Nomad has whenever the scaler is up to date, and it gets there | 2 nodes, one of the pool, 1 allocation, 5 events, 1 crash |
| `selection` | chosen pools fit and are not nil; no job is rejected and no group lost that could run; devices last | lists of up to 3 of 6 pools, also with a pool twice, 2 orders of hashing, 100 jobs |

The two violation runs show where the code does not do what the README (or a comment)
says of it; `PROJECT.json` quotes the lines under `findings`:

- `pool_hung`: WarmUp waits without a context under `updrmvlock`; with a RemoveNode behind
  it, Updates hang outside the reach of `hungprevention`.
- `aws_batches`: after a batch is detached the code waits until *no* instance of the whole
  removal is in the group (line 201), but the others are detached only after that wait. A
  removal of more than 20 instances never ends. The run takes batches of one for those of 20.

What else the models allow, and the code does not prevent, is not kept as runs; `hazards` has
it with its lines:

- A chain that is still blocked when its event is done waits for an unrelated evaluation: the
  done case (`processEvals.go` 65) never starts a summary. One purged job stops a summary,
  and with it the decisions about every other job (107).
- Three threads can overcommit an ephemeral node (`estimateRequiredNodes.go` 50). A node may
  become busy between the count and its removal (`gcAction.go` 46); one that is down while
  `RemoveNode` looks it up stays marked for ever (112).
- An allocation is lost, or kept too long, when its event and one of its node are handled at
  the same time (`pool.go` 190, 197), and one that outlives a node that was down for a while
  is not known any more: `Converged` names these as the only ways.
- Instances that were launched and did not register yet are counted nowhere, and are launched
  once more (`karpenter.go` 297). An instance may be removed between `IsNodeExists` and its
  entry into the pool (`karpenter.go` 246, `awsautoscalegroupv2.go` 298), and a removed one may
  come back with an old listing (`karpenter.go` 173, `awsautoscalegroupv2.go` 117).
- WarmUp sets the size of an AWS group to the nodes there are and its own: instances on their
  way for an Update are scaled in (`pool.go` 417). An instance whose detach answer was lost
  runs on outside the group (`awsautoscalegroupv2.go` 157); `NoLeak` names this as the only way.
- `GetOptimalPoolSpec` groups pools by class and sorts each group by size (`poolnodespec.go`
  553-558), but no two sizes share a class, since the full name is hashed with the attributes
  (30-38, 79-86): the sort orders nothing, and the pool taken is the one `Select` returned, perhaps
  a larger one than the group needs. No property speaks of the size that is taken.

### Bounds and why they are enough

- *Queue:* three ids give a head, a middle and a last entry, so that every kind of index
  shift happens, twice; two consumers race for one announcement. Nothing else is bounded.
- *Evaluation processor:* two jobs so that chains compete for a summary, three evaluations
  so that one chain can have an older and a younger one; the done channel of capacity one is
  full with the first of two threads.
- *Pool:* two Updates are the least that share ephemerals; `Want` and `Cap` make full, partial and
  failed placements happen. Counters are bounded by the sets.
- *Collector:* `CiclesToGc` is 2, so that an interruption between two counts matters;
  `seenEmptyCiclesCount` is kept at most `CiclesToGc` since it is only compared with it;
  `MaxReaders` bounds the holders of the read lock. With two nodes and a reserve of one
  for pools of at least two, one node is collected while another is kept. Pools share
  nothing but the thread, so one is used.
- *Karpenter:* two instances, so that one is listed, removed or counted while the other
  registers; two goroutines, so that pending increments add up. `MaxGrow` is 2, and increments
  of two bring partial deliveries.
- *AWS:* two instances, one of them there at the start and the other able to register twice
  (`Restarts`, so that a node is asked for again); `MaxSize` is one less than an UpdateNode can
  ask for. A batch of 20 takes any removal of the instance, so the second batch is the matter
  of `aws_batches`; the proofs are for any size.
- *Stream:* `MaxEvents` is 5: up, run, down, up and stop is the longest story of one node and one
  allocation in which each event matters. A second node, of no pool, and evaluations come in
  between. One crash is enough, since a restart forgets everything.
- *Selection:* three pools give one that is found, one listed twice, and one that competes with
  it in size, devices or trait; groups of two sizes, with or without a device, with or without a
  trait. Two orders are enough for a pool listed twice to have one class or two.

Without the deadlock check run `PoolSelection`, an algorithm that ends; `EvalProcessor`, whose
loop may really stop after a purge; and `AwsAutoscaleProvider`, where a WarmUp that asks for
more than the group's maximum really waits for ever.

### Fairness

- *Queue:* goroutines that can run do run (weak fairness of the feeder and of each
  consumer); nobody has to enqueue.
- *Evaluation processor:* Go's select chooses at random among ready cases, hence strong
  fairness for the done case and the tick; the timer expires: evaluations leave it its ten
  seconds (the comment at line 61 says that they might not, and then nothing is promised);
  scaling threads go on and scaling actions end (what the `pool` runs are about). An API
  call of a job that exists is answered.
- *Pool:* mutexes are granted to everyone in the end (Go hands a mutex over to a waiter
  after a millisecond), the provider returns, every context ends (`hungprevention` allowed).
  Nomad owes no event, and so a WarmUp may wait for ever.
- *AWS:* calls of the cloud's interface succeed in the end when they can (the code repeats
  them), a detached instance leaves the group, a group that is too large shrinks, the context
  of an Update ends. A WarmUp's context never ends, and `CallsReturn` excepts the one that asks
  for too much. Karpenter: none, its properties are safety properties.
- *Stream:* Nomad answers in the end, the handlers go on (that they do is `HandlersReturn` of
  `Pool`), and a stream that is set up again and again brings an event sometimes, also a new
  one (strong fairness of `Read`, and of `Read` beyond the last index). Nomad owes no event.
- *Collector:* the ticker fires, readers of the lock leave (assumed of WarmUp), and a node
  whose instance is gone is reported down. Placement and node events are owed by nobody.

## 4. Proofs

`ScalingQueueProofs` proves, for any sets of ids and consumers, with the only assumption
that `None` is not an id: `TypeCorrect`, `IndexCorrect`, `WakeupKept`, `ExclusiveDelivery`
and `Refinement`. The inductive invariant is the conjunction of the three invariants the run
`queue` checks, `NoStaleEntry` and `NoLostWakeup`. None of them is inductive alone: `Remove` may
cut only because the map is
exact; that the map stays exact needs that no id is enqueued while it is queued or held;
that needs exclusive delivery, which needs that a `Dequeue` carries nothing over from an
earlier round (`NoStaleEntry`). One lemma per kind of step (`QuietSteps`, `EnqueueStep`,
`RemoveStep`, `PopStep`, `ReleaseStep`), each by conjunct; `CutOutProperties` says what
cutting one entry out of a slice leaves where. The refinement maps the initial state to an
initial state and each step to a step or a stutter of `EventQueue`.

`EvalProcessorProofs` proves all safety properties of the run `evals`, for any sets of jobs,
evaluations (as natural numbers, `EvalsAssumption`) and threads and any channel capacity:
`TypeCorrect`, `EventsSound`, `ChainsSound`, `SummaryIsDecisive` (the action property) and
`Refinement` (the queue is
used as `EventQueue` demands). The inductive invariant has two halves. *Books* is
`ChainsWellFormed`, `SummaryBooks`, `HeadBlockedWhenQuiet` and `VisitedDecided`, which says
that in the middle of a summary every chain visited and kept is blocked and has an event or
is the one the API is asked about; without it nothing would be known of the heads when
`EndSummary` returns to the select. *Placed* is `OutstandingExact` and `CanceledHasStarted`.
The halves meet in two places: an event is put only for the chain of `SummaryBooks`, which
has none, so that by `OutstandingExact` its id is nowhere; and what is taken back was queued,
so that no cancelled context is in the queue. `LeadingInterval` shows that the positions
before the first blocked evaluation are an interval, from which `TrimFacts` follows: the
visit cuts the chain exactly there. With `EventQueue` between them, the two refinements say
that the processor never breaks the assumption under which the queue was proved correct.

`KarpenterProviderProofs` proves all safety properties of the run `karpenter`, for any set of
instances (finite, `InstanceAssumption`) and any number of goroutines: `TypeCorrect`,
`SeenForever`, `NoRejection` (the action property) and `Refinement`: the provider keeps the contract of `NodeProvider`. What they need beyond each other is about a
listing on its way: `ListingComplete`, that it has the live nodes of the pool, and
`ListingFresh`, that it has all that registered before it was asked for. They stay true until
it is installed because the one handler enters no node meanwhile and what registers meanwhile
is `late`; `StateFresh` is what the time stamp means once it is installed. For the contract,
`RemovesStrangersOnly` and `SparesStarting` say that the targets of an `UpdateNode` are strangers
to the pool that registered, and `RemoverSound` that the two calls exclude each other. The
invariant has the types of everything but the goroutines' records, for which `GoroutinesSound`
is enough of an invariant of its own: whatever the sum of the pending increments, `Pending`, it is
a natural number (`PendingType`), a goroutine is started for what exceeds
it only if that is positive, and no call gets more than was left. `TypeCorrect` follows.

`AwsAutoscaleProviderProofs` proves all safety properties of the run `aws`, for any finite set of
instances and any size of the group and of a batch: `TypeCorrect`, `NoOrphans`, `NoRejection` and
`Refinement`. The invariant is about the two goroutines that install listings in any order:
`ListingsFresh` for both, `StateFresh` for the result; about the running call (`OpSound`); and
about detached instances (`InHand`): they are in the batch of the running call, and only from
its detaching to its termination, or the answer was lost. `ContinueFacts` says once where the
loop over the batches goes, and every step of a removal cites it.

`GarbageCollectorProofs` proves all safety properties of the run `gc`, for any sets of pools and
nodes, any `CiclesToGc`, any bound on readers and any integer-valued expression: `TypeCorrect`,
`CountingCorrect`, `ReserveCorrect` and `RemovalCorrect` (the action property). `CountsConsecutive`
says nothing while a count is under way, so `CountsSound` does: a pool already counted is as this
cycle found it, one to come as the last cycle left it. `CycleSound` follows the nodes from the
second loop into `gcnodedesdeleted` and on to the provider; nodes that vanish or get busy meanwhile
do not matter, as nothing but a count writes the counters. `ReserveSound` is a balance: the idle
nodes the loop has passed over, `Left`, are at least what the reserve was charged for, and a node
is listed only once nothing is left to charge. A visit moves one node to `Left` or to the list.

`PoolProofs` proves all safety properties of the runs `pool` and `pool_warmup`, for any number of
scaling threads and WarmUps, nodes and allocations, any `Want` and any `Cap`, in three parts.

*Locks.* The holders of the read lock are exactly the scale-ups under way (`ReadersSound`), which
a writer that waits keeps from growing; `SectionsSound` says who holds `p.lock` when more than one
action needs it, and `SubsSound` how far a subscriber is. From them follow `RemovalExclusive`, and
`PublishersServe`: a publisher never has someone before it who is still in a call of the provider.

*Books.* `TypeCorrect`, `EphemeralsSound` and `PlacementsCounted`. The invariant, `BooksInv`, is the
types of the lists (`Books`), `EphemeralsOwned`, and `CountsSound`: what an Update still waits for is
what is on the list of its ephemeral allocations, plus what a publisher under way has yet to tell
it. `EveryPlacementCounted` is that balance alone, and not inductive: it says nothing of an Update
that does not wait yet, for which `CountsSound` has that it counted nothing and all its ephemeral
allocations are listed. The books rest on the locks: an Update that has added its ephemerals and is not subscribed yet holds
`p.lock`, so that no match can come in between. `MinusLemma` says what is left of a list when a set
is taken out of it: the other members, and each once if each was listed once.

*What the providers rely on.* Calls of the provider do not overlap (`ProviderCallsSerialized`: two
scale-ups exclude each other by `p.lock`, `RemoveNode` excludes them by `updrmvlock`), no node
comes or goes under an `UpdateNode` (`ProviderNodesFrozen`), and together, `Refinement`: with every
instance alive and registered and nothing condemned, `Pool` is `NodeProvider` seen from its
caller. No run checks these three.

`EventStreamProofs` proves `TypeCorrect`, and `Converged` in full, for any nodes and allocations and any number of events,
breaks and crashes. The log and the pools are related through `Given`, the index up to which the
main loop has handed everything over. The pools are never at one index: a handler is behind,
and what the start read one by one is ahead. So the invariant says that what a pool has, or will
have once the handlers are done, was true *at some index from `Given` on* (`NodesFollow`,
`AllocsFollow`), and that an allocation older than `Given` that runs on a node that stayed is
there (`AllocsKept`). Each event handed over moves `Given` by one, and only what the event is about
can lose its witness; when the loop is drained one index is left. `On` looks for the last event
of an id, so the lemmas `OnStep`, `NeverStopped` and `SteadyBefore` say how it and `Flapped`
change when the log grows.

`PoolSelectionProofs` proves all properties of the run `selection`, for any list of pools, however
long, any jobs and any outcome of hashing. `CheckComplete`: a job is turned away only if it has a
group no pool can run. `SelectionComplete`: the search passes over no pool that fits, with devices
or without, and every short group some pool can run is in the event. The invariant `IInv` says that
a group gets no entry only if it is hopeless (`SearchComplete`, `FeasibleComplete`) and what is decided
when. `ChoiceFits`, `DevicesSpared` and `TypeCorrect` need that the pool of the entry is the one that
was found: `AlikeLemma`, that two pools of one class have the same size and attributes because the
class has the full name in it; and `NamedLemma`, that the node is one of the class cut out of its own
name, because the class is computed once, so that the lookup by class yields a pool, never nil, that
is like the one of the node. `ChoicesSound` carries this over to the map of the groups.

Only model-checked: all liveness, since the prover has no fairness and no ENABLED
(`EveryEventLeaves`, `DueChainDecided`, `EventCompletes`, `UpdateReturns`, `HandlersReturn`,
`SurplusCollected`, `CallsReturn`, `CatchesUp`). Every safety property of a passing run has a theorem.

## 5. Not modelled

- In `Pool` a provider is a call that returns with or without an error; the provider modules
  have the pool's side of the calls. `NodeProvider` is the seam: the pool is proved to keep the
  one half of it and the providers the other, but no run has them in one state.
- `EvalProcessor` takes any answer of the API, of the check and of the choice of pools.
- Nomad's event buffer is long enough: an index that has left it is not modelled. An
  `Allocations` answer is not older than the list of nodes; a stale server's answer is
  allowed for the list only.
- `scalingAction`'s loop over several task groups and pools of one event: one of each.
- `PoolSelection` has the scheduler judge each node by itself; Nomad's stack keeps the verdict on a
  computed class of nodes for the next node of that class. Scores are left out, any node that fits
  may be returned.
- `KarpenterProvider` takes the event times of Nomad and the scaler's clock to agree
  (`karpenter.go` 157-160), and an instance to register once.
- `RemoveReturn` has no error of the provider (`pool.go` 446-449): both real providers repeat a
  removal until it succeeds.
- In `AwsAutoscaleProvider`, an `UpdateNode` with zero new nodes is left out, and an unhealthy
  instance that is being detached is still listed, where the code leaves it out (line 50).
- `anynodetest.go` has no state: every node exists, adding and removing fail.
- Parsing, variants, statistics, dumps, the generated gRPC code.

## 6. Plan

In this order:

1. Done: scaling queue with its refinement and proofs; evaluation processor with its proofs;
   pool with the proofs about its locks, its books and its part of the providers' contract;
   collector with its proofs; the contract of the providers and both providers with their proofs;
   event stream and start-up with the proof of convergence; pool selection with its proofs.
2. The growth protocol end to end: `Pool` over `NodeProvider` instead of the external provider,
   so that ephemerals and instances are checked as one. The refinement of section 4 is the first
   step to it.
3. Proofs: every safety property a run checks has one. What is left to state are further properties
   that only a theorem says, as `ProviderCallsSerialized` and `PublishersServe`.
