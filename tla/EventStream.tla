------------------------------ MODULE EventStream ------------------------------
(***************************************************************************)
(* What the pools know of the cluster: createPools reads it once at the    *)
(* start (pool.go), the main loop then follows Nomad's event stream and    *)
(* hands the events to processNodes, processAllocs and processEvals        *)
(* (main.go), each a goroutine behind an unbuffered channel, which bring   *)
(* the pools up to date with tryNomadNode and tryNomadAllocation.          *)
(*                                                                         *)
(* Nomad's state is its log: an event for every change of a node, of an    *)
(* allocation or of an evaluation, its index the place in the log.  The    *)
(* list of nodes may be older than the answers that follow it; stream and  *)
(* scaler may break at any time.  Nomad keeps all events (its buffer is    *)
(* long enough), and an Allocations answer is not older than the list.     *)
(* A provider has the node of its pool whenever it is asked: what it does  *)
(* otherwise is the matter of KarpenterProvider and AwsAutoscaleProvider.  *)
(***************************************************************************)
EXTENDS Integers, Sequences, FiniteSets

CONSTANTS
  Nodes,       \* the nodes of the cluster
  Allocs,      \* allocations Nomad may place on them
  NodeOf,      \* NodeOf[a]: the node allocation a is placed on
  PoolOf,      \* PoolOf[n]: the pool whose provider has node n, or None
  MaxEvents,   \* length of the log (bound)
  MaxCrashes,  \* crashes of the scaler (bound)
  None

ASSUME ClusterAssumption == /\ NodeOf \in [Allocs -> Nodes]
                            /\ Nodes \cap Allocs = {}
                            /\ None \notin Nodes \cup Allocs
ASSUME PoolAssumption == DOMAIN PoolOf = Nodes
ASSUME BoundAssumption == MaxEvents \in Nat /\ MaxCrashes \in Nat

VARIABLES
  log,      \* Nomad's events
  main,     \* where the main goroutine is, and the event it hands over
  todo,     \* createPools: listed nodes it has not looked at yet
  last,     \* lnomadLastIndex
  pos,      \* index of the event the stream brings next
  nh,       \* processNodes: the event it handles, or NoEvent
  ah,       \* processAllocs: likewise, and whether it found the node
  evals,    \* processEvals is busy
  nodes,    \* p.nomadNodes of all pools
  allocs,   \* p.nomadAllocs of all pools
  raced,    \* allocations an event of which was handled while an event of
            \* their node was handled too
  crashes

startVars == <<todo, last>>
poolVars == <<nodes, allocs, raced>>
vars == <<log, main, startVars, pos, nh, ah, evals, poolVars, crashes>>

Event == [topic : {"node"}, id : Nodes, on : BOOLEAN]
           \cup [topic : {"alloc"}, id : Allocs, on : BOOLEAN]
           \cup [topic : {"eval"}, id : {None}, on : {TRUE}]
NoEvent == [topic |-> "none", id |-> None, on |-> FALSE]

\* At index i the last event of x says that it is up or runs.
On(x, i) == \E j \in 1..i :
  /\ log[j].id = x /\ log[j].on
  /\ \A k \in (j + 1)..i : log[k].id # x

UpAt(i) == {n \in Nodes : On(n, i)}
RunningAt(i) == {a \in Allocs : On(a, i)}
Now == Len(log)
Pooled == {n \in Nodes : PoolOf[n] # None}

Happens(topic, x, on) ==
  /\ Now < MaxEvents
  /\ log' = Append(log, [topic |-> topic, id |-> x, on |-> on])
  /\ UNCHANGED <<main, startVars, pos, nh, ah, evals, poolVars, crashes>>

Init ==
  /\ log = <<>>
  /\ main = [pc |-> "list", event |-> NoEvent]
  /\ todo = {} /\ last = 0 /\ pos = 1
  /\ nh = NoEvent /\ ah = [event |-> NoEvent, found |-> FALSE]
  /\ evals = FALSE
  /\ nodes = {} /\ allocs = {} /\ raced = {}
  /\ crashes = 0

-----------------------------------------------------------------------------
(* Nomad *)

NodeChanges(n) == Happens("node", n, n \notin UpAt(Now))

Place(a) == /\ \A j \in 1..Now : log[j].id # a
            /\ NodeOf[a] \in UpAt(Now)
            /\ Happens("alloc", a, TRUE)

Stop(a) == /\ a \in RunningAt(Now)
           /\ Happens("alloc", a, FALSE)

Evaluate == Happens("eval", None, TRUE)

-----------------------------------------------------------------------------
(* createPools *)

\* The list of nodes, with the index it is of; a stale one is older.
StartList(i) ==
  /\ main.pc = "list"
  /\ todo' = {n \in Nodes : \E j \in 1..i : log[j].id = n}
  /\ last' = i
  /\ main' = [main EXCEPT !.pc = "info"]
  /\ UNCHANGED <<log, pos, nh, ah, evals, poolVars, crashes>>

\* The node is asked for and offered to the pools.  The one it belongs to asks
\* for its allocations, up or down.
StartNode(n) ==
  /\ main.pc = "info"
  /\ n \in todo
  /\ todo' = todo \ {n}
  /\ nodes' = nodes \cup ({n} \cap UpAt(Now) \cap Pooled)
  /\ main' = IF n \in Pooled
             THEN [pc |-> "allocs", event |-> [NoEvent EXCEPT !.id = n]]
             ELSE main
  /\ UNCHANGED <<log, last, pos, nh, ah, evals, allocs, raced, crashes>>

\* Its allocations are offered to the pool.
StartAllocs ==
  /\ main.pc = "allocs"
  /\ allocs' = allocs \cup {a \in RunningAt(Now) :
                              NodeOf[a] = main.event.id /\ NodeOf[a] \in nodes}
  /\ main' = [pc |-> "info", event |-> NoEvent]
  /\ UNCHANGED <<log, startVars, pos, nh, ah, evals, nodes, raced, crashes>>

\* The handlers are started, and the evaluations there are go to processEvals.
StartEvals ==
  /\ main.pc = "info" /\ todo = {}
  /\ evals' = TRUE
  /\ main' = [main EXCEPT !.pc = "connect"]
  /\ UNCHANGED <<log, startVars, pos, nh, ah, poolVars, crashes>>

-----------------------------------------------------------------------------
(* The main loop *)

\* Mutant: a new stream brings only what is new.
FromNowOn == Now + 1

\* The stream begins with the last event that was seen, if there is one.
Resume == IF last = 0 THEN 1 ELSE last

\* A failed attempt is repeated.
Connect ==
  /\ main.pc = "connect"
  /\ pos' = Resume
  /\ main' = [main EXCEPT !.pc = "read"]
  /\ UNCHANGED <<log, startVars, nh, ah, evals, poolVars, crashes>>

\* Mutant: the index of the next event.
NextIndex == pos + 1

\* lei.Index
Index == pos

\* The event to hand over; the index is taken first.
Read ==
  /\ main.pc = "read"
  /\ pos <= Now
  /\ last' = Index
  /\ pos' = pos + 1
  /\ main' = [pc |-> "send", event |-> log[pos]]
  /\ UNCHANGED <<log, todo, nh, ah, evals, poolVars, crashes>>

\* Mutant: the loop around the stream is missing.
StopsThere == "stopped"

AfterBreak == "connect"

\* The stream brings an error or is closed.
Break ==
  /\ main.pc = "read"
  /\ main' = [main EXCEPT !.pc = AfterBreak]
  /\ UNCHANGED <<log, startVars, pos, nh, ah, evals, poolVars, crashes>>

\* The handler of the topic takes the event when it is done with the one
\* before; the main loop waits for it.
Send ==
  /\ main.pc = "send"
  /\ \/ /\ main.event.topic = "node" /\ nh = NoEvent
        /\ nh' = main.event
        /\ UNCHANGED <<ah, evals>>
     \/ /\ main.event.topic = "alloc" /\ ah.event = NoEvent
        /\ ah' = [event |-> main.event, found |-> FALSE]
        /\ UNCHANGED <<nh, evals>>
     \/ /\ main.event.topic = "eval" /\ ~evals
        /\ evals' = TRUE
        /\ UNCHANGED <<nh, ah>>
  /\ main' = [pc |-> "read", event |-> NoEvent]
  /\ UNCHANGED <<log, startVars, pos, poolVars, crashes>>

-----------------------------------------------------------------------------
(* processNodes, processAllocs, processEvals *)

OnNodes(S) == {a \in Allocs : NodeOf[a] \in S}

\* tryNomadNode: the node enters the pool it belongs to, or leaves it with
\* the allocations on it.
NodeHandled ==
  /\ nh # NoEvent
  /\ nodes' = IF nh.on THEN nodes \cup ({nh.id} \cap Pooled)
                       ELSE nodes \ {nh.id}
  /\ allocs' = IF nh.on THEN allocs ELSE allocs \ OnNodes({nh.id})
  /\ raced' = raced \cup ({ah.event.id} \cap OnNodes({nh.id}))
  /\ nh' = NoEvent
  /\ UNCHANGED <<log, main, startVars, pos, ah, evals, crashes>>

\* An event of this node is being handled.
Racing(n) == nh.id = n

\* tryNomadAllocation looks for the node; without it the event is dropped.
AllocChecked ==
  /\ ah.event # NoEvent /\ ~ah.found
  /\ LET a == ah.event.id
     IN /\ ah' = IF NodeOf[a] \in nodes THEN [ah EXCEPT !.found = TRUE]
                 ELSE [event |-> NoEvent, found |-> FALSE]
        /\ raced' = IF Racing(NodeOf[a]) THEN raced \cup {a} ELSE raced
  /\ UNCHANGED <<log, main, startVars, pos, nh, evals, nodes, allocs, crashes>>

\* The allocation is entered or deleted, whatever became of the node.
AllocHandled ==
  /\ ah.found
  /\ allocs' = IF ah.event.on THEN allocs \cup {ah.event.id}
                              ELSE allocs \ {ah.event.id}
  /\ ah' = [event |-> NoEvent, found |-> FALSE]
  /\ UNCHANGED <<log, main, startVars, pos, nh, evals, nodes, raced, crashes>>

\* processEvals is back at its select.
EvalHandled ==
  /\ evals
  /\ evals' = FALSE
  /\ UNCHANGED <<log, main, startVars, pos, nh, ah, poolVars, crashes>>

\* The scaler stops, or createPools or the list of evaluations fails and it
\* exits; it is started again.
Crash ==
  /\ crashes < MaxCrashes
  /\ crashes' = crashes + 1
  /\ main' = [pc |-> "list", event |-> NoEvent]
  /\ todo' = {} /\ last' = 0 /\ pos' = 1
  /\ nh' = NoEvent /\ ah' = [event |-> NoEvent, found |-> FALSE]
  /\ evals' = FALSE
  /\ nodes' = {} /\ allocs' = {} /\ raced' = {}
  /\ UNCHANGED log

-----------------------------------------------------------------------------
Nomad == \/ \E n \in Nodes : NodeChanges(n)
         \/ \E a \in Allocs : Place(a) \/ Stop(a)
         \/ Evaluate

CreatePools == \/ \E i \in 0..Now : StartList(i)
               \/ \E n \in Nodes : StartNode(n)
               \/ StartAllocs \/ StartEvals

Handlers == NodeHandled \/ AllocChecked \/ AllocHandled \/ EvalHandled

Next == \/ Nomad \/ CreatePools
        \/ Connect \/ Read \/ Break \/ Send
        \/ Handlers \/ Crash

\* Calls of Nomad succeed in the end, the goroutines run, and a stream that is
\* set up again and again brings an event sometimes, also a new one.
Spec ==
  /\ Init /\ [][Next]_vars
  /\ WF_vars(CreatePools) /\ WF_vars(Connect) /\ WF_vars(Send)
  /\ SF_vars(Read) /\ SF_vars(Read /\ pos > last)
  /\ WF_vars(NodeHandled) /\ WF_vars(AllocChecked \/ AllocHandled)
  /\ WF_vars(EvalHandled)

-----------------------------------------------------------------------------
TypeOK ==
  /\ log \in Seq(Event) /\ Now <= MaxEvents
  /\ main.pc \in {"list", "info", "allocs", "connect", "read", "send"}
  /\ main.pc = "send" => main.event \in Event
  /\ todo \subseteq Nodes
  /\ last \in 0..Now /\ pos \in 1..(Now + 1)
  /\ nh \in Event \cup {NoEvent} /\ ah.event \in Event \cup {NoEvent}
  /\ ah.found \in BOOLEAN /\ evals \in BOOLEAN
  /\ nodes \subseteq Nodes /\ allocs \subseteq Allocs /\ raced \subseteq Allocs
  /\ crashes \in 0..MaxCrashes

\* Everything Nomad reported has been handled; the last event may come again.
Drained == /\ main.pc \in {"connect", "read"} /\ last = Now
           /\ nh = NoEvent /\ ah.event = NoEvent

\* The node of allocation a went down after a was placed.
Flapped(a) == \E j, k \in 1..Now :
  /\ j < k
  /\ log[j].id = a /\ log[k].id = NodeOf[a] /\ ~log[k].on

\* When the scaler is up to date its pools have exactly the nodes that are up
\* and their allocations: no break of the stream, no crash and no list that is
\* older or newer than the events that follow it loses, repeats or keeps
\* anything.  Two things it may lose: an allocation whose event was handled
\* beside one of its node (pool.go 186-197), or whose node was down meanwhile
\* (pool.go 158-171) (main.go 164-236, pool.go 456-519).
Converged ==
  Drained => /\ nodes = UpAt(Now) \cap Pooled
             /\ allocs \ RunningAt(Now) \subseteq raced
             /\ \A a \in RunningAt(Now) \cap OnNodes(nodes) :
                  a \in allocs \cup raced \/ Flapped(a)

\* Whenever Nomad falls quiet the main loop gets to the end of the log, and
\* the handlers finish what they were given: no handler stops the main loop for
\* ever, and the loop around the stream sets it up again and goes on where it
\* was (main.go 15-33, 164-236).
CatchesUp ==
  /\ []<>(main.pc \in {"connect", "read"} /\ last = Now)
  /\ []<>(nh = NoEvent)
  /\ []<>(ah.event = NoEvent)
=============================================================================
