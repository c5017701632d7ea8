--------------------------- MODULE EventStreamProofs ---------------------------
(***************************************************************************)
(* Theorems about EventStream, for every cluster, every history of Nomad   *)
(* and any number of crashes.                                              *)
(*                                                                         *)
(* LogSound says what histories Nomad writes.  The events up to Given have *)
(* been handed to the handlers; what a pool has, or is about to have, is   *)
(* true at some index from there on (NodesFollow, AllocsFollow): the start *)
(* reads ahead of the stream, which then takes it back and forward again.  *)
(* Once Given is the end of the log there is only one such index.          *)
(***************************************************************************)
EXTENDS EventStream, SequenceTheorems, TLAPS

\* A node changes sides with every event; an allocation is placed once, on
\* a node that is up, and stops at most once.
LogSound ==
  /\ log \in Seq(Event)
  /\ \A n \in Nodes : \A j, k \in 1..Now :
       j < k /\ log[j].id = n /\ log[j].on /\ log[k].id = n /\ log[k].on
         => \E m \in (j + 1)..(k - 1) : log[m].id = n /\ ~log[m].on
  /\ \A a \in Allocs : \A j, k \in 1..Now :
       j < k /\ log[j].id = a /\ log[k].id = a => log[j].on /\ ~log[k].on
  /\ \A a \in Allocs : \A j \in 1..Now :
       log[j].id = a /\ log[j].on => On(NodeOf[a], j)

\* Events up to this index were handed over.
Given == IF main.pc = "send" THEN last - 1 ELSE last

Starting == main.pc \in {"list", "info", "allocs"}

\* What the main goroutine hands over, or the node it asks allocations for.
MainEvents == Event \cup {NoEvent} \cup
                [topic : {"none"}, id : Nodes, on : {FALSE}]

\* The main goroutine.
MainSound ==
  /\ main \in [pc : {"list", "info", "allocs", "connect", "read", "send"},
               event : MainEvents]
  /\ last \in 0..Now /\ pos \in Nat
  /\ main.pc = "send" => last > 0 /\ main.event = log[last] /\ pos = last + 1
  /\ main.pc = "read" => pos \in {last, last + 1} /\ pos > 0
  /\ main.pc = "list" => last = 0 /\ nodes = {} /\ allocs = {}
  /\ main.pc = "allocs" => main.event.id \in Nodes \ todo
  /\ todo \subseteq Nodes
  /\ main.pc # "info" /\ main.pc # "allocs" => todo = {}

\* The handlers.
HandlersSound ==
  /\ nh \in Event \cup {NoEvent}
  /\ ah \in [event : Event \cup {NoEvent}, found : BOOLEAN]
  /\ Starting => nh = NoEvent /\ ah.event = NoEvent
  /\ nh # NoEvent => nh.id \in Nodes
  /\ ah.event # NoEvent => /\ ah.event.id \in Allocs
                           /\ \E k \in 1..Now : log[k] = ah.event
  /\ ah.found => /\ ah.event # NoEvent
                 /\ NodeOf[ah.event.id] \in nodes \/ ah.event.id \in raced

\* The pools.
PoolsSound ==
  /\ nodes \subseteq Pooled /\ nodes \cap todo = {}
  /\ allocs \subseteq OnNodes(nodes) \cup raced
  /\ raced \subseteq Allocs

\* At some index from g on x is on, or off.
OnFrom(x, g) == \E j \in g..Now : On(x, j)
OffFrom(x, g) == \E j \in g..Now : ~On(x, j)

\* The pool has the node once the handler is done.
WillHave(n) == IF nh.id = n THEN nh.on ELSE n \in nodes

NodesFollow ==
  \A n \in Pooled \ todo : /\ WillHave(n) => OnFrom(n, Given)
                           /\ ~WillHave(n) => OffFrom(n, Given)

\* The pool has the allocation if the handler enters it.
MayHave(a) == IF ah.event.id = a THEN ah.event.on ELSE a \in allocs

AllocsFollow == \A a \in Allocs \ raced : MayHave(a) => OnFrom(a, Given)

\* Allocation a has been placed before index g, runs, and its node stayed.
Steady(a, g) ==
  /\ \E j \in 1..g : log[j].id = a /\ log[j].on
  /\ ~Flapped(a) /\ On(a, Now)
  /\ NodeOf[a] \in Pooled

\* The start is not done with node n.
Unread(n) == n \in todo \/ (main.pc = "allocs" /\ main.event.id = n)

AllocsKept ==
  \A a \in Allocs \ raced :
    Steady(a, Given) /\ ~Unread(NodeOf[a]) => a \in allocs \/ ah.event.id = a

IInv == /\ LogSound /\ MainSound /\ HandlersSound /\ PoolsSound
        /\ NodesFollow /\ AllocsFollow /\ AllocsKept

-----------------------------------------------------------------------------
(* The log. *)

\* Whether x is on at i depends on the event there, if it is one of x.
LEMMA OnStep ==
  ASSUME NEW x, NEW i \in 1..Now, LogSound
  PROVE  On(x, i) <=> IF log[i].id = x THEN log[i].on ELSE On(x, i - 1)
<1>1. CASE log[i].id = x
  <2>1. log[i].on => On(x, i)
    BY <1>1 DEF On
  <2>2. ASSUME On(x, i)
        PROVE  log[i].on
    <3>1. PICK j \in 1..i : /\ log[j].id = x /\ log[j].on
                            /\ \A k \in (j + 1)..i : log[k].id # x
      BY <2>2 DEF On
    <3>2. j = i
      BY <1>1, <3>1
    <3> QED
      BY <3>1, <3>2
  <2> QED
    BY <1>1, <2>1, <2>2
<1>2. CASE log[i].id # x
  <2>1. ASSUME On(x, i)
        PROVE  On(x, i - 1)
    <3>1. PICK j \in 1..i : /\ log[j].id = x /\ log[j].on
                            /\ \A k \in (j + 1)..i : log[k].id # x
      BY <2>1 DEF On
    <3>2. j \in 1..(i - 1)
      BY <1>2, <3>1
    <3> QED
      BY <3>1, <3>2 DEF On
  <2>2. ASSUME On(x, i - 1)
        PROVE  On(x, i)
    <3>1. PICK j \in 1..(i - 1) : /\ log[j].id = x /\ log[j].on
                                  /\ \A k \in (j + 1)..(i - 1) : log[k].id # x
      BY <2>2 DEF On
    <3>2. \A k \in (j + 1)..i : log[k].id # x
      BY <1>2, <3>1
    <3> QED
      BY <3>1, <3>2 DEF On
  <2> QED
    BY <1>2, <2>1, <2>2
<1> QED
  BY <1>1, <1>2

\* The log as it was is a part of the longer one.
LEMMA LogGrows ==
  ASSUME LogSound, NEW e \in Event, log' = Append(log, e)
  PROVE  /\ log' \in Seq(Event) /\ Now \in Nat /\ Now' = Now + 1
         /\ log'[Now + 1] = e
         /\ \A i \in 1..Now : log'[i] = log[i]
         /\ \A x : \A i \in 0..Now : On(x, i)' <=> On(x, i)
<1>1. /\ log' \in Seq(Event) /\ Now \in Nat /\ Now' = Now + 1
      /\ log'[Now + 1] = e
      /\ \A i \in 1..Now : log'[i] = log[i]
  BY DEF LogSound, Now
<1>2. ASSUME NEW x, NEW i \in 0..Now
      PROVE  On(x, i)' <=> On(x, i)
  <2>1. \A j : j \in 1..i => j \in 1..Now
    BY <1>1
  <2>2. \A j \in 1..i : log'[j] = log[j]
    BY <1>1, <2>1
  <2>3. \A j \in 1..i : \A k \in (j + 1)..i : k \in 1..i
    OBVIOUS
  <2>4. ASSUME NEW j \in 1..i
        PROVE  (\A k \in (j + 1)..i : log'[k].id # x)
                 <=> (\A k \in (j + 1)..i : log[k].id # x)
    BY <2>2, <2>3
  <2> QED
    BY <2>2, <2>4 DEF On
<1> QED
  BY <1>1, <1>2

\* The node of a placed allocation that did not flap is up from there on.
LEMMA NodeStays ==
  ASSUME LogSound, NEW a \in Allocs, ~Flapped(a),
         NEW j \in 1..Now, log[j].id = a, log[j].on,
         NEW i \in j..Now
  PROVE  On(NodeOf[a], i)
<1> DEFINE n == NodeOf[a]
<1>1. n \in Nodes /\ Now \in Nat
  BY ClusterAssumption DEF LogSound, Now
<1>2. On(n, j)
  BY DEF LogSound
<1>3. PICK u \in 1..j : /\ log[u].id = n /\ log[u].on
                        /\ \A k \in (u + 1)..j : log[k].id # n
  BY <1>2 DEF On
<1>4. ASSUME NEW k \in (j + 1)..Now, log[k].id = n
      PROVE  FALSE
  <2>1. \A m \in (j + 1)..Now : log[m].id = n => log[m].on
    BY DEF Flapped
  <2>2. log[k].on /\ u < k /\ u \in 1..Now /\ k \in 1..Now
    BY <1>1, <1>4, <2>1
  <2>3. PICK m \in (u + 1)..(k - 1) : log[m].id = n /\ ~log[m].on
    BY <1>1, <1>3, <1>4, <2>2 DEF LogSound
  <2>4. m \in (u + 1)..j \/ m \in (j + 1)..Now
    BY <1>1, <2>2, <2>3
  <2> QED
    BY <1>3, <2>1, <2>3, <2>4
<1>5. \A k \in (u + 1)..i : log[k].id # n
  BY <1>1, <1>3, <1>4
<1> QED
  BY <1>1, <1>3, <1>5 DEF On

\* An allocation that runs at the end never stopped.
LEMMA NeverStopped ==
  ASSUME LogSound, NEW a \in Allocs, On(a, Now),
         NEW k \in 1..Now, log[k].id = a
  PROVE  log[k].on
<1>1. PICK j \in 1..Now : /\ log[j].id = a /\ log[j].on
                          /\ \A m \in (j + 1)..Now : log[m].id # a
  BY DEF On
<1>2. Now \in Nat
  BY DEF LogSound, Now
<1>3. k \notin (j + 1)..Now
  BY <1>1
<1>4. k < j => ~log[j].on
  BY <1>1 DEF LogSound
<1> QED
  BY <1>1, <1>2, <1>3, <1>4

\* Nothing that is said of the log changes while Nomad is quiet.
LEMMA LogStays ==
  ASSUME UNCHANGED log
  PROVE  /\ Now' = Now
         /\ LogSound => LogSound'
         /\ UpAt(Now)' = UpAt(Now) /\ RunningAt(Now)' = RunningAt(Now)
         /\ \A x : OnFrom(x, Given)' <=> OnFrom(x, Given')
         /\ \A x : OffFrom(x, Given)' <=> OffFrom(x, Given')
         /\ \A a : Steady(a, Given)' <=> Steady(a, Given')
<1>1. Now' = Now
  BY DEF Now
<1>2. \A x, i : On(x, i)' <=> On(x, i)
  BY DEF On
<1>3. LogSound => LogSound'
  BY <1>1, <1>2 DEF LogSound
<1>4. /\ \A x : OnFrom(x, Given)' <=> OnFrom(x, Given')
      /\ \A x : OffFrom(x, Given)' <=> OffFrom(x, Given')
  BY <1>1, <1>2 DEF OnFrom, OffFrom
<1>5. \A a : On(a, Now)' <=> On(a, Now)
  BY <1>1, <1>2 DEF On
<1>6. \A a : Steady(a, Given)' <=> Steady(a, Given')
  BY <1>1, <1>5 DEF Steady, Flapped, Pooled
<1>7. UpAt(Now)' = UpAt(Now) /\ RunningAt(Now)' = RunningAt(Now)
  BY <1>5 DEF UpAt, RunningAt
<1> QED
  BY <1>1, <1>3, <1>4, <1>6, <1>7

\* What is so from an index on is so from an earlier one on.
LEMMA Earlier ==
  ASSUME NEW g \in Nat, NEW h \in 0..g, NEW x
  PROVE  /\ OnFrom(x, g) => OnFrom(x, h)
         /\ OffFrom(x, g) => OffFrom(x, h)
         /\ Steady(x, h) => Steady(x, g)
BY DEF OnFrom, OffFrom, Steady

\* The event at g decides for its own node or allocation only.
LEMMA HandedOver ==
  ASSUME LogSound, NEW x, NEW g \in 1..Now
  PROVE  /\ log[g].id # x => /\ OnFrom(x, g - 1) => OnFrom(x, g)
                             /\ OffFrom(x, g - 1) => OffFrom(x, g)
         /\ log[g].id = x => IF log[g].on THEN OnFrom(x, g)
                                          ELSE OffFrom(x, g)
<1>1. Now \in Nat /\ g \in g..Now
  BY DEF LogSound, Now
<1>2. On(x, g) <=> IF log[g].id = x THEN log[g].on ELSE On(x, g - 1)
  BY OnStep
<1>3. \A j \in (g - 1)..Now : j = g - 1 \/ j \in g..Now
  BY <1>1
<1> QED
  BY <1>1, <1>2, <1>3 DEF OnFrom, OffFrom

\* At the end of the log there is no later index.
LEMMA AtEnd ==
  ASSUME LogSound, NEW x
  PROVE  /\ OnFrom(x, Now) <=> On(x, Now)
         /\ OffFrom(x, Now) <=> ~On(x, Now)
<1>1. Now \in Nat
  BY DEF LogSound, Now
<1>2. Now..Now = {Now}
  BY <1>1
<1> QED
  BY <1>2 DEF OnFrom, OffFrom

\* The node of a steady allocation is up at every index from g on.
LEMMA SteadyNode ==
  ASSUME LogSound, NEW a \in Allocs, NEW g \in 0..Now, Steady(a, g)
  PROVE  ~OffFrom(NodeOf[a], g) /\ On(NodeOf[a], g)
<1>1. PICK j \in 1..g : log[j].id = a /\ log[j].on
  BY DEF Steady
<1>2. Now \in Nat
  BY DEF LogSound, Now
<1>3. \A i \in g..Now : i \in j..Now /\ j \in 1..Now
  BY <1>1, <1>2
<1> QED
  BY <1>1, <1>2, <1>3, NodeStays DEF OffFrom, Steady

LEMMA LogEntry ==
  ASSUME LogSound, NEW i \in 1..Now
  PROVE  log[i] \in Event
BY DEF LogSound, Now

\* Given is the last index or the one before.
LEMMA GivenType ==
  ASSUME LogSound, MainSound
  PROVE  /\ Now \in Nat /\ Given \in 0..Now /\ last \in 0..Now
         /\ Given = last \/ Given = last - 1
<1>1. Now \in Nat
  BY DEF LogSound, Now
<1> QED
  BY <1>1 DEF MainSound, Given

\* The topic of an event says what its id is of.
LEMMA EventFacts ==
  /\ \A e \in Event : /\ e.on \in BOOLEAN /\ e # NoEvent
                      /\ e.topic = "node" <=> e.id \in Nodes
                      /\ e.topic = "alloc" <=> e.id \in Allocs
                      /\ e.topic \in {"node", "alloc", "eval"}
  /\ NoEvent.id \notin Nodes \cup Allocs /\ NoEvent.id = None
  /\ NoEvent.on = FALSE /\ NoEvent.topic = "none"
<1>1. ASSUME NEW e \in Event
      PROVE  /\ e.on \in BOOLEAN /\ e.topic # "none"
             /\ e.topic = "node" <=> e.id \in Nodes
             /\ e.topic = "alloc" <=> e.id \in Allocs
             /\ e.topic \in {"node", "alloc", "eval"}
  <2>1. CASE e \in [topic : {"node"}, id : Nodes, on : BOOLEAN]
    BY <2>1, ClusterAssumption
  <2>2. CASE e \in [topic : {"alloc"}, id : Allocs, on : BOOLEAN]
    BY <2>2, ClusterAssumption
  <2>3. CASE e \in [topic : {"eval"}, id : {None}, on : {TRUE}]
    BY <2>3, ClusterAssumption
  <2> QED
    BY <2>1, <2>2, <2>3 DEF Event
<1>2. /\ NoEvent.id = None /\ NoEvent.on = FALSE /\ NoEvent.topic = "none"
  BY DEF NoEvent
<1> QED
  BY <1>1, <1>2, ClusterAssumption

-----------------------------------------------------------------------------
(* Nomad *)

\* The log stays sound with a further event.
LEMMA LogNode ==
  ASSUME LogSound, NEW n \in Nodes, NodeChanges(n)
  PROVE  LogSound'
<1> DEFINE e == [topic |-> "node", id |-> n, on |-> n \notin UpAt(Now)]
<1>1. e \in Event /\ log' = Append(log, e)
  BY DEF NodeChanges, Happens, Event
<1>2. /\ log' \in Seq(Event) /\ Now \in Nat /\ Now' = Now + 1
      /\ log'[Now + 1] = e
      /\ \A i \in 1..Now : log'[i] = log[i]
      /\ \A x : \A i \in 0..Now : On(x, i)' <=> On(x, i)
  BY <1>1, LogGrows
<1>3. e.id = n /\ n \notin Allocs /\ (e.on <=> ~On(n, Now))
  BY ClusterAssumption DEF UpAt
<1> HIDE DEF e
<1>4. ASSUME NEW m \in Nodes, NEW j \in 1..Now', NEW k \in 1..Now', j < k,
             log'[j].id = m, log'[j].on, log'[k].id = m, log'[k].on
      PROVE  \E i \in (j + 1)..(k - 1) : log'[i].id = m /\ ~log'[i].on
  <2>1. j \in 1..Now /\ log'[j] = log[j]
    BY <1>2, <1>4
  <2>2. ASSUME NEW l \in 1..Now, j < l, log[l].id = m, log[l].on
        PROVE  \E i \in (j + 1)..(l - 1) : log'[i].id = m /\ ~log'[i].on
    <3>1. PICK i \in (j + 1)..(l - 1) : log[i].id = m /\ ~log[i].on
      BY <1>4, <2>1, <2>2 DEF LogSound
    <3> QED
      BY <1>2, <2>1, <3>1
  <2>3. CASE k \in 1..Now
    BY <1>2, <1>4, <2>2, <2>3
  <2>4. CASE k = Now + 1
    <3>1. m = n /\ ~On(n, Now)
      BY <1>2, <1>3, <1>4, <2>4
    <3>2. PICK l \in (j + 1)..Now : log[l].id = m
      BY <1>4, <2>1, <3>1 DEF On
    <3>3. CASE log[l].on
      <4>1. PICK i \in (j + 1)..(l - 1) : log'[i].id = m /\ ~log'[i].on
        BY <1>2, <2>1, <2>2, <3>2, <3>3
      <4> QED
        BY <1>2, <2>1, <2>4, <3>2, <4>1
    <3>4. CASE ~log[l].on
      BY <1>2, <2>1, <2>4, <3>2, <3>4
    <3> QED
      BY <3>3, <3>4
  <2> QED
    BY <1>2, <2>3, <2>4
<1>5. \A a \in Allocs : \A j \in 1..Now' :
        log'[j].id = a => j \in 1..Now /\ log'[j] = log[j]
  BY <1>2, <1>3
<1>6. ASSUME NEW a \in Allocs, NEW j \in 1..Now', log'[j].id = a, log'[j].on
      PROVE  On(NodeOf[a], j)'
  BY <1>2, <1>5, <1>6 DEF LogSound
<1> QED
  BY <1>2, <1>4, <1>5, <1>6 DEF LogSound

LEMMA LogAlloc ==
  ASSUME LogSound, NEW a \in Allocs, Place(a) \/ Stop(a)
  PROVE  LogSound'
<1>1. PICK e \in Event : /\ log' = Append(log, e) /\ e.id = a
                         /\ e.on => Place(a)
                         /\ ~e.on => Stop(a)
  <2>1. /\ [topic |-> "alloc", id |-> a, on |-> TRUE] \in Event
        /\ [topic |-> "alloc", id |-> a, on |-> FALSE] \in Event
    BY DEF Event
  <2>2. /\ Place(a) =>
             log' = Append(log, [topic |-> "alloc", id |-> a, on |-> TRUE])
        /\ Stop(a) =>
             log' = Append(log, [topic |-> "alloc", id |-> a, on |-> FALSE])
    BY DEF Place, Stop, Happens
  <2> QED
    BY <2>1, <2>2
<1>2. /\ log' \in Seq(Event) /\ Now \in Nat /\ Now' = Now + 1
      /\ log'[Now + 1] = e
      /\ \A i \in 1..Now : log'[i] = log[i]
      /\ \A x : \A i \in 0..Now : On(x, i)' <=> On(x, i)
  BY <1>1, LogGrows
<1>3. a \notin Nodes /\ NodeOf[a] \in Nodes
  BY ClusterAssumption
<1>4. ASSUME NEW n \in Nodes, NEW j \in 1..Now', log'[j].id = n
      PROVE  j \in 1..Now /\ log'[j] = log[j]
  <2>1. j # Now + 1
    BY <1>1, <1>2, <1>3, <1>4
  <2> QED
    BY <1>2, <2>1
<1>5. ASSUME NEW n \in Nodes, NEW j \in 1..Now', NEW k \in 1..Now', j < k,
             log'[j].id = n, log'[j].on, log'[k].id = n, log'[k].on
      PROVE  \E i \in (j + 1)..(k - 1) : log'[i].id = n /\ ~log'[i].on
  <2>1. /\ j \in 1..Now /\ log'[j] = log[j]
        /\ k \in 1..Now /\ log'[k] = log[k]
    BY <1>4, <1>5
  <2>2. PICK i \in (j + 1)..(k - 1) : log[i].id = n /\ ~log[i].on
    BY <1>5, <2>1 DEF LogSound
  <2>3. i \in 1..Now
    BY <1>2, <2>1
  <2> QED
    BY <1>2, <2>2, <2>3
<1>6. ASSUME NEW b \in Allocs, NEW j \in 1..Now', NEW k \in 1..Now', j < k,
             log'[j].id = b, log'[k].id = b
      PROVE  log'[j].on /\ ~log'[k].on
  <2>1. j \in 1..Now /\ log'[j] = log[j]
    BY <1>2, <1>6
  <2>2. CASE k \in 1..Now
    BY <1>2, <1>6, <2>1, <2>2 DEF LogSound
  <2>3. CASE k = Now + 1
    <3>1. b = a /\ log'[k] = e
      BY <1>1, <1>2, <1>6, <2>3
    <3>2. ~e.on
      BY <1>1, <1>6, <2>1, <3>1 DEF Place
    <3>3. On(a, Now)
      BY <1>1, <3>2 DEF Stop, RunningAt
    <3>4. log[j].on
      BY <1>6, <2>1, <3>1, <3>3, NeverStopped
    <3> QED
      BY <2>1, <3>1, <3>2, <3>4
  <2> QED
    BY <1>2, <2>2, <2>3
<1>7. ASSUME NEW b \in Allocs, NEW j \in 1..Now', log'[j].id = b, log'[j].on
      PROVE  On(NodeOf[b], j)'
  <2>1. CASE j \in 1..Now
    BY <1>2, <1>7, <2>1 DEF LogSound
  <2>2. CASE j = Now + 1
    <3>1. b = a /\ On(NodeOf[a], Now)
      BY <1>1, <1>2, <1>7, <2>2 DEF Place, UpAt
    <3>3. PICK u \in 1..Now : /\ log[u].id = NodeOf[a] /\ log[u].on
                              /\ \A k \in (u + 1)..Now : log[k].id # NodeOf[a]
      BY <3>1 DEF On
    <3>4. ASSUME NEW k \in (u + 1)..j
          PROVE  log'[k].id # NodeOf[a]
      <4>1. CASE k = Now + 1
        BY <1>1, <1>2, <1>3, <4>1
      <4>2. CASE k # Now + 1
        <5>1. k \in (u + 1)..Now /\ k \in 1..Now
          BY <1>2, <2>2, <4>2
        <5> QED
          BY <1>2, <3>3, <5>1
      <4> QED
        BY <4>1, <4>2
    <3>5. u \in 1..j /\ log'[u].id = NodeOf[a] /\ log'[u].on
      BY <1>2, <2>2, <3>3
    <3> QED
      BY <3>1, <3>4, <3>5 DEF On
  <2> QED
    BY <1>2, <2>1, <2>2
<1> QED
  BY <1>2, <1>5, <1>6, <1>7 DEF LogSound

\* An evaluation is of no node and of no allocation.
LEMMA LogEval ==
  ASSUME LogSound, Evaluate
  PROVE  LogSound'
<1> DEFINE e == [topic |-> "eval", id |-> None, on |-> TRUE]
<1>1. e \in Event /\ e.id \notin Nodes \cup Allocs /\ log' = Append(log, e)
  BY ClusterAssumption DEF Evaluate, Happens, Event
<1> HIDE DEF e
<1>2. /\ log' \in Seq(Event) /\ Now \in Nat /\ Now' = Now + 1
      /\ log'[Now + 1] = e
      /\ \A i \in 1..Now : log'[i] = log[i]
      /\ \A x : \A i \in 0..Now : On(x, i)' <=> On(x, i)
  BY <1>1, LogGrows
<1>3. ASSUME NEW x \in Nodes \cup Allocs, NEW j \in 1..Now', log'[j].id = x
      PROVE  j \in 1..Now /\ log'[j] = log[j]
  <2>1. j # Now + 1
    BY <1>1, <1>2, <1>3
  <2> QED
    BY <1>2, <2>1
<1>4. ASSUME NEW n \in Nodes, NEW j \in 1..Now', NEW k \in 1..Now', j < k,
             log'[j].id = n, log'[j].on, log'[k].id = n, log'[k].on
      PROVE  \E i \in (j + 1)..(k - 1) : log'[i].id = n /\ ~log'[i].on
  <2>1. /\ j \in 1..Now /\ log'[j] = log[j]
        /\ k \in 1..Now /\ log'[k] = log[k]
    BY <1>3, <1>4
  <2>2. PICK i \in (j + 1)..(k - 1) : log[i].id = n /\ ~log[i].on
    BY <1>4, <2>1 DEF LogSound
  <2>3. i \in 1..Now
    BY <1>2, <2>1
  <2> QED
    BY <1>2, <2>2, <2>3
<1>5. ASSUME NEW a \in Allocs, NEW j \in 1..Now', NEW k \in 1..Now', j < k,
             log'[j].id = a, log'[k].id = a
      PROVE  log'[j].on /\ ~log'[k].on
  <2>1. /\ j \in 1..Now /\ log'[j] = log[j]
        /\ k \in 1..Now /\ log'[k] = log[k]
    BY <1>3, <1>5
  <2> QED
    BY <1>5, <2>1 DEF LogSound
<1>6. ASSUME NEW a \in Allocs, NEW j \in 1..Now', log'[j].id = a, log'[j].on
      PROVE  On(NodeOf[a], j)'
  <2>1. j \in 1..Now /\ log'[j] = log[j]
    BY <1>3, <1>6
  <2> QED
    BY <1>2, <1>6, <2>1 DEF LogSound
<1> QED
  BY <1>2, <1>4, <1>5, <1>6 DEF LogSound

\* An allocation that is steady after a further event was so before.
LEMMA SteadyBefore ==
  ASSUME LogSound, LogSound', NEW e \in Event, log' = Append(log, e),
         NEW a \in Allocs, NEW g \in 0..Now, Steady(a, g)'
  PROVE  Steady(a, g)
<1>1. Now \in Nat /\ Now' = Now + 1
  BY LogGrows
<1>2. \A i \in 1..Now : log'[i] = log[i]
  BY LogGrows
<1>3. /\ \E j \in 1..g : log'[j].id = a /\ log'[j].on
      /\ ~Flapped(a)' /\ On(a, Now)' /\ NodeOf[a] \in Pooled
  BY DEF Steady, Pooled
<1>4. PICK j \in 1..g : log'[j].id = a /\ log'[j].on
  BY <1>3
<1>5. j \in 1..Now
  BY <1>1
<1>6. log[j].id = a /\ log[j].on
  BY <1>2, <1>4, <1>5
<1>7. ~Flapped(a)
  <2>1. ASSUME NEW i \in 1..Now, NEW k \in 1..Now, i < k, log[i].id = a,
               log[k].id = NodeOf[a], ~log[k].on
        PROVE  FALSE
    <3>1. i \in 1..Now' /\ k \in 1..Now'
      BY <1>1
    <3>2. log'[i] = log[i] /\ log'[k] = log[k]
      BY <1>2
    <3> QED
      BY <1>3, <2>1, <3>1, <3>2 DEF Flapped
  <2> QED
    BY <2>1 DEF Flapped
<1>8. On(a, Now)
  <2>1. PICK i \in 1..Now' : /\ log'[i].id = a /\ log'[i].on
                            /\ \A k \in (i + 1)..Now' : log'[k].id # a
    BY <1>3 DEF On
  <2>2. j \in 1..Now'
    BY <1>1, <1>5
  <2>3. i < j => ~log'[j].on
    BY <1>4, <2>1, <2>2 DEF LogSound
  <2>4. j < i => ~log'[i].on
    BY <1>4, <2>1, <2>2 DEF LogSound
  <2>5. i = j
    BY <1>1, <1>4, <2>1, <2>2, <2>3, <2>4
  <2>6. ASSUME NEW k \in (j + 1)..Now
        PROVE  log[k].id # a
    <3>1. k \in (i + 1)..Now' /\ k \in 1..Now
      BY <1>1, <1>5, <2>5
    <3> QED
      BY <1>2, <2>1, <3>1
  <2> QED
    BY <1>5, <1>6, <2>6 DEF On
<1> QED
  BY <1>3, <1>4, <1>6, <1>7, <1>8 DEF Steady

\* Nomad writes to its log and nothing else.
LEMMA NomadSound ==
  ASSUME IInv, Nomad
  PROVE  IInv'
<1>1. LogSound'
  BY LogNode, LogAlloc, LogEval DEF Nomad, IInv
<1>2. /\ \E e : log' = Append(log, e)
      /\ UNCHANGED <<main, startVars, pos, nh, ah, evals, poolVars, crashes>>
  BY DEF Nomad, NodeChanges, Place, Stop, Evaluate, Happens
<1>3. PICK e \in Event : log' = Append(log, e)
  <2>1. PICK e : log' = Append(log, e)
    BY <1>2
  <2>2. log \in Seq(Event) /\ log' \in Seq(Event)
    BY <1>1 DEF IInv, LogSound
  <2>3. log'[Len(log) + 1] = e /\ Len(log') = Len(log) + 1
    BY <2>1, <2>2
  <2>4. e \in Event
    BY <2>2, <2>3
  <2> QED
    BY <2>1, <2>4
<1>4. /\ Now \in Nat /\ Now' = Now + 1
      /\ \A i \in 1..Now : log'[i] = log[i]
      /\ \A x : \A i \in 0..Now : On(x, i)' <=> On(x, i)
  BY <1>3, LogGrows DEF IInv
<1>5. MainSound'
  <2>1. main.pc = "send" => log'[last] = log[last]
    BY <1>4 DEF IInv, MainSound
  <2>2. last \in 0..(Now + 1)
    BY <1>4 DEF IInv, MainSound
  <2> QED
    BY <1>2, <1>4, <2>1, <2>2 DEF IInv, MainSound, startVars, poolVars
<1>6. HandlersSound' /\ PoolsSound'
  <2>1. \A k \in 1..Now : k \in 1..Now' /\ log'[k] = log[k]
    BY <1>4
  <2> QED
    BY <1>2, <2>1 DEF IInv, HandlersSound, PoolsSound, Starting, poolVars,
                      startVars
<1>7. Given' = Given /\ Given \in 0..Now
  BY <1>2, GivenType DEF IInv, Given, startVars
<1>8. \A x : /\ OnFrom(x, Given) => OnFrom(x, Given)'
             /\ OffFrom(x, Given) => OffFrom(x, Given)'
  <2>1. \A j \in Given..Now : j \in Given..Now' /\ j \in 0..Now
    BY <1>4, <1>7
  <2> QED
    BY <1>4, <1>7, <2>1 DEF OnFrom, OffFrom
<1>9. NodesFollow' /\ AllocsFollow'
  BY <1>2, <1>8 DEF IInv, NodesFollow, AllocsFollow, WillHave, MayHave,
                    startVars, poolVars
<1>10. AllocsKept'
  <2>1. \A a \in Allocs : Steady(a, Given)' => Steady(a, Given)
    BY <1>1, <1>3, <1>7, SteadyBefore DEF IInv
  <2> QED
    BY <1>2, <2>1 DEF IInv, AllocsKept, Unread, startVars, poolVars
<1> QED
  BY <1>1, <1>5, <1>6, <1>9, <1>10 DEF IInv

-----------------------------------------------------------------------------
(* The start *)

\* The nodes that are not listed had no event yet, and nothing is handed over
\* but what the list is of.
LEMMA ListSound ==
  ASSUME IInv, NEW i \in 0..Now, StartList(i)
  PROVE  IInv'
<1>1. /\ UNCHANGED <<log, nh, ah, nodes, allocs, raced, pos>>
      /\ main.pc = "list" /\ main' = [main EXCEPT !.pc = "info"]
      /\ last' = i
      /\ todo' = {n \in Nodes : \E j \in 1..i : log[j].id = n}
  BY DEF StartList, poolVars
<1>2. /\ Now' = Now /\ LogSound'
      /\ \A x : /\ OnFrom(x, Given)' <=> OnFrom(x, Given')
                /\ OffFrom(x, Given)' <=> OffFrom(x, Given')
                /\ Steady(x, Given)' <=> Steady(x, Given')
  BY <1>1, LogStays DEF IInv
<1>3. /\ main' \in [pc : {"info"}, event : MainEvents]
      /\ main.pc = "list" /\ main'.pc = "info" /\ Given' = i
      /\ Now \in Nat /\ nodes = {} /\ allocs = {}
      /\ nh = NoEvent /\ ah.event = NoEvent
  BY <1>1, GivenType DEF IInv, MainSound, HandlersSound, Given, Starting
<1>4. MainSound'
  BY <1>1, <1>2, <1>3 DEF MainSound, IInv
<1>5. HandlersSound' /\ PoolsSound'
  BY <1>1, <1>2, <1>3 DEF IInv, HandlersSound, PoolsSound, Starting
<1>6. NodesFollow'
  <2> SUFFICES ASSUME NEW n \in Nodes, n \notin todo'
               PROVE  ~WillHave(n)' /\ OffFrom(n, Given')
    BY <1>2, <1>3 DEF NodesFollow, Pooled
  <2>1. ~On(n, i)
    BY <1>1 DEF On
  <2>2. OffFrom(n, i)
    BY <1>3, <2>1 DEF OffFrom
  <2>3. ~WillHave(n)'
    BY <1>1, <1>3, EventFacts DEF WillHave
  <2> QED
    BY <1>3, <2>2, <2>3
<1>7. AllocsFollow'
  BY <1>1, <1>3, EventFacts DEF AllocsFollow, MayHave
<1>8. AllocsKept'
  <2>1. ASSUME NEW a \in Allocs, Steady(a, i)
        PROVE  NodeOf[a] \in todo'
    <3>1. On(NodeOf[a], i)
      BY <2>1, SteadyNode DEF IInv
    <3> QED
      BY <1>1, <3>1, ClusterAssumption DEF On
  <2> QED
    BY <1>2, <1>3, <2>1 DEF AllocsKept, Unread
<1> QED
  BY <1>2, <1>4, <1>5, <1>6, <1>7, <1>8 DEF IInv

\* A node is entered if it is up now.
LEMMA InfoSound ==
  ASSUME IInv, NEW n \in Nodes, StartNode(n)
  PROVE  IInv'
<1>1. /\ UNCHANGED <<log, nh, ah, allocs, raced, pos, last>>
      /\ main.pc = "info" /\ n \in todo /\ todo' = todo \ {n}
      /\ nodes' = nodes \cup ({n} \cap UpAt(Now) \cap Pooled)
      /\ main' = IF n \in Pooled
                 THEN [pc |-> "allocs", event |-> [NoEvent EXCEPT !.id = n]]
                 ELSE main
  BY DEF StartNode
<1>2. /\ Now' = Now /\ LogSound'
      /\ \A x : /\ OnFrom(x, Given)' <=> OnFrom(x, Given')
                /\ OffFrom(x, Given)' <=> OffFrom(x, Given')
                /\ Steady(x, Given)' <=> Steady(x, Given')
  BY <1>1, LogStays DEF IInv
<1>3. /\ main' \in [pc : {"info", "allocs"}, event : MainEvents]
      /\ main'.pc = "allocs" => main'.event.id = n /\ n \in Pooled
      /\ n \in Pooled => main'.pc = "allocs" /\ main'.event.id = n
  <2>1. /\ [NoEvent EXCEPT !.id = n] \in
               [topic : {"none"}, id : Nodes, on : {FALSE}]
        /\ [NoEvent EXCEPT !.id = n].id = n
    BY DEF NoEvent
  <2>2. [NoEvent EXCEPT !.id = n] \in MainEvents
    BY <2>1 DEF MainEvents
  <2> QED
    BY <1>1, <2>1, <2>2 DEF IInv, MainSound
<1>4. /\ Given' = Given /\ Given \in 0..Now /\ Now \in Nat
      /\ nh = NoEvent /\ ah.event = NoEvent
  BY <1>1, <1>3, GivenType DEF IInv, HandlersSound, Given, Starting
<1>5. MainSound'
  BY <1>1, <1>2, <1>3 DEF IInv, MainSound
<1>6. HandlersSound'
  BY <1>1, <1>2, <1>3, <1>4 DEF IInv, HandlersSound, Starting
<1>7. PoolsSound'
  BY <1>1 DEF IInv, PoolsSound, OnNodes
<1>8. NodesFollow'
  <2> SUFFICES ASSUME NEW m \in Pooled, m \notin todo'
               PROVE  /\ WillHave(m)' => OnFrom(m, Given)
                      /\ ~WillHave(m)' => OffFrom(m, Given)
    BY <1>2, <1>4 DEF NodesFollow, Pooled
  <2>1. nh.id \notin Nodes /\ m \in Nodes
    BY <1>4, EventFacts DEF Pooled
  <2>2. WillHave(m) = (m \in nodes) /\ WillHave(m)' = (m \in nodes')
    BY <1>1, <2>1 DEF WillHave
  <2>3. CASE m = n
    <3>1. m \notin nodes
      BY <1>1, <2>3 DEF IInv, PoolsSound
    <3>2. m \in nodes' <=> On(m, Now)
      BY <1>1, <2>1, <2>3, <3>1 DEF UpAt
    <3>3. Now \in Given..Now
      BY <1>4
    <3> QED
      BY <2>2, <3>2, <3>3 DEF OnFrom, OffFrom
  <2>4. CASE m # n
    <3>1. m \notin todo /\ (m \in nodes' <=> m \in nodes)
      BY <1>1, <2>4
    <3> QED
      BY <2>2, <3>1 DEF IInv, NodesFollow
  <2> QED
    BY <2>3, <2>4
<1>9. AllocsFollow'
  BY <1>1, <1>2, <1>4 DEF IInv, AllocsFollow, MayHave
<1>10. AllocsKept'
  <2> SUFFICES ASSUME NEW a \in Allocs \ raced, Steady(a, Given),
                      ~Unread(NodeOf[a])'
               PROVE  a \in allocs \/ ah.event.id = a
    BY <1>1, <1>2, <1>4 DEF AllocsKept
  <2>1. NodeOf[a] \in Pooled
    BY DEF Steady
  <2>2. NodeOf[a] # n
    BY <1>3, <2>1 DEF Unread
  <2>3. ~Unread(NodeOf[a])
    BY <1>1, <2>2 DEF Unread
  <2> QED
    BY <2>3 DEF IInv, AllocsKept
<1> QED
  BY <1>2, <1>5, <1>6, <1>7, <1>8, <1>9, <1>10 DEF IInv

\* The allocations that run now are entered.
LEMMA StartAllocsSound ==
  ASSUME IInv, StartAllocs
  PROVE  IInv'
<1>1. /\ UNCHANGED <<log, nh, ah, nodes, raced, pos, last, todo>>
      /\ main.pc = "allocs" /\ main' = [pc |-> "info", event |-> NoEvent]
      /\ allocs' = allocs \cup {a \in RunningAt(Now) :
                          NodeOf[a] = main.event.id /\ NodeOf[a] \in nodes}
  BY DEF StartAllocs, startVars
<1>2. /\ Now' = Now /\ LogSound'
      /\ \A x : /\ OnFrom(x, Given)' <=> OnFrom(x, Given')
                /\ OffFrom(x, Given)' <=> OffFrom(x, Given')
                /\ Steady(x, Given)' <=> Steady(x, Given')
  BY <1>1, LogStays DEF IInv
<1>3. /\ main'.pc = "info" /\ NoEvent \in MainEvents
      /\ Given' = Given /\ Given \in 0..Now /\ Now \in Nat
      /\ nh = NoEvent /\ ah.event = NoEvent
  BY <1>1, GivenType DEF IInv, HandlersSound, Given, Starting, MainEvents
<1>4. MainSound'
  BY <1>1, <1>2, <1>3 DEF IInv, MainSound
<1>5. HandlersSound'
  BY <1>1, <1>2, <1>3 DEF IInv, HandlersSound, Starting
<1>6. PoolsSound'
  BY <1>1 DEF IInv, PoolsSound, OnNodes, RunningAt, Pooled
<1>7. NodesFollow'
  BY <1>1, <1>2, <1>3 DEF IInv, NodesFollow, WillHave, Pooled
<1>8. AllocsFollow'
  <2>1. ASSUME NEW a \in RunningAt(Now)
        PROVE  OnFrom(a, Given)
    BY <1>3, <2>1 DEF RunningAt, OnFrom
  <2> QED
    BY <1>1, <1>2, <1>3, <2>1, EventFacts DEF IInv, AllocsFollow, MayHave
<1>9. AllocsKept'
  <2> SUFFICES ASSUME NEW a \in Allocs \ raced, Steady(a, Given),
                      NodeOf[a] \notin todo
               PROVE  a \in allocs' \/ ah.event.id = a
    BY <1>1, <1>2, <1>3 DEF AllocsKept, Unread
  <2>1. CASE NodeOf[a] = main.event.id
    <3>1. NodeOf[a] \in Pooled /\ a \in RunningAt(Now)
      BY DEF Steady, RunningAt
    <3>2. ~OffFrom(NodeOf[a], Given)
      BY <1>3, SteadyNode DEF IInv
    <3>3. WillHave(NodeOf[a])
      BY <3>1, <3>2 DEF IInv, NodesFollow
    <3>4. nh.id # NodeOf[a]
      BY <1>3, <3>1, EventFacts DEF Pooled
    <3>5. NodeOf[a] \in nodes
      BY <3>3, <3>4 DEF WillHave
    <3> QED
      BY <1>1, <2>1, <3>1, <3>5
  <2>2. CASE NodeOf[a] # main.event.id
    BY <1>1, <2>2 DEF IInv, AllocsKept, Unread
  <2> QED
    BY <2>1, <2>2
<1> QED
  BY <1>2, <1>4, <1>5, <1>6, <1>7, <1>8, <1>9 DEF IInv

-----------------------------------------------------------------------------
(* The main loop and the handlers *)

\* The stream goes back at most to the event that was handed over last.
LEMMA LoopSound ==
  ASSUME IInv,
         StartEvals \/ Connect \/ Read \/ Break \/ EvalHandled
  PROVE  IInv'
<1>1. UNCHANGED <<log, nh, ah, nodes, allocs, raced, todo>>
  BY DEF StartEvals, Connect, Read, Break, EvalHandled, startVars, poolVars
<1>2. /\ Now' = Now /\ LogSound'
      /\ \A x : /\ OnFrom(x, Given)' <=> OnFrom(x, Given')
                /\ OffFrom(x, Given)' <=> OffFrom(x, Given')
                /\ Steady(x, Given)' <=> Steady(x, Given')
  BY <1>1, LogStays DEF IInv
<1>3. Now \in Nat /\ Given \in 0..Now /\ last \in 0..Now
  BY GivenType DEF IInv
<1>4. /\ MainSound' /\ Given' \in 0..Given
      /\ main'.pc = main.pc \/ main'.pc \in {"connect", "read", "send"}
      /\ Starting' => Starting
      /\ "allocs" \in {main.pc, main'.pc} => main' = main
  <2>1. CASE StartEvals
    BY <1>2, <1>3, <2>1
       DEF StartEvals, IInv, MainSound, Given, Starting, startVars, poolVars
  <2>2. CASE Connect
    <3>1. pos' \in {last, last + 1} /\ pos' > 0 /\ pos' \in Nat
      BY <1>3, <2>2 DEF Connect, Resume
    <3> QED
      BY <1>2, <1>3, <2>2, <3>1
         DEF Connect, IInv, MainSound, Given, Starting, startVars, poolVars
  <2>3. CASE Read
    <3>1. /\ pos \in {last, last + 1} /\ pos > 0 /\ pos \in 1..Now
          /\ main.pc = "read" /\ main'.pc = "send" /\ main'.event = log[pos]
          /\ main' = [pc |-> "send", event |-> log[pos]]
          /\ last' = pos /\ pos' = pos + 1
      BY <1>3, <2>3 DEF Read, Index, IInv, MainSound
    <3>2. log[pos] \in MainEvents
      BY <3>1, LogEntry DEF IInv, MainEvents
    <3>3. MainSound'
      BY <1>1, <1>2, <1>3, <3>1, <3>2 DEF IInv, MainSound
    <3>4. Given' = pos - 1 /\ Given = last
      BY <3>1 DEF Given
    <3> QED
      BY <1>3, <3>1, <3>3, <3>4 DEF Starting
  <2>4. CASE Break
    BY <1>2, <1>3, <2>4
       DEF Break, AfterBreak, IInv, MainSound, Given, Starting, startVars,
           poolVars
  <2>5. CASE EvalHandled
    BY <1>2, <1>3, <2>5
       DEF EvalHandled, IInv, MainSound, Given, Starting, startVars, poolVars
  <2> QED
    BY <2>1, <2>2, <2>3, <2>4, <2>5
<1>5. HandlersSound' /\ PoolsSound'
  BY <1>1, <1>2, <1>4 DEF IInv, HandlersSound, PoolsSound
<1>6. \A x : /\ OnFrom(x, Given) => OnFrom(x, Given')
             /\ OffFrom(x, Given) => OffFrom(x, Given')
             /\ Steady(x, Given') => Steady(x, Given)
  BY <1>3, <1>4, Earlier
<1>7. NodesFollow'
  BY <1>1, <1>2, <1>6 DEF IInv, NodesFollow, WillHave, Pooled
<1>8. AllocsFollow'
  BY <1>1, <1>2, <1>6 DEF IInv, AllocsFollow, MayHave
<1>9. AllocsKept'
  <2>1. \A n : ~Unread(n)' => ~Unread(n)
    BY <1>1, <1>4 DEF Unread, IInv, MainSound
  <2> QED
    BY <1>1, <1>2, <1>6, <2>1 DEF IInv, AllocsKept
<1> QED
  BY <1>2, <1>4, <1>5, <1>7, <1>8, <1>9 DEF IInv

\* The event at last is handed over: it decides for its own id, and nothing
\* else changes there.
LEMMA SendSound ==
  ASSUME IInv, Send
  PROVE  IInv'
<1>1. /\ UNCHANGED <<log, nodes, allocs, raced, todo, last, pos>>
      /\ main.pc = "send" /\ main' = [pc |-> "read", event |-> NoEvent]
      /\ \/ main.event.topic = "node" /\ nh = NoEvent /\ nh' = main.event
            /\ ah' = ah
         \/ main.event.topic = "alloc" /\ ah.event = NoEvent /\ nh' = nh
            /\ ah' = [event |-> main.event, found |-> FALSE]
         \/ main.event.topic = "eval" /\ nh' = nh /\ ah' = ah
  BY DEF Send, startVars, poolVars
<1>2. /\ Now' = Now /\ LogSound'
      /\ \A x : /\ OnFrom(x, Given)' <=> OnFrom(x, Given')
                /\ OffFrom(x, Given)' <=> OffFrom(x, Given')
                /\ Steady(x, Given)' <=> Steady(x, Given')
  BY <1>1, LogStays DEF IInv
<1>3. /\ Now \in Nat /\ last \in 1..Now /\ Given = last - 1 /\ Given' = last
      /\ main.event = log[last] /\ pos = last + 1
  BY <1>1, GivenType DEF IInv, MainSound, Given
<1>4. main.event \in Event
  BY <1>3, LogEntry DEF IInv
<1>5. MainSound'
  BY <1>1, <1>2, <1>3 DEF IInv, MainSound, MainEvents
<1>6. HandlersSound' /\ PoolsSound'
  <2>1. PoolsSound' /\ ~Starting'
    BY <1>1 DEF IInv, PoolsSound, Starting
  <2>2. CASE main.event.topic = "node"
    <3>1. nh' = main.event /\ ah' = ah /\ main.event.id \in Nodes
      BY <1>1, <1>4, <2>2, EventFacts
    <3> QED
      BY <1>1, <1>2, <1>4, <2>1, <3>1 DEF IInv, HandlersSound
  <2>3. CASE main.event.topic = "alloc"
    <3>1. /\ ah' = [event |-> main.event, found |-> FALSE] /\ nh' = nh
          /\ main.event.id \in Allocs
      BY <1>1, <1>4, <2>3, EventFacts
    <3>2. \E k \in 1..Now : log[k] = main.event
      BY <1>3
    <3> QED
      BY <1>1, <1>2, <1>4, <2>1, <3>1, <3>2 DEF IInv, HandlersSound
  <2>4. CASE main.event.topic = "eval"
    BY <1>1, <1>2, <2>1, <2>4 DEF IInv, HandlersSound
  <2> QED
    BY <1>1, <2>2, <2>3, <2>4
<1>7. \A x :
        /\ log[last].id # x => /\ OnFrom(x, Given) => OnFrom(x, last)
                               /\ OffFrom(x, Given) => OffFrom(x, last)
        /\ log[last].id = x => IF log[last].on THEN OnFrom(x, last)
                                               ELSE OffFrom(x, last)
  BY <1>3, HandedOver DEF IInv
<1>8. NodesFollow'
  <2> SUFFICES ASSUME NEW n \in Pooled \ todo
               PROVE  /\ WillHave(n)' => OnFrom(n, last)
                      /\ ~WillHave(n)' => OffFrom(n, last)
    BY <1>1, <1>2, <1>3 DEF NodesFollow, Pooled
  <2>1. n \in Nodes
    BY DEF Pooled
  <2>2. CASE main.event.id = n
    <3>1. nh' = main.event
      BY <1>1, <1>4, <2>1, <2>2, EventFacts
    <3>2. WillHave(n)' <=> log[last].on
      BY <1>3, <2>2, <3>1 DEF WillHave
    <3> QED
      BY <1>3, <1>7, <2>2, <3>2
  <2>3. CASE main.event.id # n
    <3>1. nh'.id = n <=> nh.id = n
      BY <1>1, <2>1, <2>3, EventFacts
    <3>2. nh.id = n => nh' = nh
      BY <1>1, <2>1, EventFacts
    <3>3. WillHave(n)' <=> WillHave(n)
      BY <1>1, <3>1, <3>2 DEF WillHave
    <3>4. log[last].id # n
      BY <1>3, <2>3
    <3> QED
      BY <1>7, <3>3, <3>4 DEF IInv, NodesFollow
  <2> QED
    BY <2>2, <2>3
<1>9. AllocsFollow'
  <2> SUFFICES ASSUME NEW a \in Allocs \ raced, MayHave(a)'
               PROVE  OnFrom(a, last)
    BY <1>1, <1>2, <1>3 DEF AllocsFollow
  <2>1. CASE main.event.id = a
    <3>1. ah'.event = main.event
      BY <1>1, <1>4, <2>1, EventFacts
    <3> QED
      BY <1>3, <1>7, <2>1, <3>1 DEF MayHave
  <2>2. CASE main.event.id # a
    <3>1. ah'.event.id = a <=> ah.event.id = a
      BY <1>1, <2>2, EventFacts
    <3>2. ah.event.id = a => ah' = ah
      BY <1>1, EventFacts
    <3>3. MayHave(a)
      BY <1>1, <3>1, <3>2 DEF MayHave
    <3>4. log[last].id # a
      BY <1>3, <2>2
    <3> QED
      BY <1>7, <3>3, <3>4 DEF IInv, AllocsFollow
  <2> QED
    BY <2>1, <2>2
<1>10. AllocsKept'
  <2> SUFFICES ASSUME NEW a \in Allocs \ raced, Steady(a, last),
                      NodeOf[a] \notin todo
               PROVE  a \in allocs \/ ah'.event.id = a
    BY <1>1, <1>2, <1>3 DEF AllocsKept, Unread
  <2>1. CASE main.event.id = a
    BY <1>1, <1>4, <2>1, EventFacts
  <2>2. CASE main.event.id # a
    <3>1. Steady(a, Given)
      <4>1. PICK j \in 1..last : log[j].id = a /\ log[j].on
        BY DEF Steady
      <4>2. j \in 1..Given
        BY <1>3, <2>2, <4>1
      <4> QED
        BY <4>1, <4>2 DEF Steady
    <3>2. ~Unread(NodeOf[a])
      BY <1>1 DEF Unread
    <3>3. a \in allocs \/ ah.event.id = a
      BY <3>1, <3>2 DEF IInv, AllocsKept
    <3> QED
      BY <1>1, <3>3, EventFacts
  <2> QED
    BY <2>1, <2>2
<1> QED
  BY <1>2, <1>5, <1>6, <1>8, <1>9, <1>10 DEF IInv

\* The node handler does to the pool what it was given.
LEMMA NodeSound ==
  ASSUME IInv, NodeHandled
  PROVE  IInv'
<1>1. /\ UNCHANGED <<log, main, todo, last, pos, ah>>
      /\ nh # NoEvent /\ nh' = NoEvent
      /\ nodes' = IF nh.on THEN nodes \cup ({nh.id} \cap Pooled)
                           ELSE nodes \ {nh.id}
      /\ allocs' = IF nh.on THEN allocs ELSE allocs \ OnNodes({nh.id})
      /\ raced' = raced \cup ({ah.event.id} \cap OnNodes({nh.id}))
  BY DEF NodeHandled, startVars
<1>2. /\ Now' = Now /\ LogSound' /\ Given' = Given
      /\ \A x : /\ OnFrom(x, Given)' <=> OnFrom(x, Given')
                /\ OffFrom(x, Given)' <=> OffFrom(x, Given')
                /\ Steady(x, Given)' <=> Steady(x, Given')
  BY <1>1, LogStays DEF IInv, Given
<1>3. nh.id \in Nodes /\ ~Starting /\ todo = {} /\ main.pc # "allocs"
  BY <1>1 DEF IInv, HandlersSound, MainSound, Starting
<1>4. /\ raced \subseteq raced' /\ allocs' \subseteq allocs
      /\ \A a \in allocs \ allocs' : ~nh.on /\ NodeOf[a] = nh.id
      /\ \A n \in nodes \ nodes' : ~nh.on /\ n = nh.id
      /\ \A a \in Allocs : ah.event.id = a /\ NodeOf[a] = nh.id => a \in raced'
  BY <1>1 DEF OnNodes
<1>5. MainSound'
  BY <1>1, <1>2, <1>3 DEF IInv, MainSound, Starting
<1>6. HandlersSound'
  <2>1. ah.found => NodeOf[ah.event.id] \in nodes' \/ ah.event.id \in raced'
    BY <1>4 DEF IInv, HandlersSound
  <2> QED
    BY <1>1, <1>2, <1>3, <2>1 DEF IInv, HandlersSound, Starting
<1>7. PoolsSound'
  <2>1. allocs' \subseteq OnNodes(nodes') \cup raced'
    BY <1>1, <1>4 DEF IInv, PoolsSound, OnNodes
  <2> QED
    BY <1>1, <1>3, <2>1 DEF IInv, PoolsSound, OnNodes, Pooled
<1>8. NodesFollow'
  <2> SUFFICES ASSUME NEW n \in Pooled
               PROVE  /\ WillHave(n)' => OnFrom(n, Given)
                      /\ ~WillHave(n)' => OffFrom(n, Given)
    BY <1>2 DEF NodesFollow, Pooled
  <2>1. WillHave(n)' <=> n \in nodes'
    BY <1>1, EventFacts DEF WillHave, Pooled
  <2>2. WillHave(n) <=> n \in nodes'
    BY <1>1 DEF WillHave
  <2> QED
    BY <1>3, <2>1, <2>2 DEF IInv, NodesFollow
<1>9. AllocsFollow'
  BY <1>1, <1>2, <1>4 DEF IInv, AllocsFollow, MayHave
<1>10. AllocsKept'
  <2> SUFFICES ASSUME NEW a \in Allocs \ raced', Steady(a, Given)
               PROVE  a \in allocs' \/ ah.event.id = a
    BY <1>1, <1>2 DEF AllocsKept
  <2>1. a \in allocs \/ ah.event.id = a
    BY <1>3, <1>4 DEF IInv, AllocsKept, Unread
  <2>2. NodeOf[a] = nh.id => nh.on
    <3>1. NodeOf[a] \in Pooled \ todo
      BY <1>3 DEF Steady
    <3>2. ~OffFrom(NodeOf[a], Given)
      BY GivenType, SteadyNode DEF IInv
    <3>3. WillHave(NodeOf[a])
      BY <3>1, <3>2 DEF IInv, NodesFollow
    <3> QED
      BY <3>3 DEF WillHave
  <2> QED
    BY <1>4, <2>1, <2>2
<1> QED
  BY <1>2, <1>5, <1>6, <1>7, <1>8, <1>9, <1>10 DEF IInv

\* The event of a steady allocation finds its node, unless one of the node is
\* being handled beside it.
LEMMA CheckSound ==
  ASSUME IInv, AllocChecked
  PROVE  IInv'
<1> DEFINE b == ah.event.id
<1>1. /\ UNCHANGED <<log, main, todo, last, pos, nh, nodes, allocs>>
      /\ ah.event # NoEvent /\ ~ah.found
      /\ ah' = IF NodeOf[b] \in nodes THEN [ah EXCEPT !.found = TRUE]
               ELSE [event |-> NoEvent, found |-> FALSE]
      /\ raced' = IF nh.id = NodeOf[b] THEN raced \cup {b} ELSE raced
  BY DEF AllocChecked, Racing, startVars
<1>2. /\ Now' = Now /\ LogSound' /\ Given' = Given
      /\ \A x : /\ OnFrom(x, Given)' <=> OnFrom(x, Given')
                /\ OffFrom(x, Given)' <=> OffFrom(x, Given')
                /\ Steady(x, Given)' <=> Steady(x, Given')
  BY <1>1, LogStays DEF IInv, Given
<1>3. b \in Allocs /\ ~Starting /\ todo = {} /\ main.pc # "allocs"
  BY <1>1 DEF IInv, HandlersSound, MainSound, Starting
<1>4. raced \subseteq raced' /\ raced' \subseteq Allocs
  BY <1>1, <1>3 DEF IInv, PoolsSound
<1>5. MainSound'
  BY <1>1, <1>2 DEF IInv, MainSound
<1>6. HandlersSound'
  <2>1. CASE NodeOf[b] \in nodes
    <3>1. ah' \in [event : Event \cup {NoEvent}, found : BOOLEAN]
          /\ ah'.event = ah.event
      BY <1>1, <2>1 DEF IInv, HandlersSound
    <3> QED
      BY <1>1, <1>2, <1>3, <2>1, <3>1 DEF IInv, HandlersSound, Starting
  <2>2. CASE NodeOf[b] \notin nodes
    BY <1>1, <1>2, <1>3, <2>2 DEF IInv, HandlersSound, Starting
  <2> QED
    BY <2>1, <2>2
<1>7. PoolsSound'
  BY <1>1, <1>4 DEF IInv, PoolsSound, OnNodes, Pooled
<1>8. NodesFollow'
  BY <1>1, <1>2 DEF IInv, NodesFollow, WillHave, Pooled
<1>9. \A a \in Allocs : a # b => ah.event.id # a /\ ah'.event.id # a
  BY <1>1, EventFacts DEF IInv, HandlersSound
<1>10. AllocsFollow'
  <2> SUFFICES ASSUME NEW a \in Allocs \ raced', MayHave(a)'
               PROVE  OnFrom(a, Given)
    BY <1>2 DEF AllocsFollow
  <2>1. MayHave(a)
    <3>1. CASE NodeOf[b] \in nodes
      <4>1. ah'.event = ah.event
        BY <1>1, <3>1 DEF IInv, HandlersSound
      <4> QED
        BY <1>1, <4>1 DEF MayHave
    <3>2. CASE NodeOf[b] \notin nodes
      <4>1. ah'.event.id \notin Allocs
        BY <1>1, <3>2, EventFacts
      <4>2. a \in allocs
        BY <1>1, <4>1 DEF MayHave
      <4>3. a # b
        BY <1>4, <3>2, <4>2 DEF IInv, PoolsSound, OnNodes
      <4> QED
        BY <1>9, <4>2, <4>3 DEF MayHave
    <3> QED
      BY <3>1, <3>2
  <2> QED
    BY <1>4, <2>1 DEF IInv, AllocsFollow
<1>11. AllocsKept'
  <2> SUFFICES ASSUME NEW a \in Allocs \ raced', Steady(a, Given)
               PROVE  a \in allocs \/ ah'.event.id = a
    BY <1>1, <1>2 DEF AllocsKept
  <2>1. a \in allocs \/ ah.event.id = a
    BY <1>3, <1>4 DEF IInv, AllocsKept, Unread
  <2>2. CASE a = b
    <3>1. NodeOf[a] \in Pooled \ todo
      BY <1>3 DEF Steady
    <3>2. ~OffFrom(NodeOf[a], Given)
      BY GivenType, SteadyNode DEF IInv
    <3>3. WillHave(NodeOf[a])
      BY <3>1, <3>2 DEF IInv, NodesFollow
    <3>4. nh.id # NodeOf[b]
      BY <1>1, <2>2
    <3>5. NodeOf[b] \in nodes
      BY <2>2, <3>3, <3>4 DEF WillHave
    <3>6. ah'.event = ah.event
      BY <1>1, <3>5 DEF IInv, HandlersSound
    <3> QED
      BY <2>2, <3>6
  <2>3. CASE a # b
    BY <1>9, <2>1, <2>3
  <2> QED
    BY <2>2, <2>3
<1> QED
  BY <1>2, <1>5, <1>6, <1>7, <1>8, <1>10, <1>11 DEF IInv

\* One that stopped is not entered again: no event of it says that it runs.
LEMMA EnterSound ==
  ASSUME IInv, AllocHandled
  PROVE  IInv'
<1> DEFINE b == ah.event.id
<1>1. /\ UNCHANGED <<log, main, todo, last, pos, nh, nodes, raced>>
      /\ ah.found
      /\ allocs' = IF ah.event.on THEN allocs \cup {b} ELSE allocs \ {b}
      /\ ah' = [event |-> NoEvent, found |-> FALSE]
  BY DEF AllocHandled, startVars
<1>2. /\ Now' = Now /\ LogSound' /\ Given' = Given
      /\ \A x : /\ OnFrom(x, Given)' <=> OnFrom(x, Given')
                /\ OffFrom(x, Given)' <=> OffFrom(x, Given')
                /\ Steady(x, Given)' <=> Steady(x, Given')
  BY <1>1, LogStays DEF IInv, Given
<1>3. /\ b \in Allocs /\ ~Starting /\ todo = {} /\ main.pc # "allocs"
      /\ NodeOf[b] \in nodes \/ b \in raced
      /\ \E k \in 1..Now : log[k] = ah.event
      /\ ah'.event.id \notin Allocs
  BY <1>1, EventFacts DEF IInv, HandlersSound, MainSound, Starting
<1>4. MainSound'
  BY <1>1, <1>2, <1>3 DEF IInv, MainSound, Starting
<1>5. HandlersSound'
  BY <1>1, <1>2, <1>3 DEF IInv, HandlersSound, Starting
<1>6. PoolsSound'
  BY <1>1, <1>3 DEF IInv, PoolsSound, OnNodes, Pooled
<1>7. NodesFollow'
  BY <1>1, <1>2 DEF IInv, NodesFollow, WillHave, Pooled
<1>8. AllocsFollow'
  <2> SUFFICES ASSUME NEW a \in Allocs \ raced, a \in allocs'
               PROVE  OnFrom(a, Given)
    BY <1>1, <1>2, <1>3 DEF AllocsFollow, MayHave
  <2>1. MayHave(a)
    BY <1>1 DEF MayHave
  <2> QED
    BY <2>1 DEF IInv, AllocsFollow
<1>9. AllocsKept'
  <2> SUFFICES ASSUME NEW a \in Allocs \ raced, Steady(a, Given)
               PROVE  a \in allocs'
    BY <1>1, <1>2 DEF AllocsKept
  <2>1. a \in allocs \/ b = a
    BY <1>3 DEF IInv, AllocsKept, Unread
  <2>2. b = a => ah.event.on
    BY <1>3, NeverStopped DEF IInv, Steady
  <2> QED
    BY <1>1, <2>1, <2>2
<1> QED
  BY <1>2, <1>4, <1>5, <1>6, <1>7, <1>8, <1>9 DEF IInv

\* The scaler begins.
Blank == /\ LogSound
         /\ main = [pc |-> "list", event |-> NoEvent]
         /\ todo = {} /\ last = 0 /\ pos = 1
         /\ nh = NoEvent /\ ah = [event |-> NoEvent, found |-> FALSE]
         /\ nodes = {} /\ allocs = {} /\ raced = {}

\* Then nothing is known, and nothing was handed over.
LEMMA BlankSound == Blank => IInv
<1> SUFFICES ASSUME Blank
             PROVE  IInv
  OBVIOUS
<1> USE DEF Blank
<1>1. Now \in Nat /\ Given = 0 /\ NoEvent \in MainEvents
  BY DEF LogSound, Now, Given, MainEvents
<1>2. MainSound /\ HandlersSound /\ PoolsSound
  BY <1>1 DEF MainSound, HandlersSound, PoolsSound
<1>3. NodesFollow
  <2> SUFFICES ASSUME NEW n \in Nodes
               PROVE  ~WillHave(n) /\ OffFrom(n, 0)
    BY <1>1 DEF NodesFollow, Pooled
  <2>1. ~WillHave(n)
    BY EventFacts DEF WillHave
  <2>2. ~On(n, 0)
    BY DEF On
  <2> QED
    BY <1>1, <2>1, <2>2 DEF OffFrom
<1>4. AllocsFollow
  BY EventFacts DEF AllocsFollow, MayHave
<1>5. AllocsKept
  BY <1>1 DEF AllocsKept, Steady
<1> QED
  BY <1>2, <1>3, <1>4, <1>5 DEF IInv

LEMMA InitSound == Init => IInv
<1>1. Init => LogSound
  <2> SUFFICES ASSUME Init
               PROVE  LogSound
    OBVIOUS
  <2>1. log = <<>> /\ Now = 0
    BY DEF Init, Now
  <2> QED
    BY <2>1 DEF LogSound
<1> QED
  BY <1>1, BlankSound DEF Init, Blank

\* A crash gets there again.
LEMMA CrashSound == IInv /\ Crash => IInv'
<1>1. IInv /\ Crash => Blank'
  BY LogStays DEF Crash, IInv, Blank
<1> QED
  BY <1>1, BlankSound, PTL

\* The invariant is inductive.
THEOREM InductiveInvariant == Spec => []IInv
<1>1. IInv /\ UNCHANGED vars => IInv'
  <2> SUFFICES ASSUME IInv, UNCHANGED vars
               PROVE  IInv'
    OBVIOUS
  <2>1. UNCHANGED <<log, main, todo, last, pos, nh, ah, nodes, allocs, raced>>
    BY DEF vars, startVars, poolVars
  <2>2. /\ Now' = Now /\ LogSound' /\ Given' = Given
        /\ \A x : /\ OnFrom(x, Given)' <=> OnFrom(x, Given')
                  /\ OffFrom(x, Given)' <=> OffFrom(x, Given')
                  /\ Steady(x, Given)' <=> Steady(x, Given')
    BY <2>1, LogStays DEF IInv, Given
  <2>3. MainSound' /\ HandlersSound' /\ PoolsSound'
    BY <2>1, <2>2 DEF IInv, MainSound, HandlersSound, PoolsSound, Starting
  <2>4. NodesFollow' /\ AllocsFollow'
    BY <2>1, <2>2 DEF IInv, NodesFollow, AllocsFollow, WillHave, MayHave, Pooled
  <2>5. AllocsKept'
    BY <2>1, <2>2 DEF IInv, AllocsKept, Unread
  <2> QED
    BY <2>2, <2>3, <2>4, <2>5 DEF IInv
<1>2. IInv /\ Next => IInv'
  BY NomadSound, ListSound, InfoSound, StartAllocsSound, LoopSound, SendSound,
     NodeSound, CheckSound, EnterSound, CrashSound
     DEF Next, CreatePools, Handlers
<1> QED
  BY <1>1, <1>2, InitSound, PTL DEF Spec

\* What TypeOK says beyond the invariant.
Bounded == /\ Now <= MaxEvents /\ pos \in 1..(Now + 1)
           /\ evals \in BOOLEAN /\ crashes \in 0..MaxCrashes

LEMMA BoundedSound ==
  ASSUME IInv, IInv', Bounded, [Next]_vars
  PROVE  Bounded'
<1>1. /\ Now \in Nat /\ last \in 0..Now /\ log \in Seq(Event)
      /\ Now' \in Nat
  BY GivenType DEF IInv, LogSound, Now
<1>2. CASE Nomad
  <2>1. PICK topic, x, on : Happens(topic, x, on)
    BY <1>2 DEF Nomad, NodeChanges, Place, Stop, Evaluate
  <2>2. Now < MaxEvents /\ UNCHANGED <<pos, evals, crashes>>
    BY <2>1 DEF Happens
  <2>3. Now' = Now + 1
    BY <1>1, <2>1 DEF Happens, Now
  <2> QED
    BY <1>1, <2>2, <2>3, BoundAssumption DEF Bounded
<1>3. CASE Crash
  <2>1. evals' \in BOOLEAN
    BY <1>3, Zenon DEF Crash
  <2>2. /\ crashes < MaxCrashes /\ crashes' = crashes + 1 /\ pos' = 1
        /\ Now' = Now
    BY <1>3 DEF Crash, Now
  <2> QED
    BY <1>1, <2>1, <2>2, BoundAssumption DEF Bounded
<1>4. CASE Read \/ Connect
  BY <1>1, <1>4 DEF Read, Connect, Resume, Bounded, Now
<1>5. CASE UNCHANGED vars \/ CreatePools \/ Break \/ Send \/ Handlers
  <2>1. UNCHANGED <<log, pos, crashes>> /\ evals' \in BOOLEAN
    BY <1>5 DEF vars, CreatePools, StartList, StartNode, StartAllocs,
                StartEvals, Break, Send, Handlers, NodeHandled, AllocChecked,
                AllocHandled, EvalHandled, Bounded
  <2> QED
    BY <2>1 DEF Bounded, Now
<1> QED
  BY <1>2, <1>3, <1>4, <1>5 DEF Next

\* Every variable keeps its type; the main loop hands over no event but one
\* of the log, and the index it continues from is never beyond the end of
\* the log (main.go 164-236).
THEOREM TypeCorrect == Spec => []TypeOK
<1>1. Init => Bounded
  <2> SUFFICES ASSUME Init
               PROVE  Bounded
    OBVIOUS
  <2>1. evals \in BOOLEAN
    BY Zenon DEF Init
  <2>2. Now = 0 /\ pos = 1 /\ crashes = 0
    BY DEF Init, Now
  <2> QED
    BY <2>1, <2>2, BoundAssumption DEF Bounded
<1>2. IInv /\ IInv' /\ Bounded /\ [Next]_vars => Bounded'
  BY BoundedSound
<1>3. IInv /\ Bounded => TypeOK
  <2> SUFFICES ASSUME IInv, Bounded
               PROVE  TypeOK
    OBVIOUS
  <2>1. /\ main.pc = "send" => main.event \in Event
        /\ nodes \subseteq Nodes /\ allocs \subseteq Allocs
    <3>1. main.pc = "send" => last \in 1..Now
      BY DEF IInv, MainSound
    <3> QED
      BY <3>1, LogEntry
         DEF IInv, MainSound, PoolsSound, Pooled, OnNodes
  <2> QED
    BY <2>1
       DEF TypeOK, Bounded, IInv, LogSound, MainSound, HandlersSound, PoolsSound
<1> QED
  BY <1>1, <1>2, <1>3, InductiveInvariant, PTL DEF Spec

\* Whenever the scaler has caught up with Nomad, its pools have exactly the
\* nodes that are up, and their allocations but for the two that the handlers
\* may lose, whatever Nomad did and however often the stream broke or the
\* scaler was started again (main.go 164-236, pool.go 119-272, 456-519).
THEOREM Convergence == Spec => []Converged
<1>1. ASSUME IInv, Drained
      PROVE  /\ nodes = UpAt(Now) \cap Pooled
             /\ allocs \ RunningAt(Now) \subseteq raced
             /\ \A a \in RunningAt(Now) \cap OnNodes(nodes) :
                  a \in allocs \cup raced \/ Flapped(a)
  <2>1. /\ LogSound /\ Given = Now /\ todo = {} /\ main.pc # "allocs"
        /\ Now \in Nat /\ nh.id = None /\ ah.event.id = None
        /\ nodes \subseteq Pooled
    BY <1>1, GivenType, EventFacts
       DEF Drained, Given, IInv, MainSound, PoolsSound
  <2>2. \A x \in Nodes \cup Allocs : x # None
    BY ClusterAssumption
  <2>3. ASSUME NEW n \in Pooled
        PROVE  n \in nodes <=> n \in UpAt(Now)
    <3>1. WillHave(n) <=> n \in nodes
      BY <2>1, <2>2 DEF WillHave, Pooled
    <3>2. /\ OnFrom(n, Now) => On(n, Now)
          /\ OffFrom(n, Now) => ~On(n, Now)
      BY <2>1, AtEnd
    <3> QED
      BY <1>1, <2>1, <3>1, <3>2 DEF IInv, NodesFollow, UpAt, Pooled
  <2>4. ASSUME NEW a \in allocs \ raced
        PROVE  a \in RunningAt(Now)
    <3>1. a \in Allocs
      BY <1>1 DEF IInv, PoolsSound, OnNodes
    <3>2. MayHave(a)
      BY <2>1, <2>2, <3>1 DEF MayHave
    <3>3. OnFrom(a, Now)
      BY <1>1, <2>1, <3>1, <3>2 DEF IInv, AllocsFollow
    <3> QED
      BY <2>1, <3>1, <3>3, AtEnd DEF RunningAt
  <2>5. ASSUME NEW a \in RunningAt(Now) \cap OnNodes(nodes), ~Flapped(a)
        PROVE  a \in allocs \cup raced
    <3>1. a \in Allocs /\ On(a, Now) /\ NodeOf[a] \in Pooled
      BY <2>1 DEF RunningAt, OnNodes
    <3>2. \E j \in 1..Now : log[j].id = a /\ log[j].on
      BY <3>1 DEF On
    <3>3. Steady(a, Given)
      BY <2>1, <2>5, <3>1, <3>2 DEF Steady
    <3> QED
      BY <1>1, <2>1, <2>2, <3>1, <3>3 DEF IInv, AllocsKept, Unread
  <2>6. nodes = UpAt(Now) \cap Pooled
    BY <2>1, <2>3
  <2> QED
    BY <2>4, <2>5, <2>6
<1>2. IInv => Converged
  BY <1>1 DEF Converged
<1> QED
  BY <1>2, InductiveInvariant, PTL
=============================================================================
