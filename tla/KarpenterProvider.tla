-------------------------- MODULE KarpenterProvider --------------------------
(***************************************************************************)
(* The Karpenter node provider of one pool (nodeprovider/karpenter.go)     *)
(* with the parts of pool.go that call it:                                 *)
(*                                                                         *)
(*   - tryNomadNode asks IsNodeExists whether an instance is the pool's;   *)
(*     for a node that registered after the last listing, the plugin is    *)
(*     asked for a new one, with no lock held;                             *)
(*   - Update and WarmUp call UpdateNode with p.lock of the pool held: it  *)
(*     removes what the pool no longer has and lets a goroutine of its own *)
(*     add what is missing;                                                *)
(*   - RemoveNode of the pool removes nodes for the collector, never       *)
(*     beside an UpdateNode (updrmvlock).                                  *)
(*                                                                         *)
(* p.state is two sets, its keys (known) and those with the value true     *)
(* (seen); p.incephemeral is the goroutines that still have an entry.      *)
(* A registration is later than p.lastUpdatetime when it is in fresh.      *)
(* Instances die, nodes go down and come back whenever they like.  The     *)
(* plugin is external; _removeNode's batches of 20 are one batch.          *)
(***************************************************************************)
EXTENDS Integers, FiniteSets

CONSTANTS
  Instances,  \* the instances the cloud may ever run for the pool
  Started,    \* those that may exist when the scaler starts
  Adders,     \* goroutines that may add instances at the same time
  MaxGrow,    \* nodes an UpdateNode asks for beyond those in the pool
  None

ASSUME InstanceAssumption == /\ IsFiniteSet(Instances)
                             /\ Started \subseteq Instances
                             /\ None \notin Instances
ASSUME AdderAssumption == IsFiniteSet(Adders) /\ MaxGrow \in Nat

VARIABLES
  status,   \* status[i]: "none" yet, "live" or "gone" in the cloud
  reg,      \* instances whose Nomad client registered a node
  missed,   \* those of them that registered while the provider was created,
            \* after its first listing and before its time stamp
  fresh,    \* last registration is later than p.lastUpdatetime
  known,    \* keys of p.state
  seen,     \* those with p.state[i] = true
  nodes,    \* instances of p.nomadNodes of the pool
  h,        \* processNodes: the event in tryNomadNode and how far it is
  upd,      \* the UpdateNode that runs; p.lock is held while there is one
  rem,      \* the RemoveNode that runs
  adder     \* adder[a]: goroutine of UpdateNode and its entry

cloud == <<status, reg, missed>>
state == <<known, seen, fresh>>
vars == <<cloud, state, nodes, h, upd, rem, adder>>

Live == {i \in Instances : status[i] = "live"}

IdleHandler == [pc |-> "idle", inst |-> None, up |-> FALSE,
                late |-> {}, listed |-> {}]
IdleUpdate == [pc |-> "idle", total |-> 0, count |-> 0, targets |-> {}]
IdleRemove == [pc |-> "idle", targets |-> {}]
NoAdder == [pc |-> "off", inc |-> 0, left |-> 0, got |-> 0, ctx |-> FALSE]

\* NewK8sKapenterProvider lists what there is, unseen.  The time stamp is
\* taken after the listing.
Init ==
  /\ missed \in SUBSET Started
  /\ known \in SUBSET (Started \ missed)
  /\ \E booted \in SUBSET known : reg = missed \cup booted
  /\ status = [i \in Instances |-> IF i \in known \cup missed
                                   THEN "live" ELSE "none"]
  /\ seen = {} /\ fresh = {} /\ nodes = {}
  /\ h = IdleHandler /\ upd = IdleUpdate /\ rem = IdleRemove
  /\ adder = [a \in Adders |-> NoAdder]

\* p.lock of the pool is free.
PoolLock == upd.pc = "idle"

-----------------------------------------------------------------------------
(* The cloud *)

\* A client registers.  Its time stamp is later than that of a listing which
\* is already on its way.
Register(i) ==
  /\ i \in Live \ reg
  /\ reg' = reg \cup {i}
  /\ fresh' = fresh \cup {i}
  /\ h' = [h EXCEPT !.late = IF h.pc \in {"list", "install"}
                             THEN @ \cup {i} ELSE @]
  /\ UNCHANGED <<status, missed, known, seen, nodes, upd, rem, adder>>

Die(i) ==
  /\ i \in Live
  /\ status' = [status EXCEPT ![i] = "gone"]
  /\ UNCHANGED <<reg, missed, state, nodes, h, upd, rem, adder>>

\* The plugin starts one of the instances it was asked for.
Launch(a, i) ==
  /\ adder[a].pc = "add"
  /\ adder[a].got < adder[a].left
  /\ status[i] = "none"
  /\ status' = [status EXCEPT ![i] = "live"]
  /\ adder' = [adder EXCEPT ![a].got = @ + 1]
  /\ UNCHANGED <<reg, missed, state, nodes, h, upd, rem>>

-----------------------------------------------------------------------------
(* tryNomadNode, IsNodeExists *)

\* A node event.  A node of the pool is updated or leaves; for any other the
\* provider is asked, up or down.
NodeEvent(i, up) ==
  /\ h.pc = "idle"
  /\ PoolLock
  /\ i \in reg
  /\ up => i \in Live
  /\ nodes' = IF up THEN nodes ELSE nodes \ {i}
  /\ h' = IF i \in nodes THEN h
          ELSE [IdleHandler EXCEPT !.pc = "ask", !.inst = i, !.up = up]
  /\ UNCHANGED <<cloud, state, upd, rem, adder>>

\* What is left of tryNomadNode once IsNodeExists answered.
Answer(found) == IF found /\ h.up THEN [h EXCEPT !.pc = "add", !.late = {},
                                                 !.listed = {}]
                                  ELSE IdleHandler

\* The node is not newer than the listing the provider has.
AskState ==
  /\ h.pc = "ask"
  /\ h.inst \notin fresh
  /\ seen' = seen \cup ({h.inst} \cap known)
  /\ h' = Answer(h.inst \in known)
  /\ UNCHANGED <<cloud, known, fresh, nodes, upd, rem, adder>>

\* It is newer: the lock is released, the time taken, the plugin called.
AskPlugin ==
  /\ h.pc = "ask"
  /\ h.inst \in fresh
  /\ h' = [h EXCEPT !.pc = "list"]
  /\ UNCHANGED <<cloud, state, nodes, upd, rem, adder>>

\* The plugin answers; an error is retried.
ListAnswer ==
  /\ h.pc = "list"
  /\ h' = [h EXCEPT !.pc = "install", !.listed = Live]
  /\ UNCHANGED <<cloud, state, nodes, upd, rem, adder>>

\* Mutant: a listing forgets what the pool has seen.
NothingKept == {}

\* Flags the new state takes over from the old one.
KeptFlags == seen \cap h.listed

\* Mutant: the time stamp is taken when the listing has arrived.
StampedLate == {}

\* Registrations later than the new time stamp, taken before the listing.
StillFresh == h.late

\* The listing replaces the state, however old it is by now, and the instance
\* is looked up in it.
Install ==
  /\ h.pc = "install"
  /\ known' = h.listed
  /\ seen' = KeptFlags \cup ({h.inst} \cap h.listed)
  /\ fresh' = StillFresh
  /\ h' = Answer(h.inst \in h.listed)
  /\ UNCHANGED <<cloud, nodes, upd, rem, adder>>

\* Back in tryNomadNode: the node is entered under p.lock.
AddNode ==
  /\ h.pc = "add"
  /\ PoolLock
  /\ nodes' = nodes \cup {h.inst}
  /\ h' = IdleHandler
  /\ UNCHANGED <<cloud, state, upd, rem, adder>>

-----------------------------------------------------------------------------
(* UpdateNode *)

\* Mutant: instances that were never seen are taken for dead ones.
AllKnown == known

\* Instances UpdateNode removes unless the pool has them.
Candidates == seen

\* Update or WarmUp ask for k nodes more than the pool has.  The state is read
\* under the provider's lock.  There is a goroutine left to start (bound).
UpdateScan(k) ==
  /\ upd.pc = "idle" /\ rem.pc = "idle"
  /\ \E a \in Adders : adder[a].pc = "off"
  /\ LET targets == Candidates \ nodes
     IN upd' = [pc |-> IF targets = {} THEN "grow" ELSE "forget",
                total |-> Cardinality(nodes) + k,
                count |-> Cardinality(known),
                targets |-> targets]
  /\ UNCHANGED <<cloud, state, nodes, h, rem, adder>>

\* _removeNode deletes the instances from the state ...
UpdateForget ==
  /\ upd.pc = "forget"
  /\ known' = known \ upd.targets
  /\ seen' = seen \ upd.targets
  /\ upd' = [upd EXCEPT !.pc = "remove"]
  /\ UNCHANGED <<cloud, fresh, nodes, h, rem, adder>>

Removed(S) == [i \in Instances |-> IF i \in S THEN "gone" ELSE status[i]]

\* ... and calls the plugin until it succeeds.
UpdateRemove ==
  /\ upd.pc = "remove"
  /\ status' = Removed(upd.targets)
  /\ upd' = [upd EXCEPT !.pc = "grow",
                        !.count = @ - Cardinality(upd.targets)]
  /\ UNCHANGED <<reg, missed, state, nodes, h, rem, adder>>

\* The sum of p.incephemeral, as the number of instances asked for.
Pending == Cardinality(UNION {{a} \X (1..adder[a].inc) : a \in Adders})

\* inccount
Increment == upd.total - upd.count - Pending

\* Mutant: the increment is not compared with zero.
AnyIncrement == Increment # 0

Grows == Increment > 0

\* A goroutine is started for what is missing ...
UpdateGrow(a) ==
  /\ upd.pc = "grow"
  /\ Grows
  /\ adder[a].pc = "off"
  /\ adder' = [adder EXCEPT ![a] = [pc |-> "add", inc |-> Increment,
                 left |-> Increment, got |-> 0, ctx |-> FALSE]]
  /\ upd' = IdleUpdate
  /\ UNCHANGED <<cloud, state, nodes, h, rem>>

\* ... or there is nothing missing, or ("that too bad") less than nothing.
UpdateEnough ==
  /\ upd.pc = "grow"
  /\ ~Grows
  /\ upd' = IdleUpdate
  /\ UNCHANGED <<cloud, state, nodes, h, rem, adder>>

\* The context of the Update ends (that of a WarmUp never does).
CtxEnds(a) ==
  /\ adder[a].pc = "add"
  /\ adder' = [adder EXCEPT ![a].ctx = TRUE]
  /\ UNCHANGED <<cloud, state, nodes, h, upd, rem>>

\* The goroutine leaves its loop.
Finished(a) == adder[a].got = adder[a].left \/ adder[a].ctx

\* AddInstances returns, with all, some or none; the rest is asked for again.
AddReturns(a) ==
  /\ adder[a].pc = "add"
  /\ adder' = [adder EXCEPT ![a].pc = IF Finished(a) THEN "delete" ELSE "add",
                            ![a].left = @ - adder[a].got, ![a].got = 0]
  /\ UNCHANGED <<cloud, state, nodes, h, upd, rem>>

AddDelete(a) ==
  /\ adder[a].pc = "delete"
  /\ adder' = [adder EXCEPT ![a] = NoAdder]
  /\ UNCHANGED <<cloud, state, nodes, h, upd, rem>>

-----------------------------------------------------------------------------
(* RemoveNode of the pool and of the provider *)

\* The collector's nodes are looked up in the pool and forgotten ...
RemoveForget(S) ==
  /\ rem.pc = "idle" /\ upd.pc = "idle"
  /\ S # {}
  /\ known' = known \ S
  /\ seen' = seen \ S
  /\ rem' = [pc |-> "remove", targets |-> S]
  /\ UNCHANGED <<cloud, fresh, nodes, h, upd, adder>>

\* ... and the plugin is called until it succeeds.
RemoveReturn ==
  /\ rem.pc = "remove"
  /\ status' = Removed(rem.targets)
  /\ rem' = IdleRemove
  /\ UNCHANGED <<reg, missed, state, nodes, h, upd, adder>>

-----------------------------------------------------------------------------
IsNodeExists == AskState \/ AskPlugin \/ ListAnswer \/ Install

UpdateNode == \/ UpdateForget \/ UpdateRemove \/ UpdateEnough
              \/ \E a \in Adders : UpdateGrow(a)

Next ==
  \/ \E i \in Instances : Register(i) \/ Die(i)
  \/ \E i \in Instances, up \in BOOLEAN : NodeEvent(i, up)
  \/ IsNodeExists \/ AddNode
  \/ \E k \in 0..MaxGrow : UpdateScan(k)
  \/ UpdateNode
  \/ \E a \in Adders : \/ \E i \in Instances : Launch(a, i)
                       \/ CtxEnds(a) \/ AddReturns(a) \/ AddDelete(a)
  \/ \E S \in SUBSET nodes : RemoveForget(S)
  \/ RemoveReturn

Spec == Init /\ [][Next]_vars

-----------------------------------------------------------------------------
Goroutine == [pc : {"off", "add", "delete"}, inc : Nat, left : Nat, got : Nat,
              ctx : BOOLEAN]

\* Types of everything but the goroutines.
SetTypes ==
  /\ status \in [Instances -> {"none", "live", "gone"}]
  /\ missed \subseteq reg /\ reg \subseteq Instances
  /\ fresh \subseteq reg
  /\ seen \subseteq known /\ known \subseteq Instances
  /\ nodes \subseteq reg
  /\ h \in [pc : {"idle", "ask", "list", "install", "add"},
            inst : Instances \cup {None}, up : BOOLEAN,
            late : SUBSET Instances, listed : SUBSET Instances]
  /\ upd \in [pc : {"idle", "forget", "remove", "grow"}, total : Nat,
              count : Int, targets : SUBSET Instances]
  /\ rem \in [pc : {"idle", "remove"}, targets : SUBSET Instances]

TypeOK == SetTypes /\ adder \in [Adders -> Goroutine]

\* Instances somebody is removing right now.
Doomed == (IF upd.pc \in {"forget", "remove"} THEN upd.targets ELSE {})
            \cup rem.targets

\* Every live instance whose node the pool has is in the state, as seen,
\* unless it is being removed: no listing, however late it is installed,
\* drops or unmarks it, so that UpdateNode counts it and finds it again once
\* the pool loses it (karpenter.go 173-185, 243-251).
PoolNodesSeen == (nodes \cap Live) \ Doomed \subseteq seen

Caller == IF upd.pc # "idle" THEN "update"
          ELSE IF rem.pc # "idle" THEN "remove" ELSE "nobody"

Contract == INSTANCE NodeProvider WITH
  joined <- reg, caller <- Caller, condemned <- Doomed

\* The provider stops only strangers of the pool that have registered (an
\* instance that still starts is none) or nodes the collector gave it, and the
\* pool does not change while strangers are removed, as the contract has it
\* (karpenter.go 91, 174-185, 236-256, pool.go 281-330, 431-446).
ImplementsProvider == Contract!Spec

\* A live node is turned away only if it registered while the provider was
\* created (karpenter.go 111, 145) or if it is being removed: a state that is
\* not older than the registration has the instance (karpenter.go 157-183).
NoLiveNodeRejected ==
  h.pc \in {"ask", "install"} /\ h.up /\ h'.pc = "idle"
    => h.inst \in missed \cup Doomed \/ h.inst \notin Live

RejectsNoLiveNode == [][NoLiveNodeRejected]_vars
=============================================================================
