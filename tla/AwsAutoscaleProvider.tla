------------------------- MODULE AwsAutoscaleProvider -------------------------
(***************************************************************************)
(* The AWS provider of one pool (nodeprovider/awsautoscalegroupv2.go) with *)
(* the parts of pool.go that call it, the auto scaling group and the       *)
(* instances in it.                                                        *)
(*                                                                         *)
(* The group starts instances while it has fewer than desired, and stops   *)
(* some while it has more.  Update and WarmUp of the pool call UpdateNode  *)
(* with p.lock held: it removes what the pool no longer has, then sets     *)
(* desired.  RemoveNode removes nodes for the collector, never beside an   *)
(* UpdateNode (updrmvlock).  A removal detaches a batch of instances from  *)
(* the group, lists the group until they have left it, installs that       *)
(* listing and terminates the batch.  Beside all of it tryNomadNode asks   *)
(* IsNodeExists, which installs listings of its own.                       *)
(*                                                                         *)
(* c.state is two sets, its keys (known) and those with the value true     *)
(* (seen).  A registration is later than c.lastUpdatetime when it is in    *)
(* fresh.  The group's minimum size is zero.                               *)
(***************************************************************************)
EXTENDS Integers, FiniteSets, FiniteSetsExt

CONSTANTS
  Instances,  \* the instances the group may ever run
  Started,    \* those that may exist when the scaler starts
  Restarts,   \* those whose client may register again (bound)
  Batch,      \* instances a DetachInstances call takes, 20 in the code
  MaxSize,    \* the group's maximum size
  MaxGrow,    \* nodes an UpdateNode asks for beyond those in the pool
  None

ASSUME InstanceAssumption == /\ IsFiniteSet(Instances)
                             /\ Started \subseteq Instances
                             /\ Restarts \subseteq Instances
                             /\ None \notin Instances
ASSUME SizeAssumption == /\ Batch \in Nat \ {0}
                         /\ MaxSize \in Nat /\ MaxGrow \in Nat

VARIABLES
  status,   \* "none" yet, in the "group", "sick" there, "leaving" it while
            \* it is detached, "out" of it and running, "gone"
  desired,  \* DesiredCapacity of the group
  reg,      \* instances whose Nomad client registered a node
  missed,   \* those of them that registered while the provider was created,
            \* after its first listing and before its time stamp
  fresh,    \* last registration is later than c.lastUpdatetime
  known,    \* keys of c.state
  seen,     \* those with c.state[i] = true
  nodes,    \* instances of p.nomadNodes of the pool
  h,        \* processNodes: the event in tryNomadNode and how far it is
  op,       \* the UpdateNode or RemoveNode that runs
  lost      \* instances detached by a call whose answer was lost

cloud == <<status, desired, reg, missed, lost>>
state == <<known, seen, fresh>>
vars == <<cloud, state, nodes, h, op>>

Is(S) == {i \in Instances : status[i] \in S}

Members == Is({"group", "sick"})
Running == Is({"group", "sick", "leaving", "out"})

\* What updateStateFromAws puts into the map: the instances of the group,
\* those that are being detached too, but no unhealthy ones.
Listing == Is({"group", "leaving"})

Becomes(S, s) == [i \in Instances |-> IF i \in S THEN s ELSE status[i]]

IdleHandler == [pc |-> "idle", inst |-> None, up |-> FALSE,
                late |-> {}, listed |-> {}]
IdleOp == [pc |-> "idle", by |-> "nobody", total |-> 0, ids |-> {},
           todo |-> {}, batch |-> {}, late |-> {}, listed |-> {}]

\* NewAwsAutoscaleGroupProvider lists what there is, unseen.  The time stamp
\* is taken after the listing.
Init ==
  /\ missed \in SUBSET Started
  /\ known \in SUBSET (Started \ missed)
  /\ \E booted \in SUBSET known : reg = missed \cup booted
  /\ status = [i \in Instances |-> IF i \in known \cup missed
                                   THEN "group" ELSE "none"]
  /\ desired = Cardinality(Members)
  /\ seen = {} /\ fresh = {} /\ nodes = {} /\ lost = {}
  /\ h = IdleHandler /\ op = IdleOp

\* Mutant: the pool's nodes change under an UpdateNode.
NoPoolLock == TRUE

\* p.lock of the pool is free.
PoolLock == op.by \notin {"update", "warmup"}

-----------------------------------------------------------------------------
(* The group and its instances *)

Launch(i) ==
  /\ status[i] = "none"
  /\ Cardinality(Members) < desired
  /\ status' = Becomes({i}, "group")
  /\ UNCHANGED <<desired, reg, missed, lost, state, nodes, h, op>>

ScaleIn(i) ==
  /\ i \in Members
  /\ Cardinality(Members) > desired
  /\ status' = Becomes({i}, "gone")
  /\ UNCHANGED <<desired, reg, missed, lost, state, nodes, h, op>>

\* An instance fails the group's health check ...
Sicken(i) ==
  /\ status[i] = "group"
  /\ status' = Becomes({i}, "sick")
  /\ UNCHANGED <<desired, reg, missed, lost, state, nodes, h, op>>

\* ... which stops it then.  Others stop by themselves.
Die(i) ==
  /\ i \in Running
  /\ status' = Becomes({i}, "gone")
  /\ UNCHANGED <<desired, reg, missed, lost, state, nodes, h, op>>

\* The group is done with detaching an instance.
Detached(i) ==
  /\ status[i] = "leaving"
  /\ status' = Becomes({i}, "out")
  /\ UNCHANGED <<desired, reg, missed, lost, state, nodes, h, op>>

\* A client registers, for the first time or again.  Its time stamp is later
\* than those of the listings that are on their way.
Register(i) ==
  /\ i \in Running \ (reg \ Restarts)
  /\ reg' = reg \cup {i}
  /\ fresh' = fresh \cup {i}
  /\ h' = [h EXCEPT !.late = IF h.pc \in {"list", "install"}
                             THEN @ \cup {i} ELSE @]
  /\ op' = [op EXCEPT !.late = IF op.pc \in {"list", "install"}
                               THEN @ \cup {i} ELSE @]
  /\ UNCHANGED <<status, desired, missed, lost, known, seen, nodes>>

-----------------------------------------------------------------------------
(* tryNomadNode, IsNodeExists *)

\* A node event.  A node of the pool is updated or leaves; for any other the
\* provider is asked, up or down.
NodeEvent(i, up) ==
  /\ h.pc = "idle"
  /\ PoolLock
  /\ i \in reg
  /\ up => i \in Running
  /\ nodes' = IF up THEN nodes ELSE nodes \ {i}
  /\ h' = IF i \in nodes THEN h
          ELSE [IdleHandler EXCEPT !.pc = "ask", !.inst = i, !.up = up]
  /\ UNCHANGED <<cloud, state, op>>

\* What is left of tryNomadNode once IsNodeExists answered.
Answer(found) == IF found /\ h.up THEN [h EXCEPT !.pc = "add", !.late = {},
                                                 !.listed = {}]
                                  ELSE IdleHandler

\* The node is not newer than the listing the provider has.
AskState ==
  /\ h.pc = "ask"
  /\ h.inst \notin fresh
  /\ seen' = seen \cup ({h.inst} \cap known)
  /\ h' = Answer(h.inst \in known)
  /\ UNCHANGED <<cloud, known, fresh, nodes, op>>

\* It is newer: the lock is released, the time taken, the group listed.
AskGroup ==
  /\ h.pc = "ask"
  /\ h.inst \in fresh
  /\ h' = [h EXCEPT !.pc = "list"]
  /\ UNCHANGED <<cloud, state, nodes, op>>

\* The group's instances arrive, in one page; an error is retried.
ListAnswer ==
  /\ h.pc = "list"
  /\ h' = [h EXCEPT !.pc = "install",
                    !.listed = Listing]
  /\ UNCHANGED <<cloud, state, nodes, op>>

\* Mutant: every flag of the old state is copied.
EveryFlag(listed) == seen

\* Flags a new state takes over from the old one.
KeptFlags(listed) == seen \cap listed

\* Mutant: the time stamp is taken when the listing has arrived.
StampedLate(late) == {}

\* Registrations later than the new time stamp, taken before the listing.
StillFresh(late) == late

\* The listing replaces the state, however old it is by now, and the instance
\* is looked up in it.
Install ==
  /\ h.pc = "install"
  /\ known' = h.listed
  /\ seen' = KeptFlags(h.listed) \cup ({h.inst} \cap h.listed)
  /\ fresh' = StillFresh(h.late)
  /\ h' = Answer(h.inst \in h.listed)
  /\ UNCHANGED <<cloud, nodes, op>>

\* Back in tryNomadNode: the node is entered under p.lock.
AddNode ==
  /\ h.pc = "add"
  /\ PoolLock
  /\ nodes' = nodes \cup {h.inst}
  /\ h' = IdleHandler
  /\ UNCHANGED <<cloud, state, op>>

-----------------------------------------------------------------------------
(* _removeNode *)

\* The next batch of the instances in rest, in any order.
Batches(rest) == {B \in SUBSET rest :
  Cardinality(B) = IF Cardinality(rest) < Batch THEN Cardinality(rest)
                                                ELSE Batch}

\* RemoveNode returns; UpdateNode goes on to set the size.
Ended(o) == IF o.by = "remove" THEN IdleOp
            ELSE [IdleOp EXCEPT !.pc = "resize", !.by = o.by,
                                !.total = o.total]

\* The loop over the batches of call o.
Continue(o, rest) ==
  \/ rest = {} /\ op' = Ended(o)
  \/ /\ rest # {}
     /\ \E B \in Batches(rest) :
          op' = [o EXCEPT !.pc = "detach", !.batch = B, !.todo = rest \ B,
                          !.late = {}, !.listed = {}]

\* DetachInstances: all of the batch, and desired is decremented.  If the
\* answer gets lost, the call is repeated.
Detach(answered) ==
  /\ op.pc = "detach"
  /\ op.batch \subseteq Members
  /\ desired >= Cardinality(op.batch)
  /\ status' = Becomes(op.batch, "leaving")
  /\ desired' = desired - Cardinality(op.batch)
  /\ lost' = IF answered THEN lost ELSE lost \cup op.batch
  /\ op' = IF answered THEN [op EXCEPT !.pc = "wait"] ELSE op
  /\ UNCHANGED <<reg, missed, state, nodes, h>>

\* Instances that are not part of the group any more.
Strangers == Is({"none", "out", "gone"})

\* Mutant: the same batch is tried again.
WholeBatch == op.batch

\* What is left of the batch once extractInstanceIDs has found them.
RestOfBatch == op.batch \ Strangers

\* A ValidationError names them.  With nothing left, the next batch follows
\* at once; otherwise DetachInstances is tried again.
Refused ==
  /\ op.pc = "detach"
  /\ op.batch \cap Strangers # {}
  /\ IF RestOfBatch = {} THEN Continue(op, op.todo)
     ELSE op' = [op EXCEPT !.batch = RestOfBatch]
  /\ UNCHANGED <<cloud, state, nodes, h>>

\* The time is taken and the group listed into a new map.
WaitList ==
  /\ op.pc = "wait"
  /\ op' = [op EXCEPT !.pc = "list", !.late = {}]
  /\ UNCHANGED <<cloud, state, nodes, h>>

\* The answer still has one of the instances - of all, not of the batch - or
\* it has none of them.
WaitAnswer ==
  /\ op.pc = "list"
  /\ op' = IF op.ids \cap Listing # {} THEN [op EXCEPT !.pc = "wait"]
           ELSE [op EXCEPT !.pc = "install", !.listed = Listing]
  /\ UNCHANGED <<cloud, state, nodes, h>>

\* The listing replaces the state under the lock.
WaitInstall ==
  /\ op.pc = "install"
  /\ known' = op.listed
  /\ seen' = KeptFlags(op.listed)
  /\ fresh' = StillFresh(op.late)
  /\ op' = [op EXCEPT !.pc = "terminate", !.late = {}, !.listed = {}]
  /\ UNCHANGED <<cloud, nodes, h>>

\* Mutant: only instances the pool does not have are terminated.
Forgotten == op.batch \ nodes

\* The instances TerminateInstances is called with.
Terminated == op.batch

\* TerminateInstances is repeated until it succeeds, and waited for.
Terminate ==
  /\ op.pc = "terminate"
  /\ status' = Becomes(Terminated, "gone")
  /\ Continue(op, op.todo)
  /\ UNCHANGED <<desired, reg, missed, lost, state, nodes, h>>

-----------------------------------------------------------------------------
(* UpdateNode and RemoveNode *)

\* Update or WarmUp ask for k nodes more than the pool has.  The state is read
\* under the provider's lock, which is released before the removal.
UpdateNode(k, by) ==
  /\ op.pc = "idle"
  /\ LET o == [IdleOp EXCEPT !.by = by, !.total = Cardinality(nodes) + k,
                             !.ids = seen \ nodes]
     IN Continue(o, o.ids)
  /\ UNCHANGED <<cloud, state, nodes, h>>

\* UpdateAutoScalingGroup sets the size, if the group allows it; an error is
\* retried.
Resize ==
  /\ op.pc = "resize"
  /\ op.total <= MaxSize
  /\ desired' = op.total
  /\ op' = IdleOp
  /\ UNCHANGED <<status, reg, missed, lost, state, nodes, h>>

\* The context of an Update ends some day, that of a WarmUp never.
CtxEnds == op.by = "update"

\* The context has ended when there is an error: UpdateNode gives up.
GiveUp ==
  /\ op.pc = "resize"
  /\ CtxEnds
  /\ op' = IdleOp
  /\ UNCHANGED <<cloud, state, nodes, h>>

\* RemoveNode of the pool: the collector's nodes are looked up in the pool.
RemoveNode(S) ==
  /\ op.pc = "idle"
  /\ S # {}
  /\ Continue([IdleOp EXCEPT !.by = "remove", !.ids = S], S)
  /\ UNCHANGED <<cloud, state, nodes, h>>

-----------------------------------------------------------------------------
Group == \E i \in Instances :
  Launch(i) \/ ScaleIn(i) \/ Sicken(i) \/ Die(i) \/ Detached(i) \/ Register(i)

IsNodeExists == AskState \/ AskGroup \/ ListAnswer \/ Install

Removal == \/ \E answered \in BOOLEAN : Detach(answered)
           \/ Refused \/ WaitList \/ WaitAnswer \/ WaitInstall \/ Terminate

Next ==
  \/ Group
  \/ \E i \in Instances, up \in BOOLEAN : NodeEvent(i, up)
  \/ IsNodeExists \/ AddNode
  \/ \E k \in 1..MaxGrow, by \in {"update", "warmup"} : UpdateNode(k, by)
  \/ \E S \in SUBSET nodes : RemoveNode(S)
  \/ Removal \/ Resize \/ GiveUp

Spec == Init /\ [][Next]_vars

\* Calls of the cloud's interface succeed in the end when they can, a detached
\* instance leaves the group, a group that is too large shrinks, and the
\* context of an Update ends.
FairSpec ==
  /\ Spec
  /\ WF_vars(Detach(TRUE)) /\ WF_vars(Refused)
  /\ WF_vars(WaitList) /\ WF_vars(WaitAnswer) /\ WF_vars(WaitInstall)
  /\ WF_vars(Terminate) /\ WF_vars(Resize) /\ WF_vars(GiveUp)
  /\ WF_vars(\E i \in Instances : ScaleIn(i))
  /\ \A i \in Instances : WF_vars(Detached(i))

-----------------------------------------------------------------------------
Handlers == [pc : {"idle", "ask", "list", "install", "add"},
             inst : Instances \cup {None}, up : BOOLEAN,
             late : SUBSET Instances, listed : SUBSET Instances]

Calls == [pc : {"idle", "detach", "wait", "list", "install", "terminate",
                "resize"},
          by : {"nobody", "update", "warmup", "remove"}, total : Nat,
          ids : SUBSET Instances, todo : SUBSET Instances,
          batch : SUBSET Instances, late : SUBSET Instances,
          listed : SUBSET Instances]

TypeOK ==
  /\ status \in [Instances -> {"none", "group", "sick", "leaving", "out",
                               "gone"}]
  /\ desired \in Nat
  /\ missed \subseteq reg /\ reg \subseteq Instances /\ lost \subseteq reg
  /\ fresh \subseteq reg
  /\ seen \subseteq known /\ known \subseteq Instances
  /\ nodes \subseteq reg
  /\ h \in Handlers /\ op \in Calls

\* A node whose instance is in the group is turned away only if it registered
\* while the provider was created: a listing replaces the state together with
\* its time stamp, so a state that is not older than the registration has the
\* instance, whichever of the two goroutines installed it
\* (awsautoscalegroupv2.go 68-85, 94-127, 187-226).
NoMemberRejected ==
  h.pc \in {"ask", "install"} /\ h.up /\ h'.pc = "idle"
    => h.inst \in missed \/ status[h.inst] # "group"

RejectsNoMember == [][NoMemberRejected]_vars

Caller == CASE op.by \in {"update", "warmup"} -> "update"
            [] op.by = "remove" -> "remove"
            [] OTHER -> "nobody"

Life(s) == IF s \in {"none", "gone"} THEN s ELSE "live"

Contract == INSTANCE NodeProvider WITH
  status <- [i \in Instances |-> Life(status[i])],
  joined <- reg, nodes <- nodes, caller <- Caller, condemned <- op.ids

\* The provider stops only strangers of the pool or nodes the collector gave
\* it, and the pool does not change while strangers are removed, as the
\* contract has it (awsautoscalegroupv2.go 273-312, pool.go 281-330, 417).
ImplementsProvider == Contract!Spec

\* Who was detached by the scaler and still runs: it is out of the group's
\* reach, and nothing but the call that detached it will stop it.
Orphans == Is({"leaving", "out"})

\* No instance is orphaned when a removal ends, unless the answer of a detach
\* call was lost (awsautoscalegroupv2.go 155-185, 228-239).
NoLeak == Orphans \subseteq op.ids \cup lost

\* UpdateNode, with p.lock of the pool held, and RemoveNode, with updrmvlock
\* held, return: instances that left the group meanwhile do not stop the
\* removal, and an Update that asks for more than the group allows returns by
\* its context.  A WarmUp that asks for so much does not
\* (awsautoscalegroupv2.go 146-271, 314-330).
CallsReturn ==
  op.pc # "idle" /\ ~(op.by = "warmup" /\ op.total > MaxSize)
    ~> op.pc = "idle"

\* The comment at awsautoscalegroupv2.go:151: the instances are detached
\* and then terminated "in batches of 20 ... detach takes no more than 20
\* identifiers" (in Russian).  Every instance of a removal gets into a batch.
EveryBatchHandled ==
  \A i \in Instances : i \in op.todo ~> i \notin op.todo
=============================================================================
