---------------------- MODULE AwsAutoscaleProviderProofs ----------------------
(***************************************************************************)
(* Theorems about AwsAutoscaleProvider, for every set of instances, every  *)
(* size of the group and of a batch.                                       *)
(*                                                                         *)
(* Two goroutines have listings on their way, the node handler and a       *)
(* removal, and install them in any order: ListingsFresh and StateFresh    *)
(* say what a listing has, and what that makes of the time stamp once it   *)
(* is installed.  OpSound is the shape of the running call, InHand that    *)
(* only the batch of that call is out of the group's reach.                *)
(***************************************************************************)
EXTENDS AwsAutoscaleProvider, FiniteSetTheorems, TLAPS

\* What has been seen, is being removed or is late for a listing registered;
\* the node in tryNomadNode did, too.
RegistrationSound ==
  /\ \A i \in reg : status[i] # "none"
  /\ seen \subseteq reg /\ op.ids \subseteq reg
  /\ h.late \subseteq reg /\ op.late \subseteq reg
  /\ h.pc # "idle" => h.inst \in reg

\* The running call.
OpSound ==
  /\ op.batch \subseteq op.ids /\ op.todo \subseteq op.ids
  /\ op.pc = "idle" <=> op.by = "nobody"
  /\ op.pc \in {"idle", "resize"} => op.ids = {}
  /\ op.pc = "resize" => op.by \in {"update", "warmup"}

\* The members of the group that registered.
Joined == {i \in reg : status[i] = "group"}

\* A listing on its way has all that registered before it was asked for, and
\* the node it was asked for.
ListingsFresh ==
  /\ h.pc = "install" => /\ Joined \ h.late \subseteq h.listed
                         /\ h.inst \in Joined => h.inst \in h.listed
  /\ op.pc = "install" => Joined \ op.late \subseteq op.listed

\* The state has the members that registered before its time stamp.
StateFresh == Joined \ (fresh \cup missed) \subseteq known

\* The batch that is detached, and not terminated yet.
Detaching == IF op.pc \in {"wait", "list", "install", "terminate"}
             THEN op.batch ELSE {}

InHand == Orphans \subseteq lost \cup Detaching

IInv == /\ TypeOK /\ RegistrationSound /\ OpSound
        /\ ListingsFresh /\ StateFresh /\ InHand

\* A set of instances has a size.
LEMMA Countable ==
  ASSUME NEW S \in SUBSET Instances
  PROVE  Cardinality(S) \in Nat
BY FS_Subset, FS_CardinalityType, InstanceAssumption

\* How a call o with the instances in rest left goes on: with a batch of
\* them, or it is done with all.
LEMMA ContinueFacts ==
  ASSUME NEW o \in Calls, NEW rest \in SUBSET o.ids,
         o.by # "nobody", Continue(o, rest)
  PROVE  /\ op' \in Calls /\ OpSound'
         /\ op'.pc \in {"idle", "resize", "detach"}
         /\ op'.late = {}
         /\ rest # {} => op'.ids = o.ids /\ op'.by = o.by
         /\ rest = {} => op'.ids = {}
         /\ rest = {} => op'.by = IF o.by = "remove" THEN "nobody" ELSE o.by
<1>1. CASE rest = {}
  <2>1. op' = Ended(o)
    BY <1>1 DEF Continue
  <2>2. CASE o.by = "remove"
    BY <1>1, <2>1, <2>2 DEF Ended, IdleOp, Calls, OpSound
  <2>3. CASE o.by # "remove"
    <3>1. op' = [pc |-> "resize", by |-> o.by, total |-> o.total, ids |-> {},
                 todo |-> {}, batch |-> {}, late |-> {}, listed |-> {}]
      BY <2>1, <2>3 DEF Ended, IdleOp
    <3>2. o.by \in {"update", "warmup"} /\ o.total \in Nat
      BY <2>3 DEF Calls
    <3> QED
      BY <1>1, <2>3, <3>1, <3>2 DEF Calls, OpSound
  <2> QED
    BY <2>2, <2>3
<1>2. CASE rest # {}
  <2>1. PICK B \in SUBSET rest :
          op' = [o EXCEPT !.pc = "detach", !.batch = B, !.todo = rest \ B,
                          !.late = {}, !.listed = {}]
    BY <1>2 DEF Continue, Batches
  <2>2. op' \in Calls
    BY <2>1 DEF Calls
  <2>3. /\ op'.pc = "detach" /\ op'.batch = B /\ op'.todo = rest \ B
        /\ op'.ids = o.ids /\ op'.by = o.by /\ op'.late = {}
    BY <2>1 DEF Calls
  <2> QED
    BY <1>2, <2>2, <2>3 DEF OpSound
<1> QED
  BY <1>1, <1>2

\* The lemmas on single steps look into the invariant and its parts.
USE InstanceAssumption
    DEF IInv, TypeOK, RegistrationSound, OpSound, Joined, ListingsFresh, StateFresh,
        InHand, Detaching, Orphans, Is, cloud, state

\* The first listing has what registered before it; the rest is missed.
LEMMA InitSound == Init => IInv
<1> SUFFICES ASSUME Init
             PROVE  IInv
  OBVIOUS
<1>1. /\ reg \subseteq Instances /\ missed \subseteq reg
      /\ known \subseteq Instances /\ reg \subseteq known \cup missed
  BY DEF Init
<1>2. status = [i \in Instances |-> IF i \in known \cup missed
                                    THEN "group" ELSE "none"]
  BY DEF Init
<1>3. desired \in Nat
  BY Countable DEF Init, Members
<1>4. h \in Handlers /\ op \in Calls
  BY DEF Init, IdleHandler, IdleOp, Handlers, Calls
<1>5. TypeOK
  BY <1>1, <1>2, <1>3, <1>4 DEF Init
<1>6. RegistrationSound /\ OpSound
  BY <1>1, <1>2 DEF Init, IdleHandler, IdleOp
<1>7. ListingsFresh /\ StateFresh /\ InHand
  BY <1>1, <1>2 DEF Init, IdleHandler, IdleOp
<1> QED
  BY <1>5, <1>6, <1>7

\* The group: its instances come and go; what registers is fresh, and late
\* for the listings on their way.
LEMMA GroupSteps ==
  ASSUME IInv,
         NEW i \in Instances,
         \/ Launch(i) \/ ScaleIn(i) \/ Sicken(i) \/ Die(i) \/ Detached(i)
         \/ Register(i)
  PROVE  IInv'
<1>1. CASE Launch(i)
  BY <1>1 DEF Launch, Becomes
<1>2. CASE ScaleIn(i)
  BY <1>2 DEF ScaleIn, Becomes
<1>3. CASE Sicken(i)
  BY <1>3 DEF Sicken, Becomes
<1>4. CASE Die(i)
  BY <1>4 DEF Die, Becomes
<1>5. CASE Detached(i)
  BY <1>5 DEF Detached, Becomes
<1>6. CASE Register(i)
  <2>1. /\ h' \in Handlers /\ op' \in Calls
    BY <1>6 DEF Register, Handlers, Calls
  <2>2. /\ h'.pc = h.pc /\ h'.inst = h.inst /\ h'.listed = h.listed
        /\ h'.late \subseteq h.late \cup {i} /\ h.late \subseteq h'.late
        /\ h.pc = "install" => i \in h'.late
    BY <1>6 DEF Register, Handlers
  <2>3. /\ op'.pc = op.pc /\ op'.ids = op.ids /\ op'.listed = op.listed
        /\ op'.by = op.by /\ op'.todo = op.todo /\ op'.batch = op.batch
        /\ op'.late \subseteq op.late \cup {i} /\ op.late \subseteq op'.late
        /\ op.pc = "install" => i \in op'.late
    BY <1>6 DEF Register, Calls
  <2>4. /\ i \in Running /\ reg' = reg \cup {i} /\ fresh' = fresh \cup {i}
        /\ UNCHANGED <<status, desired, missed, lost, known, seen, nodes>>
    BY <1>6 DEF Register
  <2>5. TypeOK'
    BY <2>1, <2>4
  <2>6. RegistrationSound' /\ OpSound'
    BY <2>2, <2>3, <2>4 DEF Running
  <2>7. ListingsFresh'
    BY <2>2, <2>3, <2>4
  <2>8. StateFresh' /\ InHand'
    BY <2>3, <2>4
  <2> QED
    BY <2>5, <2>6, <2>7, <2>8
<1> QED
  BY <1>1, <1>2, <1>3, <1>4, <1>5, <1>6

\* The node handler before it asks for a listing, and after the answer.
LEMMA HandlerSteps ==
  ASSUME IInv,
         \/ \E i \in Instances, up \in BOOLEAN : NodeEvent(i, up)
         \/ AskState \/ AskGroup \/ ListAnswer \/ AddNode
  PROVE  IInv'
<1>1. CASE \E i \in Instances, up \in BOOLEAN : NodeEvent(i, up)
  <2> PICK i \in Instances, up \in BOOLEAN : NodeEvent(i, up)
    BY <1>1
  <2>1. /\ h' = h \/ h' = [pc |-> "ask", inst |-> i, up |-> up,
                           late |-> {}, listed |-> {}]
        /\ h.pc = "idle" /\ i \in reg /\ nodes' \subseteq nodes
        /\ UNCHANGED <<cloud, state, op>>
    BY DEF NodeEvent, IdleHandler
  <2>2. h' \in Handlers
    BY <2>1 DEF Handlers
  <2> QED
    BY <2>1, <2>2
<1>2. CASE AskState
  <2>1. h' \in Handlers /\ h'.late \subseteq h.late
        /\ h'.pc \in {"idle", "add"} /\ (h'.pc = "add" => h'.inst = h.inst)
    BY <1>2 DEF AskState, Answer, IdleHandler, Handlers
  <2> QED
    BY <1>2, <2>1 DEF AskState, Handlers
<1>3. CASE AskGroup
  <2>1. h' \in Handlers /\ h'.late = h.late /\ h'.pc = "list"
        /\ h'.inst = h.inst
    BY <1>3 DEF AskGroup, Handlers
  <2> QED
    BY <1>3, <2>1 DEF AskGroup, Handlers
<1>4. CASE ListAnswer
  <2>1. h' \in Handlers /\ h'.late = h.late /\ h'.pc = "install"
        /\ h'.inst = h.inst /\ h'.listed = Listing
    BY <1>4 DEF ListAnswer, Handlers, Listing
  <2> QED
    BY <1>4, <2>1 DEF ListAnswer, Listing
<1>5. CASE AddNode
  <2>1. h' \in Handlers /\ h'.late = {} /\ h'.pc = "idle"
    BY <1>5 DEF AddNode, IdleHandler, Handlers
  <2> QED
    BY <1>5, <2>1 DEF AddNode
<1> QED
  BY <1>1, <1>2, <1>3, <1>4, <1>5

\* The handler installs its listing, which may be older than the state.
LEMMA InstallStep ==
  ASSUME IInv, Install
  PROVE  IInv'
<1>1. /\ h' \in Handlers /\ h'.late = {} /\ h'.pc \in {"idle", "add"}
      /\ h'.pc = "add" => h'.inst = h.inst
  BY DEF Install, Answer, IdleHandler, Handlers
<1>2. /\ h.late \subseteq reg /\ h.listed \subseteq Instances
      /\ h.inst \in reg /\ Joined \ h.late \subseteq h.listed
  BY DEF Install, Handlers
<1>3. /\ known' = h.listed /\ fresh' = h.late
      /\ seen' \subseteq (seen \cup {h.inst}) \cap h.listed
      /\ UNCHANGED <<cloud, nodes, op>>
  BY DEF Install, KeptFlags, StillFresh
<1> QED
  BY <1>1, <1>2, <1>3

\* A removal: the batch is in its hands from the first detach call that is
\* answered to its termination.
LEMMA DetachStep ==
  ASSUME IInv, NEW answered \in BOOLEAN, Detach(answered)
  PROVE  IInv'
<1>1. op.batch \in SUBSET Instances /\ Cardinality(op.batch) \in Nat
  BY Countable DEF Calls
<1>2. /\ op' \in Calls /\ op'.late = op.late /\ op'.ids = op.ids
      /\ op'.batch = op.batch /\ op'.todo = op.todo /\ op'.by = op.by
      /\ op'.pc = IF answered THEN "wait" ELSE "detach"
  BY DEF Detach, Calls
<1>3. desired' \in Nat
  BY <1>1 DEF Detach
<1>4. /\ status' = Becomes(op.batch, "leaving") /\ op.pc = "detach"
      /\ lost' = IF answered THEN lost ELSE lost \cup op.batch
      /\ UNCHANGED <<reg, missed, known, seen, fresh, nodes, h>>
  BY DEF Detach
<1>5. TypeOK'
  BY <1>1, <1>2, <1>3, <1>4 DEF Becomes
<1>6. RegistrationSound' /\ OpSound' /\ ListingsFresh' /\ StateFresh'
  BY <1>2, <1>4 DEF Becomes
<1>7. InHand'
  BY <1>2, <1>4 DEF Becomes
<1> QED
  BY <1>5, <1>6, <1>7

\* Its other steps, but the last.
LEMMA RemovalSteps ==
  ASSUME IInv, Refused \/ WaitList \/ WaitAnswer
  PROVE  IInv'
<1>1. CASE Refused
  <2>1. /\ op.pc = "detach" /\ UNCHANGED <<cloud, state, nodes, h>>
        /\ op.by # "nobody" /\ op \in Calls /\ op.todo \in SUBSET op.ids
    BY <1>1 DEF Refused
  <2>2. CASE RestOfBatch = {}
    <3>1. Continue(op, op.todo)
      BY <1>1, <2>2 DEF Refused
    <3>2. /\ op' \in Calls /\ OpSound' /\ op'.late = {}
          /\ op'.pc \in {"idle", "resize", "detach"}
          /\ op'.ids = op.ids \/ op'.ids = {}
      BY <2>1, <3>1, ContinueFacts, Zenon
    <3> QED
      BY <2>1, <3>2
  <2>3. CASE RestOfBatch # {}
    <3>1. op' = [op EXCEPT !.batch = RestOfBatch]
      BY <1>1, <2>3 DEF Refused
    <3>2. RestOfBatch \subseteq op.batch
      BY DEF RestOfBatch
    <3>3. /\ op' \in Calls /\ op'.late = op.late /\ op'.pc = op.pc
          /\ op'.by = op.by /\ op'.ids = op.ids /\ op'.todo = op.todo
          /\ op'.batch \subseteq op.batch
      BY <3>1, <3>2 DEF Calls
    <3> QED
      BY <2>1, <3>3
  <2> QED
    BY <2>2, <2>3
<1>2. CASE WaitList
  <2>1. /\ op' \in Calls /\ op'.late = {} /\ op'.pc = "list"
        /\ op'.by = op.by /\ op'.ids = op.ids /\ op'.todo = op.todo
        /\ op'.batch = op.batch
    BY <1>2 DEF WaitList, Calls
  <2> QED
    BY <1>2, <2>1 DEF WaitList
<1>3. CASE WaitAnswer
  <2>1. /\ op' \in Calls /\ op'.late = op.late
        /\ op'.pc = "wait" \/ (op'.pc = "install" /\ op'.listed = Listing)
        /\ op'.by = op.by /\ op'.ids = op.ids /\ op'.todo = op.todo
        /\ op'.batch = op.batch
    BY <1>3 DEF WaitAnswer, Calls, Listing
  <2> QED
    BY <1>3, <2>1 DEF WaitAnswer, Listing
<1> QED
  BY <1>1, <1>2, <1>3

\* The removal installs its listing.
LEMMA WaitInstallStep ==
  ASSUME IInv, WaitInstall
  PROVE  IInv'
<1>1. /\ op' \in Calls /\ op'.late = {} /\ op'.pc = "terminate"
      /\ op'.by = op.by /\ op'.ids = op.ids /\ op'.todo = op.todo
      /\ op'.batch = op.batch
  BY DEF WaitInstall, Calls
<1>2. /\ op.pc = "install" /\ op.listed \subseteq Instances
      /\ known' = op.listed /\ seen' = seen \cap op.listed
      /\ fresh' = op.late /\ UNCHANGED <<cloud, nodes, h>>
  BY DEF WaitInstall, Calls, KeptFlags, StillFresh
<1> QED
  BY <1>1, <1>2

\* The batch is terminated; what it had in hand is gone.
LEMMA TerminateStep ==
  ASSUME IInv, Terminate
  PROVE  IInv'
<1>1. /\ op.pc = "terminate" /\ status' = Becomes(op.batch, "gone")
      /\ UNCHANGED <<desired, reg, missed, lost, state, nodes, h>>
  BY DEF Terminate, Terminated
<1>2. /\ op' \in Calls /\ OpSound' /\ op'.late = {}
      /\ op'.pc \in {"idle", "resize", "detach"}
      /\ op'.ids = op.ids \/ op'.ids = {}
  <2>1. op \in Calls /\ op.by # "nobody" /\ op.todo \in SUBSET op.ids
        /\ Continue(op, op.todo)
    BY <1>1 DEF Terminate
  <2> QED
    BY <2>1, ContinueFacts, Zenon
<1>3. TypeOK' /\ RegistrationSound'
  BY <1>1, <1>2 DEF Becomes
<1>4. ListingsFresh' /\ StateFresh' /\ InHand'
  BY <1>1, <1>2 DEF Becomes
<1> QED
  BY <1>2, <1>3, <1>4

\* A call begins or ends; nothing is out of the group's reach then but what
\* was lost.
LEMMA CallSteps ==
  ASSUME IInv,
         \/ \E k \in 1..MaxGrow, by \in {"update", "warmup"} : UpdateNode(k, by)
         \/ \E S \in SUBSET nodes : RemoveNode(S)
         \/ Resize \/ GiveUp
  PROVE  IInv'
<1>1. CASE \E k \in 1..MaxGrow, by \in {"update", "warmup"} : UpdateNode(k, by)
  <2> PICK k \in 1..MaxGrow, by \in {"update", "warmup"} : UpdateNode(k, by)
    BY <1>1
  <2> DEFINE o == [IdleOp EXCEPT !.by = by, !.total = Cardinality(nodes) + k,
                                 !.ids = seen \ nodes]
  <2>1. Cardinality(nodes) + k \in Nat
    BY Countable, SizeAssumption
  <2>2. o \in Calls /\ o.by # "nobody" /\ o.ids = seen \ nodes
    BY <2>1 DEF IdleOp, Calls
  <2>3. Continue(o, o.ids) /\ op.pc = "idle"
        /\ UNCHANGED <<cloud, state, nodes, h>>
    BY DEF UpdateNode
  <2> HIDE DEF o
  <2>4. /\ op' \in Calls /\ OpSound' /\ op'.late = {}
        /\ op'.pc \in {"idle", "resize", "detach"}
        /\ op'.ids = o.ids \/ op'.ids = {}
    BY <2>2, <2>3, ContinueFacts
  <2> QED
    BY <2>2, <2>3, <2>4
<1>2. CASE \E S \in SUBSET nodes : RemoveNode(S)
  <2> PICK S \in SUBSET nodes : RemoveNode(S)
    BY <1>2
  <2> DEFINE o == [IdleOp EXCEPT !.by = "remove", !.ids = S]
  <2>1. o \in Calls /\ o.by # "nobody" /\ o.ids = S
    BY DEF IdleOp, Calls
  <2>2. Continue(o, S) /\ op.pc = "idle"
        /\ UNCHANGED <<cloud, state, nodes, h>>
    BY DEF RemoveNode
  <2> HIDE DEF o
  <2>3. /\ op' \in Calls /\ OpSound' /\ op'.late = {}
        /\ op'.pc \in {"idle", "resize", "detach"}
        /\ op'.ids = o.ids \/ op'.ids = {}
    BY <2>1, <2>2, ContinueFacts
  <2> QED
    BY <2>1, <2>2, <2>3
<1>3. CASE Resize \/ GiveUp
  <2>1. op.total \in Nat /\ desired' \in Nat
    BY <1>3 DEF Resize, GiveUp, Calls
  <2>2. op' \in Calls /\ op'.pc = "idle" /\ op'.by = "nobody"
        /\ op'.ids = {} /\ op'.todo = {} /\ op'.batch = {} /\ op'.late = {}
    BY <1>3 DEF Resize, GiveUp, IdleOp, Calls
  <2> QED
    BY <1>3, <2>1, <2>2 DEF Resize, GiveUp
<1> QED
  BY <1>1, <1>2, <1>3

\* Nothing happens.
LEMMA StutterStep ==
  ASSUME IInv, UNCHANGED vars
  PROVE  IInv'
BY DEF vars

HIDE InstanceAssumption
     DEF IInv, TypeOK, RegistrationSound, OpSound, Joined, ListingsFresh,
        StateFresh, InHand, Detaching, Orphans, Is, cloud, state

\* Every step preserves the invariant.
LEMMA NextSound == IInv /\ [Next]_vars => IInv'
<1> SUFFICES ASSUME IInv, [Next]_vars
             PROVE  IInv'
  OBVIOUS
<1>1. CASE UNCHANGED vars
  BY <1>1, StutterStep
<1>2. CASE Group
  BY <1>2, GroupSteps DEF Group
<1>3. CASE \E i \in Instances, up \in BOOLEAN : NodeEvent(i, up)
  BY <1>3, HandlerSteps
<1>4. CASE IsNodeExists \/ AddNode
  BY <1>4, HandlerSteps, InstallStep DEF IsNodeExists
<1>5. CASE Removal
  BY <1>5, DetachStep, RemovalSteps, WaitInstallStep, TerminateStep
     DEF Removal
<1>6. CASE \/ \E k \in 1..MaxGrow, by \in {"update", "warmup"} :
                UpdateNode(k, by)
           \/ \E S \in SUBSET nodes : RemoveNode(S)
           \/ Resize \/ GiveUp
  BY <1>6, CallSteps
<1> QED
  BY <1>1, <1>2, <1>3, <1>4, <1>5, <1>6 DEF Next

\* The state of the provider, the running call and the listings on their way
\* always fit together as IInv says (awsautoscalegroupv2.go 87-333).
THEOREM InductiveInvariant == Spec => []IInv
BY InitSound, NextSound, PTL DEF Spec

\* Every variable has its type, whatever the sizes and batches are.
THEOREM TypeCorrect == Spec => []TypeOK
<1>1. IInv => TypeOK
  BY DEF IInv
<1> QED
  BY <1>1, InductiveInvariant, PTL

\* Only the running removal and lost answers have instances out of the
\* group's reach (awsautoscalegroupv2.go 155-185, 228-239).
THEOREM NoOrphans == Spec => []NoLeak
<1>1. IInv => NoLeak
  BY DEF IInv, InHand, Detaching, OpSound, NoLeak
<1> QED
  BY <1>1, InductiveInvariant, PTL

\* The handler is done with a node in the answer from the state or from a
\* listing, and neither misses a member that the provider could know
\* (awsautoscalegroupv2.go 94-127).
THEOREM NoRejection == Spec => RejectsNoMember
<1>1. IInv /\ [Next]_vars => [NoMemberRejected]_vars
  <2> SUFFICES ASSUME IInv, Next, h.pc \in {"ask", "install"}, h.up,
                      h'.pc = "idle", status[h.inst] = "group"
               PROVE  h.inst \in missed
    BY DEF NoMemberRejected
  <2>1. AskState \/ Install
    <3>1. CASE \E i \in Instances : Register(i)
      BY <3>1 DEF Register, IInv, TypeOK, Handlers
    <3>2. CASE \E i \in Instances : \/ Launch(i) \/ ScaleIn(i) \/ Sicken(i)
                                    \/ Die(i) \/ Detached(i)
      BY <3>2 DEF Launch, ScaleIn, Sicken, Die, Detached
    <3>3. CASE \E i \in Instances, up \in BOOLEAN : NodeEvent(i, up)
      BY <3>3 DEF NodeEvent
    <3>4. CASE AskGroup \/ ListAnswer \/ AddNode
      BY <3>4 DEF AskGroup, ListAnswer, AddNode, IInv, TypeOK, Handlers
    <3>5. CASE Removal \/ Resize \/ GiveUp
      BY <3>5 DEF Removal, Detach, Refused, WaitList, WaitAnswer,
         WaitInstall, Terminate, Resize, GiveUp
    <3>6. CASE \/ \E k \in 1..MaxGrow, by \in {"update", "warmup"} :
                    UpdateNode(k, by)
               \/ \E S \in SUBSET nodes : RemoveNode(S)
      BY <3>6 DEF UpdateNode, RemoveNode
    <3> QED
      BY <3>1, <3>2, <3>3, <3>4, <3>5, <3>6 DEF Next, Group, IsNodeExists
  <2>2. h.inst \in Joined
    BY DEF IInv, RegistrationSound, Joined
  <2>3. CASE AskState
    <3>1. h.inst \notin fresh /\ h.inst \notin known
      BY <2>3 DEF AskState, Answer, IInv, TypeOK, Handlers
    <3> QED
      BY <2>2, <3>1 DEF IInv, StateFresh
  <2>4. CASE Install
    <3>1. h.pc = "install" /\ h.inst \notin h.listed
      BY <2>4 DEF Install, Answer, IInv, TypeOK, Handlers
    <3> QED
      BY <2>2, <3>1 DEF IInv, ListingsFresh
  <2> QED
    BY <2>1, <2>3, <2>4
<1> QED
  BY <1>1, InductiveInvariant, PTL DEF Spec, RejectsNoMember

-----------------------------------------------------------------------------
(* The contract: every step is a step of NodeProvider or none at all.      *)

Lives == [i \in Instances |-> Life(status[i])]

\* The group starts, stops and changes instances.
LEMMA GroupContract ==
  ASSUME IInv, NEW i \in Instances,
         \/ Launch(i) \/ ScaleIn(i) \/ Sicken(i) \/ Die(i) \/ Detached(i)
         \/ Register(i)
  PROVE  Contract!Next \/ UNCHANGED Contract!vars
<1> USE DEF Life, Becomes, Is
<1>1. /\ UNCHANGED <<nodes, op.ids, Caller>>
      /\ status \in [Instances -> {"none", "group", "sick", "leaving", "out",
                                   "gone"}]
  BY DEF Launch, ScaleIn, Sicken, Die, Detached, Register, Caller, IInv,
     TypeOK, Calls
<1>2. CASE Launch(i)
  <2>1. Contract!Launch(i)
    BY <1>1, <1>2 DEF Launch, Contract!Launch
  <2> QED
    BY <2>1 DEF Contract!Next
<1>3. CASE ScaleIn(i) \/ Die(i)
  <2>1. Contract!Fail(i)
    BY <1>1, <1>3 DEF ScaleIn, Die, Members, Running, Contract!Fail
  <2> QED
    BY <2>1 DEF Contract!Next
<1>4. CASE Sicken(i) \/ Detached(i)
  BY <1>1, <1>4 DEF Sicken, Detached, Contract!vars
<1>5. CASE Register(i)
  <2>1. Contract!Join(i)
    BY <1>1, <1>5 DEF Register, Running, Contract!Join
  <2> QED
    BY <2>1 DEF Contract!Next
<1> QED
  BY <1>2, <1>3, <1>4, <1>5

\* Nodes enter and leave the pool only while its lock is free.
LEMMA PoolContract ==
  ASSUME IInv,
         (\E i \in Instances, up \in BOOLEAN : NodeEvent(i, up)) \/ AddNode
  PROVE  Contract!Next \/ UNCHANGED Contract!vars
<1>1. /\ UNCHANGED <<status, reg, op, Caller>> /\ Caller # "update"
  BY DEF NodeEvent, AddNode, cloud, PoolLock, Caller
<1>2. CASE \E i \in Instances, up \in BOOLEAN : NodeEvent(i, up)
  <2> PICK i \in Instances, up \in BOOLEAN : NodeEvent(i, up)
    BY <1>2
  <2>1. CASE up
    BY <1>1, <2>1 DEF NodeEvent, Contract!vars
  <2>2. CASE ~up
    <3>1. Contract!Leave(i)
      BY <1>1, <2>2 DEF NodeEvent, Contract!Leave
    <3> QED
      BY <3>1 DEF Contract!Next
  <2> QED
    BY <2>1, <2>2
<1>3. CASE AddNode
  <2>1. h.inst \in reg /\ h.inst \in Instances
    BY <1>3 DEF AddNode, IInv, RegistrationSound, TypeOK
  <2>2. Contract!Enter(h.inst)
    BY <1>1, <1>3, <2>1 DEF AddNode, Contract!Enter
  <2> QED
    BY <2>1, <2>2 DEF Contract!Next
<1> QED
  BY <1>2, <1>3

\* A call condemns strangers or nodes of the pool ...
LEMMA CallContract ==
  ASSUME IInv,
         \/ \E k \in 1..MaxGrow, by \in {"update", "warmup"} : UpdateNode(k, by)
         \/ \E S \in SUBSET nodes : RemoveNode(S)
  PROVE  Contract!Next
<1>1. CASE \E k \in 1..MaxGrow, by \in {"update", "warmup"} : UpdateNode(k, by)
  <2> PICK k \in 1..MaxGrow, by \in {"update", "warmup"} : UpdateNode(k, by)
    BY <1>1
  <2> DEFINE S == seen \ nodes
             o == [IdleOp EXCEPT !.by = by, !.total = Cardinality(nodes) + k,
                                 !.ids = S]
  <2>1. S \subseteq reg \ nodes /\ S \in SUBSET Instances
    BY DEF IInv, RegistrationSound, TypeOK
  <2>2. Cardinality(nodes) + k \in Nat
    BY Countable, SizeAssumption DEF IInv, TypeOK
  <2>3. o \in Calls /\ o.by = by /\ o.ids = S
    BY <2>1, <2>2 DEF IdleOp, Calls
  <2>4. Continue(o, S) /\ op.pc = "idle" /\ UNCHANGED <<status, reg, nodes>>
    BY <2>3 DEF UpdateNode, cloud
  <2> HIDE DEF o
  <2>5. op'.ids = S /\ op'.by = by
    BY <2>3, <2>4, ContinueFacts
  <2>6. Caller = "nobody" /\ Caller' = "update"
    BY <2>4, <2>5 DEF Caller, IInv, OpSound
  <2>7. Contract!Update(S)
    BY <2>1, <2>4, <2>5, <2>6 DEF Contract!Update
  <2> QED
    BY <2>1, <2>7 DEF Contract!Next
<1>2. CASE \E S \in SUBSET nodes : RemoveNode(S)
  <2> PICK S \in SUBSET nodes : RemoveNode(S)
    BY <1>2
  <2> DEFINE o == [IdleOp EXCEPT !.by = "remove", !.ids = S]
  <2>1. S \in SUBSET Instances
    BY DEF IInv, TypeOK
  <2>2. o \in Calls /\ o.by = "remove" /\ o.ids = S
    BY <2>1 DEF IdleOp, Calls
  <2>3. /\ Continue(o, S) /\ S # {} /\ op.pc = "idle"
        /\ UNCHANGED <<status, reg, nodes>>
    BY DEF RemoveNode, cloud
  <2> HIDE DEF o
  <2>4. op'.ids = S /\ op'.by = "remove"
    BY <2>2, <2>3, ContinueFacts
  <2>5. Caller = "nobody" /\ Caller' = "remove"
    BY <2>3, <2>4 DEF Caller, IInv, OpSound
  <2>6. Contract!Remove(S)
    BY <2>3, <2>4, <2>5 DEF Contract!Remove
  <2> QED
    BY <2>1, <2>6 DEF Contract!Next
<1> QED
  BY <1>1, <1>2

\* ... and stops none but them: Terminate does, the others stop nobody.
LEMMA RemovalContract ==
  ASSUME IInv, Refused \/ Terminate
  PROVE  Contract!Next
<1>1. /\ op \in Calls /\ op.by # "nobody"
      /\ op.batch \subseteq op.ids /\ op.todo \in SUBSET op.ids
      /\ status \in [Instances -> {"none", "group", "sick", "leaving", "out",
                                   "gone"}]
  BY DEF Refused, Terminate, IInv, OpSound, TypeOK
<1>2. CASE Terminate
  <2>1. /\ Continue(op, op.todo) /\ status' = Becomes(op.batch, "gone")
        /\ UNCHANGED <<reg, nodes>>
    BY <1>2 DEF Terminate, Terminated
  <2>2. \/ op'.ids = op.ids /\ op'.by = op.by
        \/ op'.ids = {} /\ op'.by = IF op.by = "remove" THEN "nobody"
                                                        ELSE op.by
    BY <1>1, <2>1, ContinueFacts
  <2>3. op'.ids \in {op.ids, {}}
        /\ (Caller' = Caller \/ (Caller' = "nobody" /\ op'.ids = {}))
    BY <1>1, <2>2 DEF Caller
  <2>4. op.batch \in SUBSET Instances
    BY <1>1 DEF Calls
  <2>5. Contract!Stop(op.batch)
    BY <1>1, <2>1, <2>3, <2>4 DEF Contract!Stop, Becomes, Life
  <2> QED
    BY <2>4, <2>5 DEF Contract!Next
<1>3. CASE Refused
  <2>1. UNCHANGED <<status, reg, nodes>>
    BY <1>3 DEF Refused, cloud
  <2>2. \/ op'.ids = op.ids /\ op'.by = op.by
        \/ op'.ids = {} /\ op'.by = IF op.by = "remove" THEN "nobody"
                                                        ELSE op.by
    <3>1. CASE RestOfBatch = {}
      <4>1. Continue(op, op.todo)
        BY <1>3, <3>1 DEF Refused
      <4> QED
        BY <1>1, <4>1, ContinueFacts
    <3>2. CASE RestOfBatch # {}
      BY <1>1, <1>3, <3>2 DEF Refused, Calls
    <3> QED
      BY <3>1, <3>2
  <2>3. op'.ids \in {op.ids, {}}
        /\ (Caller' = Caller \/ (Caller' = "nobody" /\ op'.ids = {}))
    BY <1>1, <2>2 DEF Caller
  <2>4. Contract!Stop({})
    BY <1>1, <2>1, <2>3 DEF Contract!Stop
  <2> QED
    BY <2>4 DEF Contract!Next
<1> QED
  BY <1>2, <1>3

\* The call returns, with nobody condemned.
LEMMA ReturnContract ==
  ASSUME IInv, Resize \/ GiveUp
  PROVE  Contract!Next
<1>1. /\ op.ids = {} /\ op'.ids = {} /\ Caller' = "nobody"
      /\ UNCHANGED <<status, reg, nodes>>
  BY DEF Resize, GiveUp, IdleOp, Caller, cloud, IInv, OpSound
<1>2. Contract!Stop({})
  BY <1>1 DEF Contract!Stop
<1> QED
  BY <1>2 DEF Contract!Next

\* The provider does to the pool and to the instances only what the contract
\* of a node provider allows (awsautoscalegroupv2.go 87-333, pool.go 281-330,
\* 431-446).
THEOREM Refinement == Spec => ImplementsProvider
<1>1. Init => Contract!Init
  <2> SUFFICES ASSUME Init
               PROVE  Contract!Init
    OBVIOUS
  <2>1. Caller = "nobody" /\ op.ids = {} /\ nodes = {}
    BY DEF Init, IdleOp, Caller
  <2>2. /\ Lives \in [Instances -> {"none", "live"}]
        /\ reg \in SUBSET {i \in Instances : Lives[i] = "live"}
    BY InstanceAssumption DEF Init, Lives, Life
  <2> QED
    BY <2>1, <2>2 DEF Contract!Init, Lives
<1>2. IInv /\ [Next]_vars => [Contract!Next]_(Contract!vars)
  <2> SUFFICES ASSUME IInv, [Next]_vars
               PROVE  Contract!Next \/ UNCHANGED Contract!vars
    OBVIOUS
  <2>1. CASE UNCHANGED vars
    BY <2>1 DEF vars, cloud, Contract!vars, Caller
  <2>2. CASE IsNodeExists
    BY <2>2 DEF IsNodeExists, AskState, AskGroup, ListAnswer, Install, cloud,
       Contract!vars, Caller
  <2>3. CASE WaitList \/ WaitAnswer \/ WaitInstall
    <3>1. op'.ids = op.ids /\ op'.by = op.by /\ UNCHANGED <<cloud, nodes>>
      BY <2>3 DEF WaitList, WaitAnswer, WaitInstall, IInv, TypeOK, Calls
    <3> QED
      BY <3>1 DEF cloud, Contract!vars, Caller
  <2>4. CASE \E answered \in BOOLEAN : Detach(answered)
    <3>1. /\ op'.ids = op.ids /\ op'.by = op.by /\ UNCHANGED <<reg, nodes>>
          /\ op.batch \subseteq Members
          /\ status' = Becomes(op.batch, "leaving")
      BY <2>4 DEF Detach, IInv, TypeOK, Calls
    <3>2. \A i \in Instances : Life(status'[i]) = Life(status[i])
      BY <3>1 DEF Becomes, Members, Is, Life, IInv, TypeOK
    <3> QED
      BY <3>1, <3>2 DEF Contract!vars, Caller
  <2> QED
    BY <2>1, <2>2, <2>3, <2>4, GroupContract, PoolContract, CallContract,
       RemovalContract, ReturnContract DEF Next, Group, Removal
<1> QED
  BY <1>1, <1>2, InductiveInvariant, PTL
     DEF Spec, ImplementsProvider, Contract!Spec
=============================================================================
