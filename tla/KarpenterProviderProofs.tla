----------------------- MODULE KarpenterProviderProofs -----------------------
(***************************************************************************)
(* Theorems about KarpenterProvider, for every set of instances and of     *)
(* goroutines.                                                             *)
(*                                                                         *)
(* The properties speak of the state of the provider; what makes them      *)
(* inductive is what they leave out, a listing on its way: ListingComplete *)
(* and ListingFresh say what it contains by the time it is installed,      *)
(* however much happened since it was taken.  The goroutines that add      *)
(* instances have an invariant of their own.                               *)
(***************************************************************************)
EXTENDS KarpenterProvider, FiniteSetTheorems, TLAPS

\* Only instances that were started have registered, and only those that
\* registered were seen.
RegistrationSound ==
  /\ \A i \in reg : status[i] # "none"
  /\ seen \subseteq reg

\* The node in tryNomadNode registered, and before the listing it asked for.
HandlerSound ==
  /\ h.late \subseteq reg
  /\ h.pc # "idle" => h.inst \in reg \ h.late

\* A node that is about to be entered was seen, unless it has gone meanwhile.
AddSound ==
  h.pc = "add" /\ h.inst \in Live \ Doomed => h.inst \in seen

\* A listing on its way has the live nodes of the pool ...
ListingComplete ==
  h.pc = "install" => (nodes \cap Live) \ Doomed \subseteq h.listed

\* ... and all that registered before it was asked for.
ListingFresh ==
  h.pc = "install" => (reg \cap Live) \ h.late \subseteq h.listed

\* The state has the live nodes that registered before its time stamp.
StateFresh ==
  (reg \cap Live) \ (fresh \cup missed \cup Doomed) \subseteq known

\* RemoveNode dooms nothing while it does not run, and it never runs beside
\* an UpdateNode.
RemoverSound ==
  /\ rem.pc = "idle" => rem.targets = {}
  /\ rem.pc = "idle" \/ upd.pc = "idle"

\* While UpdateNode removes what the pool does not have, the pool does not
\* get it: its caller keeps p.lock.
RemovesStrangersOnly ==
  upd.pc \in {"forget", "remove"} => upd.targets \cap nodes = {}

\* An instance that still starts is not taken for one that left.
SparesStarting == upd.targets \subseteq reg

IInv ==
  /\ SetTypes
  /\ RegistrationSound /\ RemoverSound /\ HandlerSound /\ AddSound
  /\ ListingComplete /\ ListingFresh /\ StateFresh
  /\ PoolNodesSeen /\ RemovesStrangersOnly /\ SparesStarting

\* A set of instances has a size.
LEMMA Countable ==
  ASSUME NEW S \in SUBSET Instances
  PROVE  IsFiniteSet(S) /\ Cardinality(S) \in Nat
BY FS_Subset, FS_CardinalityType, InstanceAssumption

\* The lemmas on single steps look into the invariant and its parts.
USE InstanceAssumption
    DEF IInv, SetTypes, RegistrationSound, RemoverSound, HandlerSound,
        AddSound, ListingComplete, ListingFresh, StateFresh,
        PoolNodesSeen, RemovesStrangersOnly, SparesStarting, Live, Doomed,
        cloud, state

\* The first listing contains what registered before it; the rest is missed.
LEMMA InitSound == Init => IInv
<1> SUFFICES ASSUME Init
             PROVE  IInv
  OBVIOUS
<1>1. SetTypes
  BY DEF Init, IdleHandler, IdleUpdate, IdleRemove
<1>2. RegistrationSound /\ RemoverSound /\ StateFresh /\ HandlerSound
  BY DEF Init, IdleHandler, IdleRemove
<1>3. AddSound /\ ListingComplete /\ ListingFresh
  BY DEF Init, IdleHandler
<1>4. PoolNodesSeen /\ RemovesStrangersOnly /\ SparesStarting
  BY DEF Init, IdleUpdate
<1> QED
  BY <1>1, <1>2, <1>3, <1>4

\* The cloud: what registers is fresh, and late for a listing on its way.
LEMMA CloudSteps ==
  ASSUME IInv,
         NEW i \in Instances, Register(i) \/ Die(i)
  PROVE  IInv'
<1>1. CASE Register(i)
  BY <1>1 DEF Register
<1>2. CASE Die(i)
  BY <1>2 DEF Die
<1> QED
  BY <1>1, <1>2

\* The node handler before it asks the plugin, and after the answer.
LEMMA HandlerSteps ==
  ASSUME IInv,
         \/ \E i \in Instances, up \in BOOLEAN : NodeEvent(i, up)
         \/ AskState \/ AskPlugin \/ ListAnswer \/ AddNode
  PROVE  IInv'
<1>1. CASE \E i \in Instances, up \in BOOLEAN : NodeEvent(i, up)
  <2> PICK i \in Instances, up \in BOOLEAN : NodeEvent(i, up)
    BY <1>1
  <2>1. /\ h' = h \/ h' = [pc |-> "ask", inst |-> i, up |-> up,
                           late |-> {}, listed |-> {}]
        /\ h.pc = "idle" /\ i \in reg /\ nodes' \subseteq nodes
        /\ UNCHANGED <<cloud, state, upd, rem, adder>>
    BY DEF NodeEvent, IdleHandler
  <2> QED
    BY <2>1
<1>2. CASE AskState
  BY <1>2 DEF AskState, Answer, IdleHandler
<1>3. CASE AskPlugin
  BY <1>3 DEF AskPlugin
<1>4. CASE ListAnswer
  BY <1>4 DEF ListAnswer
<1>5. CASE AddNode
  BY <1>5 DEF AddNode, PoolLock, IdleHandler
<1> QED
  BY <1>1, <1>2, <1>3, <1>4, <1>5

\* The handler installs a listing: by ListingComplete and ListingFresh it
\* loses nothing that has to stay.
LEMMA InstallStep ==
  ASSUME IInv, Install
  PROVE  IInv'
<1>1. \/ h' = [pc |-> "idle", inst |-> None, up |-> FALSE,
               late |-> {}, listed |-> {}]
      \/ /\ h' = [pc |-> "add", inst |-> h.inst, up |-> h.up,
                  late |-> {}, listed |-> {}]
         /\ h.inst \in h.listed
  BY DEF Install, Answer, IdleHandler
<1>2. SetTypes'
  <2>1. /\ h.late \subseteq reg /\ h.listed \subseteq Instances
        /\ h.inst \in Instances \cup {None} /\ h.up \in BOOLEAN
    OBVIOUS
  <2>2. h' \in [pc : {"idle", "ask", "list", "install", "add"},
               inst : Instances \cup {None}, up : BOOLEAN,
               late : SUBSET Instances, listed : SUBSET Instances]
    <3>1. CASE h' = [pc |-> "idle", inst |-> None, up |-> FALSE,
                    late |-> {}, listed |-> {}]
      BY <3>1
    <3>2. CASE h' = [pc |-> "add", inst |-> h.inst, up |-> h.up,
                    late |-> {}, listed |-> {}]
      BY <2>1, <3>2, Zenon
    <3> QED
      BY <1>1, <3>1, <3>2
  <2>3. /\ fresh' \subseteq reg
        /\ seen' \subseteq known' /\ known' \subseteq Instances
    BY <2>1 DEF Install, KeptFlags, StillFresh
  <2> QED
    BY <2>2, <2>3 DEF Install
<1>3. RegistrationSound' /\ HandlerSound' /\ AddSound'
  BY <1>1 DEF Install, KeptFlags
<1>4. ListingComplete' /\ ListingFresh'
  BY <1>1
<1>5. StateFresh' /\ PoolNodesSeen'
  BY DEF Install, KeptFlags, StillFresh
<1>6. RemovesStrangersOnly' /\ SparesStarting'
  BY DEF Install
<1>7. RemoverSound'
  BY DEF Install
<1> QED
  BY <1>2, <1>3, <1>4, <1>5, <1>6, <1>7

\* UpdateNode: what it takes from the state is Doomed until it is gone.
LEMMA UpdateSteps ==
  ASSUME IInv,
         (\E k \in 0..MaxGrow : UpdateScan(k)) \/ UpdateNode
  PROVE  IInv'
<1>1. CASE \E k \in 0..MaxGrow : UpdateScan(k)
  <2> PICK k \in 0..MaxGrow : UpdateScan(k)
    BY <1>1
  <2>1. /\ Cardinality(nodes) \in Nat /\ Cardinality(known) \in Nat
        /\ Cardinality(nodes) + k \in Nat
    BY Countable, AdderAssumption
  <2>2. SetTypes'
    BY <2>1 DEF UpdateScan, Candidates
  <2>3. /\ RegistrationSound' /\ RemoverSound' /\ HandlerSound' /\ AddSound'
        /\ ListingComplete' /\ ListingFresh'
    BY DEF UpdateScan
  <2>4. StateFresh' /\ PoolNodesSeen'
    BY DEF UpdateScan
  <2>5. RemovesStrangersOnly' /\ SparesStarting'
    BY DEF UpdateScan, Candidates
  <2> QED
    BY <2>2, <2>3, <2>4, <2>5
<1>2. CASE UpdateForget
  BY <1>2 DEF UpdateForget
<1>3. CASE UpdateRemove
  <2>1. upd.count - Cardinality(upd.targets) \in Int
    BY Countable
  <2>2. SetTypes'
    BY <1>3, <2>1 DEF UpdateRemove, Removed
  <2>3. RegistrationSound' /\ RemoverSound' /\ HandlerSound' /\ AddSound'
    BY <1>3 DEF UpdateRemove, Removed
  <2>4. ListingComplete' /\ ListingFresh'
    BY <1>3 DEF UpdateRemove, Removed
  <2>5. StateFresh' /\ PoolNodesSeen'
    BY <1>3 DEF UpdateRemove, Removed
  <2>6. RemovesStrangersOnly' /\ SparesStarting'
    BY <1>3 DEF UpdateRemove
  <2> QED
    BY <2>2, <2>3, <2>4, <2>5, <2>6
<1>4. CASE \E a \in Adders : UpdateGrow(a)
  BY <1>4 DEF UpdateGrow, IdleUpdate
<1>5. CASE UpdateEnough
  BY <1>5 DEF UpdateEnough, IdleUpdate
<1> QED
  BY <1>1, <1>2, <1>3, <1>4, <1>5 DEF UpdateNode

\* The goroutines touch nothing of this; what is launched has not registered.
LEMMA AdderSteps ==
  ASSUME IInv,
         NEW a \in Adders,
         \/ \E i \in Instances : Launch(a, i)
         \/ CtxEnds(a) \/ AddReturns(a) \/ AddDelete(a)
  PROVE  IInv'
<1>1. CASE CtxEnds(a)
  BY <1>1 DEF CtxEnds
<1>2. CASE AddReturns(a)
  BY <1>2 DEF AddReturns
<1>3. CASE AddDelete(a)
  BY <1>3 DEF AddDelete
<1>4. CASE \E i \in Instances : Launch(a, i)
  BY <1>4 DEF Launch
<1> QED
  BY <1>1, <1>2, <1>3, <1>4

\* The collector's removal, likewise.
LEMMA RemoveSteps ==
  ASSUME IInv,
         (\E S \in SUBSET nodes : RemoveForget(S)) \/ RemoveReturn
  PROVE  IInv'
<1>1. CASE \E S \in SUBSET nodes : RemoveForget(S)
  <2> PICK S \in SUBSET nodes : RemoveForget(S)
    BY <1>1
  <2>1. SetTypes' /\ RegistrationSound' /\ HandlerSound'
    BY DEF RemoveForget
  <2>2. AddSound'
    BY DEF RemoveForget
  <2>3. ListingComplete' /\ ListingFresh'
    BY DEF RemoveForget
  <2>4. StateFresh' /\ PoolNodesSeen'
    BY DEF RemoveForget
  <2>5. RemovesStrangersOnly' /\ SparesStarting' /\ RemoverSound'
    BY DEF RemoveForget
  <2> QED
    BY <2>1, <2>2, <2>3, <2>4, <2>5
<1>2. CASE RemoveReturn
  BY <1>2 DEF RemoveReturn, Removed, IdleRemove
<1> QED
  BY <1>1, <1>2

\* Nothing happens.
LEMMA StutterStep ==
  ASSUME IInv, UNCHANGED vars
  PROVE  IInv'
BY DEF vars

HIDE InstanceAssumption
     DEF IInv, SetTypes, RegistrationSound, RemoverSound, HandlerSound,
        AddSound, ListingComplete, ListingFresh, StateFresh,
        PoolNodesSeen, RemovesStrangersOnly, SparesStarting, Live, Doomed,
        cloud, state

\* Every step preserves the invariant.
LEMMA NextSound == IInv /\ [Next]_vars => IInv'
<1> SUFFICES ASSUME IInv, [Next]_vars
             PROVE  IInv'
  OBVIOUS
<1>1. CASE UNCHANGED vars
  BY <1>1, StutterStep
<1>2. CASE \E i \in Instances : Register(i) \/ Die(i)
  BY <1>2, CloudSteps
<1>3. CASE \E i \in Instances, up \in BOOLEAN : NodeEvent(i, up)
  BY <1>3, HandlerSteps
<1>4. CASE IsNodeExists \/ AddNode
  BY <1>4, HandlerSteps, InstallStep DEF IsNodeExists
<1>5. CASE (\E k \in 0..MaxGrow : UpdateScan(k)) \/ UpdateNode
  BY <1>5, UpdateSteps
<1>6. CASE \E a \in Adders : \/ \E i \in Instances : Launch(a, i)
                             \/ CtxEnds(a) \/ AddReturns(a) \/ AddDelete(a)
  BY <1>6, AdderSteps
<1>7. CASE (\E S \in SUBSET nodes : RemoveForget(S)) \/ RemoveReturn
  BY <1>7, RemoveSteps
<1> QED
  BY <1>1, <1>2, <1>3, <1>4, <1>5, <1>6, <1>7 DEF Next

\* The state of the provider, the handler's question and the listing on its
\* way always fit together as IInv says (karpenter.go 82-270).
THEOREM InductiveInvariant == Spec => []IInv
BY InitSound, NextSound, PTL DEF Spec

-----------------------------------------------------------------------------
(* The goroutines that add instances. *)

\* AddInstances never delivers more than it was asked for.
GoroutinesSound ==
  /\ adder \in [Adders -> Goroutine]
  /\ \A a \in Adders : adder[a].got <= adder[a].left

\* What the entries of p.incephemeral add up to is a natural number.
LEMMA PendingType ==
  ASSUME adder \in [Adders -> Goroutine]
  PROVE  Pending \in Nat
<1> DEFINE Asked(a) == {a} \X (1..adder[a].inc)
           All == {Asked(a) : a \in Adders}
<1>1. IsFiniteSet(All)
  <2> HIDE DEF Asked
  <2>1. [a \in Adders |-> Asked(a)] \in Surjection(Adders, All)
    BY DEF Surjection
  <2> QED
    BY <2>1, AdderAssumption, FS_Surjection
<1>2. \A T \in All : IsFiniteSet(T)
  <2> SUFFICES ASSUME NEW a \in Adders
               PROVE  IsFiniteSet(Asked(a))
    OBVIOUS
  <2>1. IsFiniteSet(1..adder[a].inc)
    BY FS_Interval DEF Goroutine
  <2>2. IsFiniteSet({a})
    BY FS_Singleton
  <2> QED
    BY <2>1, <2>2, FS_Product
<1>3. Cardinality(UNION All) \in Nat
  BY <1>1, <1>2, FS_UNION, FS_CardinalityType
<1> QED
  BY <1>3 DEF Pending

\* A goroutine that is started has something to ask for, and what it has got
\* by the time AddInstances returns is taken off.
LEMMA GoroutineStep ==
  ASSUME IInv, GoroutinesSound, [Next]_vars
  PROVE  GoroutinesSound'
<1>1. CASE \E a \in Adders : UpdateGrow(a)
  <2> PICK a \in Adders : UpdateGrow(a)
    BY <1>1
  <2>1. Increment \in Nat
    BY PendingType DEF UpdateGrow, Grows, Increment, IInv, SetTypes,
                       GoroutinesSound
  <2>2. [pc |-> "add", inc |-> Increment, left |-> Increment, got |-> 0,
         ctx |-> FALSE] \in Goroutine
    BY <2>1 DEF Goroutine
  <2> QED
    BY <2>1, <2>2 DEF UpdateGrow, GoroutinesSound
<1>2. CASE \E a \in Adders, i \in Instances : Launch(a, i)
  BY <1>2 DEF Launch, GoroutinesSound, Goroutine
<1>3. CASE \E a \in Adders : CtxEnds(a) \/ AddReturns(a)
  <2> PICK a \in Adders : CtxEnds(a) \/ AddReturns(a)
    BY <1>3
  <2>1. CASE CtxEnds(a)
    BY <2>1 DEF CtxEnds, GoroutinesSound, Goroutine
  <2>2. CASE AddReturns(a)
    <3>1. adder[a].left - adder[a].got \in Nat
      BY DEF GoroutinesSound, Goroutine
    <3>2. /\ \A b \in Adders \ {a} : adder'[b] = adder[b]
          /\ DOMAIN adder' = Adders /\ adder' = [b \in Adders |-> adder'[b]]
      BY <2>2 DEF AddReturns, GoroutinesSound
    <3>3. adder[a] \in Goroutine
      BY DEF GoroutinesSound
    <3>4. adder'[a] = [pc |-> IF Finished(a) THEN "delete" ELSE "add",
                       inc |-> adder[a].inc,
                       left |-> adder[a].left - adder[a].got,
                       got |-> 0, ctx |-> adder[a].ctx]
      BY <2>2, <3>3 DEF AddReturns, GoroutinesSound, Goroutine
    <3>5. adder'[a] \in Goroutine /\ adder'[a].got <= adder'[a].left
      BY <3>1, <3>3, <3>4 DEF Goroutine
    <3> QED
      BY <3>2, <3>5 DEF GoroutinesSound
  <2> QED
    BY <2>1, <2>2
<1>4. CASE \E a \in Adders : AddDelete(a)
  BY <1>4 DEF AddDelete, NoAdder, GoroutinesSound, Goroutine
<1>5. CASE UNCHANGED adder
  BY <1>5 DEF GoroutinesSound
<1>6. \/ UNCHANGED adder
      \/ \E a \in Adders : \/ UpdateGrow(a) \/ \E i \in Instances : Launch(a, i)
                           \/ CtxEnds(a) \/ AddReturns(a) \/ AddDelete(a)
  BY DEF Next, vars, IsNodeExists, UpdateNode, Register, Die, NodeEvent, AskState,
         AskPlugin, ListAnswer, Install, AddNode, UpdateScan, UpdateForget,
         UpdateRemove, UpdateEnough, RemoveForget, RemoveReturn
<1> QED
  BY <1>1, <1>2, <1>3, <1>4, <1>5, <1>6

\* Every variable keeps its type: however the counts of an UpdateNode go wrong,
\* no goroutine is started for a negative number of instances, and none gets
\* more than it asked for (karpenter.go 258-305).
THEOREM TypeCorrect == Spec => []TypeOK
<1>1. Init => GoroutinesSound
  BY DEF Init, NoAdder, GoroutinesSound, Goroutine
<1>2. IInv /\ GoroutinesSound /\ [Next]_vars => GoroutinesSound'
  BY GoroutineStep
<1>3. IInv /\ GoroutinesSound => TypeOK
  BY DEF IInv, GoroutinesSound, TypeOK
<1> QED
  BY <1>1, <1>2, <1>3, InductiveInvariant, PTL DEF Spec

-----------------------------------------------------------------------------
(* What the state says of the instances. *)

\* No listing, however late it is installed, loses a live node of the pool:
\* it stays in p.state, marked as seen (karpenter.go 173-185, 243-251).
THEOREM SeenForever == Spec => []PoolNodesSeen
<1>1. IInv => PoolNodesSeen
  BY DEF IInv
<1> QED
  BY <1>1, InductiveInvariant, PTL

\* A live node is turned away only if it registered while the provider was
\* created or if it is being removed (karpenter.go 111, 145, 157-183).
THEOREM NoRejection == Spec => RejectsNoLiveNode
<1>1. IInv /\ [Next]_vars => [NoLiveNodeRejected]_vars
  <2> SUFFICES ASSUME IInv, Next, h.pc \in {"ask", "install"}, h.up,
                      h'.pc = "idle"
               PROVE  h.inst \in missed \cup Doomed \/ h.inst \notin Live
    BY DEF NoLiveNodeRejected
  <2>1. AskState \/ Install
    BY DEF Next, IsNodeExists, UpdateNode, Register, Die, Launch, NodeEvent,
       AskPlugin, ListAnswer, AddNode, UpdateScan, UpdateForget, UpdateRemove,
       UpdateGrow, UpdateEnough, CtxEnds, AddReturns, AddDelete, RemoveForget,
       RemoveReturn, IInv, SetTypes
  <2>2. CASE AskState
    BY <2>2 DEF AskState, Answer, IInv, SetTypes, StateFresh, HandlerSound
  <2>3. CASE Install
    BY <2>3 DEF Install, Answer, IInv, SetTypes, ListingFresh, HandlerSound
  <2> QED
    BY <2>1, <2>2, <2>3
<1> QED
  BY <1>1, InductiveInvariant, PTL DEF Spec, RejectsNoLiveNode

-----------------------------------------------------------------------------
(* The contract: every step is a step of NodeProvider or none at all.      *)

\* What a step of the contract may change stays as it is.
LEMMA NoContractStep ==
  ASSUME UNCHANGED <<status, reg, nodes>>, UNCHANGED <<upd, rem>>
  PROVE  UNCHANGED Contract!vars
BY DEF Contract!vars, Caller, Doomed

\* The cloud launches, stops and registers instances.
LEMMA CloudContract ==
  ASSUME IInv, NEW i \in Instances,
         \/ Register(i) \/ Die(i) \/ \E a \in Adders : Launch(a, i)
  PROVE  Contract!Next
<1>1. UNCHANGED <<nodes, Caller, Doomed>>
  BY DEF Register, Die, Launch, Caller, Doomed
<1>2. CASE Register(i)
  <2>1. Contract!Join(i)
    BY <1>1, <1>2 DEF Register, Contract!Join, Live
  <2> QED
    BY <2>1 DEF Contract!Next
<1>3. CASE Die(i)
  <2>1. Contract!Fail(i)
    BY <1>1, <1>3 DEF Die, Contract!Fail, Live
  <2> QED
    BY <2>1 DEF Contract!Next
<1>4. CASE \E a \in Adders : Launch(a, i)
  <2>1. Contract!Launch(i)
    BY <1>1, <1>4 DEF Launch, Contract!Launch
  <2> QED
    BY <2>1 DEF Contract!Next
<1> QED
  BY <1>2, <1>3, <1>4

\* Nodes enter and leave the pool only while its lock is free.
LEMMA PoolContract ==
  ASSUME IInv,
         (\E i \in Instances, up \in BOOLEAN : NodeEvent(i, up)) \/ AddNode
  PROVE  Contract!Next \/ UNCHANGED Contract!vars
<1>1. /\ UNCHANGED <<status, reg, Doomed, Caller>> /\ Caller # "update"
  BY DEF NodeEvent, AddNode, cloud, PoolLock, Doomed, Caller
<1>2. CASE \E i \in Instances, up \in BOOLEAN : NodeEvent(i, up)
  <2> PICK i \in Instances, up \in BOOLEAN : NodeEvent(i, up)
    BY <1>2
  <2>1. CASE up
    BY <1>1, <2>1 DEF NodeEvent, Contract!vars
  <2>2. CASE ~up
    <3>1. Contract!Leave(i)
      BY <1>1, <2>2 DEF NodeEvent, Contract!Leave
    <3> QED
      BY <3>1 DEF Contract!Next
  <2> QED
    BY <2>1, <2>2
<1>3. CASE AddNode
  <2>1. h.inst \in reg /\ h.inst \in Instances
    BY <1>3 DEF AddNode, IInv, HandlerSound, SetTypes
  <2>2. Contract!Enter(h.inst)
    BY <1>1, <1>3, <2>1 DEF AddNode, Contract!Enter
  <2> QED
    BY <2>1, <2>2 DEF Contract!Next
<1> QED
  BY <1>2, <1>3

\* A call condemns strangers or nodes of the pool ...
LEMMA CallContract ==
  ASSUME IInv,
         \/ \E k \in 0..MaxGrow : UpdateScan(k)
         \/ \E S \in SUBSET nodes : RemoveForget(S)
  PROVE  Contract!Next
<1>1. CASE \E k \in 0..MaxGrow : UpdateScan(k)
  <2> PICK k \in 0..MaxGrow : UpdateScan(k)
    BY <1>1
  <2> DEFINE S == seen \ nodes
  <2>1. S \subseteq reg \ nodes /\ S \in SUBSET Instances
    BY DEF IInv, RegistrationSound, SetTypes
  <2>2. /\ Caller = "nobody" /\ rem.pc = "idle" /\ rem.targets = {}
        /\ UNCHANGED <<status, reg, nodes, rem>>
    BY DEF UpdateScan, Caller, IInv, RemoverSound, cloud
  <2>3. upd'.pc \in {"grow", "forget"} /\ upd'.targets = S
        /\ (upd'.pc = "grow" => S = {})
    BY DEF UpdateScan, Candidates
  <2>4. Caller' = "update" /\ Doomed' = S
    BY <2>2, <2>3 DEF Caller, Doomed
  <2>5. Contract!Update(S)
    BY <2>1, <2>2, <2>4 DEF Contract!Update
  <2> QED
    BY <2>1, <2>5 DEF Contract!Next
<1>2. CASE \E S \in SUBSET nodes : RemoveForget(S)
  <2> PICK S \in SUBSET nodes : RemoveForget(S)
    BY <1>2
  <2>1. S \in SUBSET Instances
    BY DEF IInv, SetTypes
  <2>2. /\ Caller = "nobody" /\ Caller' = "remove" /\ Doomed' = S
        /\ UNCHANGED <<status, reg, nodes>>
    BY DEF RemoveForget, Caller, Doomed, cloud
  <2>3. Contract!Remove(S)
    BY <2>2 DEF Contract!Remove
  <2> QED
    BY <2>1, <2>3 DEF Contract!Next
<1> QED
  BY <1>1, <1>2

\* ... and stops none but them.
LEMMA StopContract ==
  ASSUME IInv, UpdateNode \/ RemoveReturn
  PROVE  Contract!Next \/ UNCHANGED Contract!vars
<1>1. CASE UpdateForget
  BY <1>1 DEF UpdateForget, Contract!vars, Caller, Doomed, cloud
<1>2. CASE UpdateRemove
  <2>1. /\ upd.targets \in SUBSET Instances /\ upd.targets \subseteq Doomed
        /\ rem.pc = "idle" => rem.targets = {}
    BY <1>2 DEF UpdateRemove, Doomed, IInv, SetTypes, RemoverSound
  <2>2. Caller = "update" /\ Caller' = "update"
    BY <1>2 DEF UpdateRemove, Caller, IInv, SetTypes
  <2>3. Doomed' = {}
    BY <1>2, <2>1 DEF UpdateRemove, Doomed, IInv, RemoverSound
  <2>4. Contract!Stop(upd.targets)
    BY <1>2, <2>1, <2>2, <2>3 DEF UpdateRemove, Removed, Contract!Stop
  <2> QED
    BY <2>1, <2>4 DEF Contract!Next
<1>3. CASE UpdateEnough \/ \E a \in Adders : UpdateGrow(a)
  <2>1. /\ Doomed = {} /\ Doomed' = {} /\ Caller' = "nobody"
        /\ UNCHANGED <<status, reg, nodes>>
    BY <1>3 DEF UpdateEnough, UpdateGrow, IdleUpdate, Doomed, Caller, cloud,
       IInv, RemoverSound
  <2>2. status = [i \in Instances |-> IF i \in {} THEN "gone" ELSE status[i]]
    BY DEF IInv, SetTypes
  <2>3. Contract!Stop({})
    BY <2>1, <2>2 DEF Contract!Stop
  <2> QED
    BY <2>3 DEF Contract!Next
<1>4. CASE RemoveReturn
  <2>1. /\ rem.targets \in SUBSET Instances /\ rem.targets \subseteq Doomed
        /\ upd.pc = "idle"
    BY <1>4 DEF RemoveReturn, Doomed, IInv, SetTypes, RemoverSound
  <2>2. Caller' = "nobody" /\ Doomed' = {}
    BY <1>4, <2>1 DEF RemoveReturn, IdleRemove, Caller, Doomed
  <2>3. Contract!Stop(rem.targets)
    BY <1>4, <2>1, <2>2 DEF RemoveReturn, Removed, Contract!Stop
  <2> QED
    BY <2>1, <2>3 DEF Contract!Next
<1> QED
  BY <1>1, <1>2, <1>3, <1>4 DEF UpdateNode

\* The provider does to the pool and to the instances only what the contract
\* of a node provider allows (karpenter.go 149-306, pool.go 281-330, 431-446).
THEOREM Refinement == Spec => ImplementsProvider
<1>1. Init => Contract!Init
  <2> SUFFICES ASSUME Init
               PROVE  Contract!Init
    OBVIOUS
  <2>1. Caller = "nobody" /\ Doomed = {}
    BY DEF Init, IdleUpdate, IdleRemove, Caller, Doomed
  <2>2. /\ reg \in SUBSET {i \in Instances : status[i] = "live"}
        /\ status \in [Instances -> {"none", "live"}] /\ nodes = {}
    BY InstanceAssumption DEF Init
  <2> QED
    BY <2>1, <2>2 DEF Contract!Init
<1>2. IInv /\ [Next]_vars => [Contract!Next]_(Contract!vars)
  <2> SUFFICES ASSUME IInv, [Next]_vars
               PROVE  Contract!Next \/ UNCHANGED Contract!vars
    OBVIOUS
  <2>1. CASE UNCHANGED vars
    BY <2>1, NoContractStep DEF vars, cloud
  <2>2. CASE IsNodeExists
    BY <2>2, NoContractStep DEF IsNodeExists, AskState, AskPlugin, ListAnswer,
       Install, cloud
  <2>3. CASE \E a \in Adders : CtxEnds(a) \/ AddReturns(a) \/ AddDelete(a)
    BY <2>3, NoContractStep DEF CtxEnds, AddReturns, AddDelete, cloud
  <2> QED
    BY <2>1, <2>2, <2>3, CloudContract, PoolContract, CallContract,
       StopContract DEF Next
<1> QED
  BY <1>1, <1>2, InductiveInvariant, PTL
     DEF Spec, ImplementsProvider, Contract!Spec
=============================================================================
