------------------------------ MODULE PoolProofs ------------------------------
(***************************************************************************)
(* Theorems about Pool, for every set of scaling threads, WarmUp           *)
(* goroutines, nodes and allocations.                                      *)
(*                                                                         *)
(* The locks: ReadersSound says who holds updrmvlock, SectionsSound who    *)
(* holds p.lock over several actions, SubsSound how far a subscriber is.   *)
(*                                                                         *)
(* The books: whose the ephemerals are (EphemeralsOwned) and what each     *)
(* scale-up has counted of its own (CountsSound).  They rest on the locks: *)
(* a match cannot fall between the steps of an Update that hold p.lock.    *)
(***************************************************************************)
EXTENDS Pool, TLAPS, FiniteSetTheorems, FunctionTheorems, SequenceTheorems

-----------------------------------------------------------------------------
(* The lists of ephemerals. *)

\* Taking members out of a list: what is left, and listed once if it was so
\* before.  The places of the kept positions are 1, 2, ... without a gap, for
\* they are as many as there are places and no two have the same.
LEMMA MinusLemma ==
  ASSUME NEW T, NEW s \in Seq(T), NEW S
  PROVE  /\ Minus(s, S) \in Seq(T)
         /\ Range(Minus(s, S)) = Range(s) \ S
         /\ IsInjective(s) => IsInjective(Minus(s, S))
<1> DEFINE keep == {i \in DOMAIN s : s[i] \notin S}
           upto(i) == {j \in keep : j <= i}
           place(i) == Cardinality(upto(i))
           n == Cardinality(keep)
           at(k) == CHOOSE i \in keep : place(i) = k
           F == [i \in keep |-> place(i)]
<1>1. Minus(s, S) = [k \in 1..n |-> s[at(k)]]
  BY DEF Minus
<1>2. keep \subseteq DOMAIN s /\ \A i \in DOMAIN s : i \in keep <=> s[i] \notin S
  OBVIOUS
<1>3. DOMAIN s = 1..Len(s) /\ Len(s) \in Nat
  BY LenProperties
<1> HIDE DEF keep
<1>4. IsFiniteSet(keep) /\ n \in Nat
  <2>1. keep \in SUBSET (1..Len(s)) /\ IsFiniteSet(1..Len(s))
    BY <1>2, <1>3, FS_Interval
  <2> QED
    BY <2>1, FS_Subset, FS_CardinalityType
<1>5. ASSUME NEW i \in keep
      PROVE  /\ IsFiniteSet(upto(i)) /\ i \in upto(i)
             /\ place(i) \in 1..n
  <2>1. upto(i) \in SUBSET keep /\ i \in upto(i)
    BY <1>2, <1>3
  <2> HIDE DEF upto
  <2>2. IsFiniteSet(upto(i)) /\ place(i) <= n /\ place(i) \in Nat
    BY <1>4, <2>1, FS_Subset, FS_CardinalityType
  <2>3. place(i) # 0
    BY <2>1, <2>2, FS_EmptySet
  <2> HIDE DEF n, place
  <2> QED
    BY <1>4, <2>1, <2>2, <2>3
<1>6. ASSUME NEW i \in keep, NEW j \in keep, i < j
      PROVE  place(i) < place(j)
  <2>1. upto(i) \in SUBSET upto(j) /\ j \notin upto(i)
    BY <1>2, <1>3, <1>6
  <2>2. j \in upto(j) /\ IsFiniteSet(upto(j))
    BY <1>5
  <2> HIDE DEF upto
  <2>3. place(i) <= place(j) /\ (place(j) = place(i) => upto(j) = upto(i))
    BY <2>1, <2>2, FS_Subset
  <2>4. place(i) \in 1..n /\ place(j) \in 1..n
    BY <1>5
  <2> HIDE DEF place
  <2> QED
    BY <1>4, <2>1, <2>2, <2>3, <2>4
<1> HIDE DEF place
<1>7. \A i, j \in keep : place(i) = place(j) => i = j
  <2> HIDE DEF n, upto
  <2>1. \A i \in keep : i \in Nat /\ place(i) \in 1..n
    <3>1. \A i \in keep : i \in 1..Len(s)
      BY <1>2, <1>3
    <3> QED
      BY <1>3, <1>5, <3>1
  <2> QED
    BY <1>4, <1>6, <2>1
<1>8. F \in Injection(keep, 1..n)
  <2>1. F \in [keep -> 1..n]
    BY <1>5
  <2> QED
    BY <1>7, <2>1, Fun_IsInj
<1>9. \A k \in 1..n : \E i \in keep : place(i) = k
  <2>1. Cardinality(1..n) = n /\ IsFiniteSet(1..n)
    BY <1>4, FS_Interval
  <2>2. F \in Surjection(keep, 1..n)
    BY <1>8, <2>1, FS_Injection
  <2>3. \A i \in keep : F[i] = place(i)
    OBVIOUS
  <2> HIDE DEF F, n
  <2>4. \A k \in 1..n : \E i \in keep : F[i] = k
    BY <2>2 DEF Surjection
  <2> QED
    BY <2>3, <2>4
<1>10. \A k \in 1..n : at(k) \in keep /\ place(at(k)) = k
  BY <1>9
<1>11. \A i \in keep : i = at(place(i))
  BY <1>5, <1>7, <1>10
<1> HIDE DEF n, at
<1>12. Minus(s, S) \in Seq(T)
  <2>1. \A k \in 1..n : s[at(k)] \in T
    BY <1>2, <1>3, <1>10, ElementOfSeq
  <2>2. Minus(s, S) \in [1..n -> T]
    BY <1>1, <2>1
  <2> QED
    BY <1>4, <2>2, SeqDef
<1>13. Range(Minus(s, S)) = Range(s) \ S
  <2>1. ASSUME NEW x \in Range(Minus(s, S))
        PROVE  x \in Range(s) \ S
    <3>1. PICK k \in 1..n : x = s[at(k)]
      BY <1>1, <2>1 DEF Range
    <3> QED
      BY <1>2, <1>10, <3>1 DEF Range
  <2>2. ASSUME NEW x \in Range(s) \ S
        PROVE  x \in Range(Minus(s, S))
    <3>1. PICK i \in DOMAIN s : x = s[i]
      BY <2>2 DEF Range
    <3>2. i \in keep /\ place(i) \in 1..n /\ i = at(place(i))
      BY <1>2, <1>5, <1>11, <2>2, <3>1
    <3> QED
      BY <1>1, <3>1, <3>2 DEF Range
  <2> QED
    BY <2>1, <2>2
<1>14. ASSUME IsInjective(s), NEW k \in 1..n, NEW l \in 1..n,
              s[at(k)] = s[at(l)]
       PROVE  k = l
  <2>1. at(k) = at(l)
    BY <1>2, <1>10, <1>14 DEF IsInjective
  <2> QED
    BY <1>10, <2>1
<1> QED
  BY <1>1, <1>12, <1>13, <1>14 DEF IsInjective

\* Adding to a list what is not on it.
LEMMA AddLemma ==
  ASSUME NEW T, NEW s \in Seq(T), NEW b \in Seq(T)
  PROVE  /\ s \o b \in Seq(T)
         /\ Range(s \o b) = Range(s) \cup Range(b)
         /\ IsInjective(s) /\ IsInjective(b) /\ Range(s) \cap Range(b) = {}
              => IsInjective(s \o b)
<1>1. s \o b \in Seq(T) /\ Range(s \o b) = Range(s) \cup Range(b)
  BY ConcatProperties, RangeConcatenation
<1>2. ASSUME IsInjective(s), IsInjective(b), Range(s) \cap Range(b) = {},
             NEW i \in DOMAIN (s \o b), NEW j \in DOMAIN (s \o b),
             (s \o b)[i] = (s \o b)[j]
      PROVE  i = j
  <2>1. /\ i \in 1..(Len(s) + Len(b)) /\ j \in 1..(Len(s) + Len(b))
        /\ Len(s) \in Nat /\ Len(b) \in Nat
        /\ DOMAIN s = 1..Len(s) /\ DOMAIN b = 1..Len(b)
    BY ConcatProperties, LenProperties
  <2>2. \A k \in 1..(Len(s) + Len(b)) :
          (s \o b)[k] = IF k <= Len(s) THEN s[k] ELSE b[k - Len(s)]
    BY ConcatProperties
  <2> DEFINE c == s \o b
  <2>3. /\ \A k \in DOMAIN s : s[k] \in Range(s)
        /\ \A k \in DOMAIN b : b[k] \in Range(b)
    BY DEF Range
  <2>4. c[i] = c[j]
    BY <1>2
  <2> HIDE DEF c
  <2>5. \A k \in 1..(Len(s) + Len(b)) :
          \/ k \in DOMAIN s /\ c[k] = s[k]
          \/ k - Len(s) \in DOMAIN b /\ c[k] = b[k - Len(s)]
    BY <2>1, <2>2 DEF c
  <2>6. CASE i \in DOMAIN s /\ c[i] = s[i]
    BY <1>2, <2>1, <2>3, <2>4, <2>5, <2>6 DEF IsInjective
  <2>7. CASE i - Len(s) \in DOMAIN b /\ c[i] = b[i - Len(s)]
    BY <1>2, <2>1, <2>3, <2>4, <2>5, <2>7 DEF IsInjective
  <2> QED
    BY <2>1, <2>5, <2>6, <2>7
<1> QED
  BY <1>1, <1>2 DEF IsInjective

\* The entries of a batch carry their owner and are numbered.
LEMMA BatchLemma ==
  ASSUME NEW t \in Threads, NEW n \in Nat
  PROVE  /\ Batch(t, n) \in Seq({<<t, i>> : i \in 1..n})
         /\ Range(Batch(t, n)) = {<<t, i>> : i \in 1..n}
         /\ IsInjective(Batch(t, n))
         /\ IsFiniteSet(Range(Batch(t, n)))
         /\ Cardinality(Range(Batch(t, n))) = n
<1>1. Batch(t, n) \in Seq({<<t, i>> : i \in 1..n})
  BY IsASeq DEF Batch
<1>2. Range(Batch(t, n)) = {<<t, i>> : i \in 1..n}
  BY DEF Batch, Range
<1>3. IsInjective(Batch(t, n))
  BY DEF Batch, IsInjective
<1>4. Batch(t, n) \in Bijection(1..n, Range(Batch(t, n)))
  <2>1. Batch(t, n) \in [1..n -> Range(Batch(t, n))]
    BY DEF Batch, Range
  <2> QED
    BY <1>3, <2>1, Fun_IsBij DEF IsInjective, Range
<1>5. IsFiniteSet(1..n) /\ Cardinality(1..n) = n
  BY FS_Interval
<1> QED
  BY <1>1, <1>2, <1>3, <1>4, <1>5, FS_Bijection DEF ExistsBijection

-----------------------------------------------------------------------------
(* The locks. *)

\* The variables the locks depend on.
Shape ==
  /\ pc \in [Threads -> {"idle", "rlock", "provider", "wait", "close", "clean"}]
  /\ wpc \in [Warmers -> {"idle", "provider", "wait", "close"}]
  /\ remover \in {"idle", "waiting", "locked"}
  /\ readers \subseteq Threads \cup Warmers
  /\ nodeSubs \subseteq Threads \cup Warmers
  /\ allocSubs \subseteq Threads
  /\ DOMAIN nh = {"pc", "count", "pending"}
  /\ DOMAIN ah = {"pc", "alloc", "run", "eph", "pending"}

\* The readers are the scale-ups and WarmUps under way.
ReadersSound ==
  /\ \A t \in Threads : t \in readers <=> t \in InUpdate
  /\ \A w \in Warmers : w \in readers <=> wpc[w] # "idle"
  /\ remover = "locked" => readers = {}

\* p.lock is held over several actions by who publishes or calls the
\* provider.
SectionsSound ==
  /\ lock = "nodes" <=> nh.pc = "send"
  /\ lock = "allocs" <=> ah.pc = "send"
  /\ \A t \in Threads : lock = t <=> pc[t] = "provider"
  /\ \A w \in Warmers : lock = w <=> wpc[w] = "provider"

\* An Update subscribes when the provider has answered, a WarmUp before.
SubsSound ==
  /\ \A t \in Threads : t \in nodeSubs \cup allocSubs => pc[t] \in {"wait", "close"}
  /\ \A w \in Warmers : w \in nodeSubs => wpc[w] # "idle"

IInv == Shape /\ ReadersSound /\ SectionsSound /\ SubsSound

\* A subscriber a publisher has yet to serve waits for it or is about to
\* close its monitor, so that the send or the skip will come through: none
\* of them is still in a call of the provider, which the publisher, who holds
\* p.lock, would have to outwait.
SubscribersServed ==
  /\ nh.pc = "send" =>
       \A p \in nh.pending \cap nodeSubs :
         \/ p \in Threads /\ pc[p] \in {"wait", "close"}
         \/ p \in Warmers /\ wpc[p] \in {"wait", "close"}
  /\ ah.pc = "send" =>
       \A t \in ah.pending \cap allocSubs :
         t \in Threads /\ pc[t] \in {"wait", "close"}

\* The lemmas on single steps look into the invariant and its parts.
USE NamesAssumption
    DEF IInv, Shape, ReadersSound, SectionsSound, SubsSound, InUpdate, lockVars,
        dataVars, subVars, threadVars

\* A handler that is done is at no lock.
LEMMA IdleFacts ==
  /\ DOMAIN IdleNode = {"pc", "count", "pending"} /\ IdleNode.pc = "idle"
  /\ DOMAIN IdleAlloc = {"pc", "alloc", "run", "eph", "pending"}
  /\ IdleAlloc.pc = "idle"
BY Zenon DEF IdleNode, IdleAlloc

LEMMA InitSound == Init => IInv
BY IdleFacts DEF Init

\* The handler of node events takes p.lock to publish.
LEMMA NodeSteps ==
  ASSUME IInv,
         NodeStep \/ \E n \in Nodes : NodeUp(n) \/ NodeDown(n)
  PROVE  IInv'
<1>1. CASE \E n \in Nodes : NodeUp(n) \/ NodeDown(n)
  <2>1. UNCHANGED <<lockVars, subVars, ah, pc, wpc>>
    BY <1>1 DEF NodeUp, NodeDown
  <2>2. /\ DOMAIN nh' = {"pc", "count", "pending"}
        /\ nh.pc = "idle" /\ nh'.pc \in {"idle", "publish"}
    BY <1>1 DEF NodeUp, NodeDown
  <2> QED
    BY <2>1, <2>2
<1>2. CASE NodePublish
  BY <1>2 DEF NodePublish
<1>3. CASE NodePublished
  BY <1>3, IdleFacts DEF NodePublished, NodeDone
<1>4. CASE \E p \in Threads \cup Warmers : NodeSkipClosed(p)
  BY <1>4 DEF NodeSkipClosed
<1>5. CASE \E t \in Threads : NodeSendUpdate(t)
  BY <1>5 DEF NodeSendUpdate
<1>6. CASE \E w \in Warmers : NodeSendWarmUp(w)
  BY <1>6 DEF NodeSendWarmUp
<1> QED
  BY <1>1, <1>2, <1>3, <1>4, <1>5, <1>6 DEF NodeStep

\* So does the handler of allocation events.
LEMMA AllocSteps ==
  ASSUME IInv,
         AllocStep \/ \E a \in Allocs, run \in BOOLEAN : AllocEvent(a, run)
  PROVE  IInv'
<1>1. CASE \E a \in Allocs, run \in BOOLEAN : AllocEvent(a, run)
  <2>1. PICK a \in Allocs, run \in BOOLEAN : AllocEvent(a, run)
    BY <1>1
  <2>2. ah' = [IdleAlloc EXCEPT !.pc = "apply", !.alloc = a, !.run = run]
        /\ UNCHANGED <<lockVars, subVars, nh, pc, wpc>>
    BY <2>1 DEF AllocEvent
  <2>3. /\ DOMAIN ah' = {"pc", "alloc", "run", "eph", "pending"}
        /\ ah'.pc = "apply" /\ ah.pc = "idle"
    BY <2>1, <2>2, IdleFacts DEF AllocEvent
  <2> QED
    BY <2>2, <2>3
<1>2. CASE AllocRun
  BY <1>2 DEF AllocRun, IdleAlloc
<1>3. CASE AllocStop
  BY <1>3 DEF AllocStop, IdleAlloc
<1>4. CASE AllocMatch
  <2>1. lock = Free /\ UNCHANGED <<readers, remover, subVars, nh, pc, wpc>>
    BY <1>4 DEF AllocMatch
  <2>2. \/ lock' = lock /\ ah' = IdleAlloc
        \/ /\ lock' = "allocs"
           /\ \E e : ah' = [ah EXCEPT !.pc = "send", !.pending = allocSubs,
                                     !.eph = e]
    BY <1>4, Zenon DEF AllocMatch
  <2>3. /\ DOMAIN ah = {"pc", "alloc", "run", "eph", "pending"}
        /\ ah.pc = "match"
    BY <1>4 DEF AllocMatch
  <2>4. CASE lock' = lock /\ ah' = IdleAlloc
    BY <2>1, <2>3, <2>4, IdleFacts
  <2>5. CASE /\ lock' = "allocs"
             /\ \E e : ah' = [ah EXCEPT !.pc = "send", !.pending = allocSubs,
                                       !.eph = e]
    <3>1. ah'.pc = "send" /\ DOMAIN ah' = DOMAIN ah
      BY <2>3, <2>5
    <3> QED
      BY <2>1, <2>3, <2>5, <3>1
  <2> QED
    BY <2>2, <2>4, <2>5
<1>5. CASE AllocPublished
  BY <1>5, IdleFacts DEF AllocPublished
<1>6. CASE \E t \in Threads : AllocSkipClosed(t)
  BY <1>6 DEF AllocSkipClosed
<1>7. CASE \E t \in Threads : AllocSend(t)
  BY <1>7 DEF AllocSend
<1> QED
  BY <1>1, <1>2, <1>3, <1>4, <1>5, <1>6, <1>7 DEF AllocStep

\* A scaling thread is a reader from its call to its return.
LEMMA UpdateSteps ==
  ASSUME IInv, NEW t \in Threads,
         Estimate(t) \/ UpdateStep(t) \/ UpdateCtxDone(t)
  PROVE  IInv'
<1>1. CASE Estimate(t)
  <2>1. /\ pc' = [pc EXCEPT ![t] = "rlock"] /\ pc[t] = "idle"
        /\ UNCHANGED <<lockVars, subVars, nh, ah, wpc>>
    BY <1>1 DEF Estimate
  <2> QED
    BY <2>1
<1>2. CASE UpdateCall(t)
  BY <1>2 DEF UpdateCall, CanRLock
<1>3. CASE UpdateError(t)
  BY <1>3 DEF UpdateError, Return
<1>4. CASE UpdateSubscribe(t)
  BY <1>4 DEF UpdateSubscribe, WithAllocSub
<1>5. CASE UpdateTimeout(t) \/ UpdateCtxDone(t)
  BY <1>5 DEF UpdateTimeout, UpdateCtxDone
<1>6. CASE UpdateClose(t)
  BY <1>6 DEF UpdateClose
<1>7. CASE UpdateReturn(t)
  BY <1>7 DEF UpdateReturn, Return
<1> QED
  BY <1>1, <1>2, <1>3, <1>4, <1>5, <1>6, <1>7 DEF UpdateStep

\* A WarmUp likewise; RemoveNode is granted the lock without readers.
LEMMA CollectorSteps ==
  ASSUME IInv,
         \/ \E w \in Warmers : \/ \E n \in 1..MaxWarm : WarmUpCall(w, n)
                               \/ WarmUpWait(w) \/ WarmUpReturn(w)
         \/ RemoveCall \/ RemoveStep
  PROVE  IInv'
<1>1. CASE \E w \in Warmers : \E n \in 1..MaxWarm : WarmUpCall(w, n)
  BY <1>1 DEF WarmUpCall, CanRLock
<1>2. CASE \E w \in Warmers : WarmUpWait(w)
  BY <1>2 DEF WarmUpWait
<1>3. CASE \E w \in Warmers : WarmUpReturn(w)
  BY <1>3 DEF WarmUpReturn
<1>4. CASE RemoveCall \/ RemoveStep
  BY <1>4 DEF RemoveCall, RemoveStep, RemoveLock, RemoveReturn
<1> QED
  BY <1>1, <1>2, <1>3, <1>4

\* The invariant is inductive.
THEOREM InductiveInvariant == Spec => []IInv
<1>1. IInv /\ UNCHANGED vars => IInv'
  BY DEF vars
<1> HIDE DEF IInv
<1>2. IInv /\ [Next]_vars => IInv'
  BY <1>1, NodeSteps, AllocSteps, UpdateSteps, CollectorSteps DEF Next
<1> QED
  BY <1>2, InitSound, PTL DEF Spec

\* RemoveNode and a scale-up or WarmUp of the same pool exclude each other,
\* however many of them there are and in whatever order updrmvlock is asked
\* for (pool.go 276, 400, 432).
THEOREM RemovalExclusive == Spec => []RemoveExcludesUpdate
<1>1. IInv => RemoveExcludesUpdate
  BY DEF RemoveExcludesUpdate
<1> HIDE DEF IInv
<1> QED
  BY <1>1, InductiveInvariant, PTL

\* Critical sections of p.lock that block exclude each other, and whoever is
\* served in them is at its select or leaving (pool.go 140-153, 239-254,
\* 281-372, 403-426).
THEOREM PublishersServe == Spec => []SubscribersServed
<1>1. ASSUME IInv, nh.pc = "send", NEW p \in nh.pending \cap nodeSubs
      PROVE  \/ p \in Threads /\ pc[p] \in {"wait", "close"}
             \/ p \in Warmers /\ wpc[p] \in {"wait", "close"}
  <2>1. lock = "nodes" /\ p \in Threads \cup Warmers
    BY <1>1
  <2>2. p \in Warmers => wpc[p] # "idle" /\ wpc[p] # "provider"
    BY <1>1, <2>1
  <2> QED
    BY <1>1, <2>1, <2>2
<1>2. IInv => SubscribersServed
  BY <1>1 DEF SubscribersServed
<1> HIDE DEF IInv
<1> QED
  BY <1>2, InductiveInvariant, PTL
-----------------------------------------------------------------------------
(* The books a pool keeps of its scale-ups. *)

HIDE DEF IInv, Shape, ReadersSound, SectionsSound, SubsSound, InUpdate

\* What the variables hold; the nodes are finitely many.
Books ==
  /\ lock \in {Free, "nodes", "allocs"} \cup Threads \cup Warmers
  /\ nodes \subseteq Nodes /\ IsFiniteSet(nodes)
  /\ allocs \subseteq Allocs
  /\ ephNodes \in Seq(AllEph) /\ ephAllocs \in Seq(AllEph)
  /\ DOMAIN on \subseteq AllEph
  /\ en \in [Threads -> 0..Want]
  /\ nh.pc \in {"idle", "publish", "send"}
  /\ ah.pc \in {"idle", "apply", "match", "send"}
  /\ ah.pc = "apply" => ah.alloc \in Allocs
  /\ waitCount \in [Threads \cup Warmers -> Nat]
  /\ placed \in [Threads -> 0..Want]
  /\ timerOn \in [Threads -> BOOLEAN]

\* What of t's ephemeral allocations is on the list, and whether one that
\* was just taken off it is being published to t.
Left(t) == Cardinality(Range(ephAllocs) \cap EphAllocs(t))
Told(t) == IF ah.pc = "send" /\ t \in ah.pending /\ Mine(t) THEN 1 ELSE 0

\* An Update counts from nothing: all its ephemerals are on the list until
\* p.lock, which it holds over the provider's call, is released; by then it
\* subscribes.  And it is told of what goes off the list while it waits.
CountSound(t) ==
  /\ pc[t] \in {"idle", "rlock", "provider"} => placed[t] = 0
  /\ pc[t] = "provider" => EphAllocs(t) \subseteq Range(ephAllocs)
  /\ pc[t] = "wait" => t \in allocSubs /\ placed[t] + Left(t) + Told(t) = Want

CountsSound == \A t \in Threads : CountSound(t)

BooksInv == Books /\ EphemeralsOwned /\ CountsSound

\* The ephemerals of a scale-up are of its thread, and no other has them.
LEMMA EphLemma ==
  ASSUME NEW t \in Threads
  PROVE  /\ IsFiniteSet(EphAllocs(t)) /\ Cardinality(EphAllocs(t)) = Want
         /\ Batch(t, Want) \in Seq(AllEph) /\ Range(Batch(t, Want)) = EphAllocs(t)
         /\ EphAllocs(t) \subseteq AllEph
         /\ \A e \in EphAllocs(t) : e[1] = t
         /\ \A k \in 0..Want : /\ Batch(t, k) \in Seq(AllEph)
                               /\ IsInjective(Batch(t, k))
                               /\ Range(Batch(t, k)) \subseteq EphAllocs(t)
<1>1. Want \in Nat
  BY SizeAssumption
<1>2. \A e \in EphAllocs(t) : e \in AllEph /\ e[1] = t
  <2>1. EphAllocs(t) = {<<t, i>> : i \in 1..Want}
    BY <1>1, BatchLemma, Zenon DEF EphAllocs
  <2>2. EphAllocs(t) \subseteq AllEph
    BY Zenon DEF AllEph
  <2> QED
    BY <2>1, <2>2
<1>3. ASSUME NEW k \in 0..Want
      PROVE  /\ Range(Batch(t, k)) \subseteq EphAllocs(t)
             /\ Batch(t, k) \in Seq(AllEph) /\ IsInjective(Batch(t, k))
  <2>1. /\ Range(Batch(t, k)) = {<<t, i>> : i \in 1..k}
        /\ EphAllocs(t) = {<<t, i>> : i \in 1..Want}
        /\ Batch(t, k) \in Seq({<<t, i>> : i \in 1..k})
        /\ IsInjective(Batch(t, k))
    <3>1. k \in Nat
      BY <1>1
    <3> QED
      BY <1>1, <3>1, BatchLemma, Zenon DEF EphAllocs
  <2>2. 1..k \subseteq 1..Want
    BY <1>1
  <2>3. {<<t, i>> : i \in 1..k} \subseteq AllEph
    BY <1>2, <2>1, <2>2
  <2> QED
    BY <2>1, <2>2, <2>3, SeqMonotonic
<1>4. IsFiniteSet(EphAllocs(t)) /\ Cardinality(EphAllocs(t)) = Want
  BY <1>1, BatchLemma DEF EphAllocs
<1> QED
  BY <1>1, <1>2, <1>3, <1>4 DEF EphAllocs

\* How many are left of them is a number, whatever the list.
LEMMA LeftType ==
  ASSUME NEW t \in Threads, NEW S
  PROVE  /\ IsFiniteSet(S \cap EphAllocs(t))
         /\ Cardinality(S \cap EphAllocs(t)) \in Nat
BY EphLemma, FS_Intersection, FS_CardinalityType

\* At first there are no books.
LEMMA InitBooks == Init => BooksInv
<1> SUFFICES ASSUME Init
             PROVE  BooksInv
  OBVIOUS
<1>1. Books
  <2>1. <<>> \in Seq(AllEph) /\ DOMAIN <<>> = {}
    BY EmptySeq
  <2>2. IsFiniteSet({})
    BY FS_EmptySet
  <2> QED
    BY <2>1, <2>2, SizeAssumption, IdleFacts DEF Init, Books, IdleNode
<1>2. Range(ephNodes) = {} /\ Range(ephAllocs) = {}
      /\ IsInjective(ephNodes) /\ IsInjective(ephAllocs)
  BY DEF Init, Range, IsInjective
<1>3. CountsSound
  BY DEF Init, CountsSound, CountSound
<1> QED
  BY <1>1, <1>2, <1>3 DEF BooksInv, EphemeralsOwned

\* The match of an allocation is one ephemeral allocation or none.
LEMMA MatchLemma ==
  ASSUME NEW a
  PROVE  \A e, f \in Match(a) : e = f
BY DEF Match, Matches

\* What the three changes of the lists do to them: a match takes one
\* allocation and what nodes it leaves empty, an Update adds its own and takes
\* back what is left of them.
LEMMA MatchStep ==
  ASSUME Books, AllocMatch
  PROVE  /\ ephAllocs' \in Seq(AllEph) /\ ephNodes' \in Seq(AllEph)
         /\ Range(ephAllocs') = Range(ephAllocs) \ Match(ah.alloc)
         /\ Range(ephNodes') \subseteq Range(ephNodes)
         /\ IsInjective(ephAllocs) => IsInjective(ephAllocs')
         /\ IsInjective(ephNodes) => IsInjective(ephNodes')
<1> DEFINE gone == FirstEmpty(Match(ah.alloc))
           hit == Match(ah.alloc)
<1>1. ephAllocs' = Minus(ephAllocs, hit) /\ ephNodes' = Minus(ephNodes, gone)
  BY DEF AllocMatch
<1>2. ephNodes \in Seq(AllEph) /\ ephAllocs \in Seq(AllEph)
  BY DEF Books
<1> HIDE DEF gone, hit
<1>3. /\ ephAllocs' \in Seq(AllEph) /\ ephNodes' \in Seq(AllEph)
      /\ Range(ephAllocs') = Range(ephAllocs) \ hit
      /\ Range(ephNodes') = Range(ephNodes) \ gone
      /\ IsInjective(ephAllocs) => IsInjective(ephAllocs')
      /\ IsInjective(ephNodes) => IsInjective(ephNodes')
  BY <1>1, <1>2, MinusLemma
<1> QED
  BY <1>3 DEF hit

LEMMA AddStep ==
  ASSUME Books, NEW t \in Threads, UpdateCall(t)
  PROVE  /\ ephAllocs' \in Seq(AllEph) /\ ephNodes' \in Seq(AllEph)
         /\ Len(ephNodes') \in Nat
         /\ Range(ephAllocs') = Range(ephAllocs) \cup EphAllocs(t)
         /\ Range(ephNodes') = Range(ephNodes) \cup Range(Batch(t, en[t]))
         /\ IsInjective(ephAllocs) /\ Range(ephAllocs) \cap EphAllocs(t) = {}
              => IsInjective(ephAllocs')
         /\ IsInjective(ephNodes) /\ Range(ephNodes) \cap EphNodes(t) = {}
              => IsInjective(ephNodes')
<1>1. /\ ephNodes' = ephNodes \o Batch(t, en[t])
      /\ ephAllocs' = ephAllocs \o Batch(t, Want)
  BY DEF UpdateCall
<1>2. /\ ephNodes \in Seq(AllEph) /\ ephAllocs \in Seq(AllEph)
      /\ en[t] \in 0..Want /\ Want \in 0..Want
  BY SizeAssumption DEF Books
<1>3. /\ Batch(t, en[t]) \in Seq(AllEph) /\ IsInjective(Batch(t, en[t]))
      /\ Range(Batch(t, en[t])) \subseteq EphAllocs(t)
      /\ Batch(t, Want) \in Seq(AllEph) /\ IsInjective(Batch(t, Want))
      /\ Range(Batch(t, Want)) = EphAllocs(t)
  BY <1>2, EphLemma, Zenon
<1>4. EphNodes(t) = EphAllocs(t)
  BY DEF EphNodes, EphAllocs
<1> DEFINE b == Batch(t, en[t])
           c == Batch(t, Want)
<1> HIDE DEF b, c
<1>5. /\ ephNodes' = ephNodes \o b /\ ephAllocs' = ephAllocs \o c
      /\ b \in Seq(AllEph) /\ IsInjective(b) /\ Range(b) \subseteq EphAllocs(t)
      /\ c \in Seq(AllEph) /\ IsInjective(c) /\ Range(c) = EphAllocs(t)
  BY <1>1, <1>3 DEF b, c
<1>6. /\ ephNodes' \in Seq(AllEph) /\ Range(ephNodes') = Range(ephNodes) \cup Range(b)
      /\ IsInjective(ephNodes) /\ Range(ephNodes) \cap Range(b) = {}
           => IsInjective(ephNodes')
  BY <1>2, <1>5, AddLemma
<1>7. /\ ephAllocs' \in Seq(AllEph) /\ Range(ephAllocs') = Range(ephAllocs) \cup Range(c)
      /\ IsInjective(ephAllocs) /\ Range(ephAllocs) \cap Range(c) = {}
           => IsInjective(ephAllocs')
  BY <1>2, <1>5, AddLemma
<1>8. Len(ephNodes') \in Nat
  BY <1>6, LenProperties
<1>9. Range(ephNodes) \cap EphNodes(t) = {} => Range(ephNodes) \cap Range(b) = {}
  BY <1>4, <1>5
<1> QED
  BY <1>5, <1>6, <1>7, <1>8, <1>9 DEF b

LEMMA DropStep ==
  ASSUME Books, NEW t \in Threads, DropEphemerals(t)
  PROVE  /\ ephAllocs' \in Seq(AllEph) /\ ephNodes' \in Seq(AllEph)
         /\ Range(ephAllocs') = Range(ephAllocs) \ EphAllocs(t)
         /\ Range(ephNodes') = Range(ephNodes) \ Range(Batch(t, en[t]))
         /\ IsInjective(ephAllocs) => IsInjective(ephAllocs')
         /\ IsInjective(ephNodes) => IsInjective(ephNodes')
BY MinusLemma DEF DropEphemerals, Books

\* The books are kept by every step.
LEMMA BooksNode ==
  ASSUME IInv, Books, NodeStep \/ \E n \in Nodes : NodeUp(n) \/ NodeDown(n)
  PROVE  Books'
<1>1. UNCHANGED <<ephNodes, ephAllocs, on, en, waitCount, placed, ah>>
  BY DEF NodeStep, NodeUp, NodeDown, NodePublish, NodePublished,
         NodeSkipClosed, NodeSendUpdate, NodeSendWarmUp
<1>2. nodes' \subseteq Nodes /\ IsFiniteSet(nodes') /\ allocs' \subseteq Allocs
  <2>1. CASE \E n \in Nodes : NodeUp(n) \/ NodeDown(n)
    <3>1. PICK n \in Nodes : NodeUp(n) \/ NodeDown(n)
      BY <2>1
    <3>2. nodes' = nodes \cup {n} \/ nodes' = nodes \ {n}
      BY <3>1 DEF NodeUp, NodeDown
    <3>3. IsFiniteSet(nodes \cup {n}) /\ IsFiniteSet(nodes \ {n})
      BY FS_AddElement, FS_RemoveElement DEF Books
    <3>4. allocs' \subseteq Allocs
      BY <3>1 DEF NodeUp, NodeDown, Books
    <3> QED
      BY <3>2, <3>3, <3>4 DEF Books
  <2>2. CASE NodeStep
    BY <2>2 DEF NodeStep, NodePublish, NodePublished, NodeSkipClosed,
                NodeSendUpdate, NodeSendWarmUp, Books
  <2> QED
    BY <2>1, <2>2
<1>3. nh'.pc \in {"idle", "publish", "send"}
  BY IdleFacts
     DEF IInv, Shape, NodeStep, NodeUp, NodeDown, NodePublish, NodePublished, NodeDone,
         NodeSkipClosed, NodeSendUpdate, NodeSendWarmUp, Books, IdleNode
<1>4. timerOn' \in [Threads -> BOOLEAN]
  <2>1. CASE \E t \in Threads : NodeSendUpdate(t)
    <3>1. PICK t \in Threads :
             timerOn' = [timerOn EXCEPT ![t] = @ \/ nh.count >= waitCount[t]]
      BY <2>1 DEF NodeSendUpdate
    <3> QED
      BY <3>1 DEF Books
  <2>2. CASE timerOn' = timerOn
    BY <2>2 DEF Books
  <2> QED
    BY <2>1, <2>2 DEF NodeStep, NodeUp, NodeDown, NodePublish, NodePublished,
                      NodeSkipClosed, NodeSendWarmUp
<1>5. lock' \in {Free, "nodes", "allocs"} \cup Threads \cup Warmers
  BY DEF NodeStep, NodeUp, NodeDown, NodePublish, NodePublished,
         NodeSkipClosed, NodeSendUpdate, NodeSendWarmUp, Books
<1> QED
  BY <1>1, <1>2, <1>3, <1>4, <1>5 DEF Books

LEMMA BooksAlloc ==
  ASSUME IInv, BooksInv,
         AllocStep \/ \E a \in Allocs, run \in BOOLEAN : AllocEvent(a, run)
  PROVE  Books'
<1> USE DEF BooksInv
<1>1. CASE \E a \in Allocs, run \in BOOLEAN : AllocEvent(a, run)
  <2>1. PICK a \in Allocs, run \in BOOLEAN : AllocEvent(a, run)
    BY <1>1
  <2>2. ah'.pc = "apply" /\ ah'.alloc = a
    BY <2>1 DEF AllocEvent, IdleAlloc
  <2> QED
    BY <2>1, <2>2 DEF AllocEvent, Books
<1>2. CASE AllocRun \/ AllocStop
  <2>1. DOMAIN ah = {"pc", "alloc", "run", "eph", "pending"}
    BY DEF IInv, Shape
  <2>2. ah'.pc \in {"idle", "match"} /\ allocs' \subseteq Allocs
    BY <1>2, <2>1, IdleFacts DEF AllocRun, AllocStop, Books
  <2> QED
    BY <1>2, <2>2 DEF AllocRun, AllocStop, Books
<1>3. CASE AllocMatch
  <2>1. /\ UNCHANGED <<nodes, allocs, on, en, waitCount, placed, timerOn, nh>>
        /\ lock' \in {lock, "allocs"} /\ ah'.pc \in {"idle", "send"}
    <3>1. DOMAIN ah = {"pc", "alloc", "run", "eph", "pending"}
      BY DEF IInv, Shape
    <3>2. \/ lock' = lock /\ ah' = IdleAlloc
          \/ /\ lock' = "allocs"
             /\ \E e : ah' = [ah EXCEPT !.pc = "send", !.pending = allocSubs,
                                       !.eph = e]
      BY <1>3, Zenon DEF AllocMatch
    <3> QED
      BY <1>3, <3>1, <3>2, IdleFacts DEF AllocMatch
  <2> QED
    BY <1>3, <2>1, MatchStep DEF Books
<1>4. CASE AllocPublished
  BY <1>4, IdleFacts DEF AllocPublished, Books
<1>5. CASE \E t \in Threads : AllocSkipClosed(t)
  BY <1>5 DEF AllocSkipClosed, Books
<1>6. CASE \E t \in Threads : AllocSend(t)
  <2>1. PICK t \in Threads : AllocSend(t)
    BY <1>6
  <2>2. Counted(t) \in 0..Want
    <3>1. placed[t] + Left(t) + Told(t) = Want /\ Left(t) \in Nat
      BY <2>1, LeftType DEF AllocSend, CountsSound, CountSound, Left
    <3>2. placed[t] \in 0..Want
      BY DEF Books
    <3>3. Mine(t) => Told(t) = 1
      BY <2>1 DEF AllocSend, Told
    <3> QED
      BY <3>1, <3>2, <3>3, SizeAssumption DEF Counted
  <2>3. placed' \in [Threads -> 0..Want] /\ timerOn' \in [Threads -> BOOLEAN]
    <3>1. Mine(t) \in BOOLEAN
      BY DEF Mine
    <3> QED
      BY <2>1, <2>2, <3>1 DEF AllocSend, Books
  <2>4. ah'.pc = ah.pc /\ ah'.alloc = ah.alloc
    BY <2>1 DEF AllocSend
  <2> QED
    BY <2>1, <2>3, <2>4 DEF AllocSend, Books
<1> QED
  BY <1>1, <1>2, <1>3, <1>4, <1>5, <1>6 DEF AllocStep

LEMMA BooksUpdate ==
  ASSUME Books, NEW t \in Threads,
         Estimate(t) \/ UpdateStep(t) \/ UpdateCtxDone(t)
  PROVE  Books'
<1>1. CASE Estimate(t)
  <2>1. PICK k \in 0..Want : en' = [en EXCEPT ![t] = k]
    BY <1>1 DEF Estimate
  <2>2. DOMAIN on' = DOMAIN on \cup EphAllocs(t)
    BY <1>1 DEF Estimate
  <2>3. EphAllocs(t) \subseteq AllEph
    BY EphLemma
  <2>4. UNCHANGED <<lock, nodes, allocs, ephNodes, ephAllocs, nh, ah, placed,
                    timerOn, waitCount>>
    BY <1>1 DEF Estimate
  <2> QED
    BY <2>1, <2>2, <2>3, <2>4 DEF Books
<1>2. CASE UpdateCall(t)
  <2>1. TargetSize(Len(ephNodes')) \in Nat
    <3>1. Cardinality(nodes) \in Nat /\ Len(ephNodes') \in Nat
      BY <1>2, AddStep, FS_CardinalityType DEF Books
    <3> QED
      BY <3>1 DEF TargetSize, Count
  <2>2. ephAllocs' \in Seq(AllEph) /\ ephNodes' \in Seq(AllEph)
    BY <1>2, AddStep
  <2>3. waitCount' = [waitCount EXCEPT ![t] = TargetSize(Len(ephNodes'))]
    BY <1>2 DEF UpdateCall
  <2>4. waitCount' \in [Threads \cup Warmers -> Nat]
    BY <2>1, <2>3 DEF Books
  <2>5. lock' = t /\ UNCHANGED <<nodes, allocs, on, nh, ah, en, placed, timerOn>>
    BY <1>2 DEF UpdateCall
  <2> QED
    BY <2>2, <2>4, <2>5 DEF Books
<1>3. CASE UpdateError(t) \/ UpdateReturn(t)
  <2>1. DropEphemerals(t) /\ Return(t) /\ UNCHANGED <<nodes, allocs, nh, ah>>
        /\ lock' \in {lock, Free}
    BY <1>3 DEF UpdateError, UpdateReturn
  <2>2. ephAllocs' \in Seq(AllEph) /\ ephNodes' \in Seq(AllEph)
    BY <2>1, DropStep
  <2>3. DOMAIN on' \subseteq DOMAIN on
    BY <2>1 DEF Return, Restrict
  <2>4. /\ en' \in [Threads -> 0..Want] /\ placed' \in [Threads -> 0..Want]
        /\ waitCount' \in [Threads \cup Warmers -> Nat]
        /\ timerOn' \in [Threads -> BOOLEAN]
    BY <2>1, SizeAssumption DEF Return, Books
  <2> QED
    BY <2>1, <2>2, <2>3, <2>4 DEF Books
<1>4. CASE UpdateSubscribe(t)
  BY <1>4 DEF UpdateSubscribe, Books
<1>5. CASE UpdateTimeout(t) \/ UpdateCtxDone(t) \/ UpdateClose(t)
  BY <1>5 DEF UpdateTimeout, UpdateCtxDone, UpdateClose, Books
<1> QED
  BY <1>1, <1>2, <1>3, <1>4, <1>5 DEF UpdateStep

LEMMA BooksCollector ==
  ASSUME Books,
         \/ \E w \in Warmers : \/ \E n \in 1..MaxWarm : WarmUpCall(w, n)
                               \/ WarmUpWait(w) \/ WarmUpReturn(w)
         \/ RemoveCall \/ RemoveStep
  PROVE  Books'
<1>1. CASE \E w \in Warmers : \E n \in 1..MaxWarm : WarmUpCall(w, n)
  <2>1. PICK w \in Warmers, n \in 1..MaxWarm : WarmUpCall(w, n)
    BY <1>1
  <2>2. Cardinality(nodes) \in Nat
    BY FS_CardinalityType DEF Books
  <2>3. TargetSize(n) \in Nat
    BY <2>2, SizeAssumption DEF TargetSize, Count
  <2> QED
    BY <2>1, <2>3 DEF WarmUpCall, Books
<1>2. CASE \E w \in Warmers : WarmUpWait(w) \/ WarmUpReturn(w)
  <2>1. PICK w \in Warmers : WarmUpWait(w) \/ WarmUpReturn(w)
    BY <1>2
  <2>2. waitCount' \in {waitCount, [waitCount EXCEPT ![w] = 0]}
    BY <2>1 DEF WarmUpWait, WarmUpReturn
  <2>3. waitCount' \in [Threads \cup Warmers -> Nat]
    <3>1. CASE waitCount' = waitCount
      BY <3>1 DEF Books
    <3>2. CASE waitCount' = [waitCount EXCEPT ![w] = 0]
      BY <3>2 DEF Books
    <3> QED
      BY <2>2, <3>1, <3>2
  <2>4. lock' \in {lock, Free}
        /\ UNCHANGED <<dataVars, nh, ah, en, placed, timerOn>>
    BY <2>1 DEF WarmUpWait, WarmUpReturn
  <2> QED
    BY <2>3, <2>4 DEF Books
<1>3. CASE RemoveCall \/ RemoveStep
  BY <1>3 DEF RemoveCall, RemoveStep, RemoveLock, RemoveReturn, Books
<1> QED
  BY <1>1, <1>2, <1>3

\* Steps that leave the lists and who is in an Update alone.
LEMMA OwnedFrame ==
  ASSUME EphemeralsOwned, InUpdate' = InUpdate,
         UNCHANGED <<ephNodes, ephAllocs, en>>
  PROVE  EphemeralsOwned'
BY DEF EphemeralsOwned, EphAllocs, Batch

\* Who is in an Update, seen from the step of one thread.
LEMMA OwnedUpdate ==
  ASSUME IInv, Books, EphemeralsOwned, NEW t \in Threads,
         Estimate(t) \/ UpdateStep(t) \/ UpdateCtxDone(t)
  PROVE  EphemeralsOwned'
<1> DOMAIN pc = Threads
  BY DEF IInv, Shape
<1>1. CASE Estimate(t)
  <2>1. /\ pc[t] = "idle" /\ pc' = [pc EXCEPT ![t] = "rlock"]
        /\ UNCHANGED <<ephNodes, ephAllocs>>
        /\ \E k : en' = [en EXCEPT ![t] = k]
    BY <1>1 DEF Estimate
  <2>2. InUpdate' = InUpdate /\ t \notin InUpdate
    BY <2>1 DEF InUpdate
  <2>3. \A u \in InUpdate : en'[u] = en[u]
    BY <2>1, <2>2 DEF InUpdate, Books
  <2>4. \A u \in InUpdate : Range(Batch(u, en[u]))' = Range(Batch(u, en[u]))
    BY <2>3 DEF Batch
  <2> QED
    BY <2>1, <2>2, <2>4 DEF EphemeralsOwned, EphAllocs, Batch
<1>2. CASE UpdateCall(t)
  <2>1. /\ pc[t] = "rlock" /\ pc' = [pc EXCEPT ![t] = "provider"]
        /\ UNCHANGED en
    BY <1>2 DEF UpdateCall
  <2>2. InUpdate' = InUpdate \cup {t} /\ t \notin InUpdate
    BY <2>1 DEF InUpdate
  <2>3. \A u \in Threads : Range(Batch(u, en[u])) \subseteq EphAllocs(u)
    BY EphLemma DEF Books
  <2>4. \A u \in Threads : \A e \in EphAllocs(u) : e[1] = u
    BY EphLemma
  <2>5. /\ Range(ephAllocs) \cap EphAllocs(t) = {}
        /\ Range(ephNodes) \cap EphNodes(t) = {}
    <3>1. ASSUME NEW e \in Range(ephAllocs) \cup Range(ephNodes)
          PROVE  \E u \in InUpdate : e \in EphAllocs(u)
      BY <2>3 DEF EphemeralsOwned, InUpdate
    <3>2. EphNodes(t) = EphAllocs(t)
      BY DEF EphNodes, EphAllocs
    <3>3. InUpdate \subseteq Threads
      BY DEF InUpdate
    <3> QED
      BY <2>2, <2>4, <3>1, <3>2, <3>3
  <2>6. /\ IsInjective(ephAllocs') /\ IsInjective(ephNodes')
        /\ Range(ephAllocs') = Range(ephAllocs) \cup EphAllocs(t)
        /\ Range(ephNodes') = Range(ephNodes) \cup Range(Batch(t, en[t]))
    BY <1>2, <2>5, AddStep DEF EphemeralsOwned
  <2>7. \A u \in InUpdate \cup {t} :
          Range(Batch(u, en[u]))' = Range(Batch(u, en[u]))
    BY <2>1 DEF Batch
  <2>8. \A n \in Range(ephNodes') :
          \E u \in InUpdate' : n \in Range(Batch(u, en[u]))'
    BY <2>2, <2>6, <2>7 DEF EphemeralsOwned
  <2>9. \A e \in Range(ephAllocs') : \E u \in InUpdate' : e \in EphAllocs(u)
    BY <2>2, <2>6 DEF EphemeralsOwned
  <2> QED
    BY <2>6, <2>8, <2>9 DEF EphemeralsOwned, EphAllocs, Batch
<1>3. CASE UpdateError(t) \/ UpdateReturn(t)
  <2>1. /\ DropEphemerals(t)
        /\ pc[t] \in {"provider", "clean"} /\ pc' = [pc EXCEPT ![t] = "idle"]
        /\ en' = [en EXCEPT ![t] = 0]
    BY <1>3 DEF UpdateError, UpdateReturn, Return
  <2>2. InUpdate' = InUpdate \ {t} /\ InUpdate \subseteq Threads
    BY <2>1 DEF InUpdate
  <2>3. \A u \in InUpdate \ {t} : Range(Batch(u, en[u]))' = Range(Batch(u, en[u]))
    BY <2>1, <2>2 DEF Batch, Books
  <2>4. /\ IsInjective(ephAllocs') /\ IsInjective(ephNodes')
        /\ Range(ephAllocs') = Range(ephAllocs) \ EphAllocs(t)
        /\ Range(ephNodes') = Range(ephNodes) \ Range(Batch(t, en[t]))
    BY <2>1, DropStep DEF EphemeralsOwned
  <2>5. \A n \in Range(ephNodes') :
          \E u \in InUpdate' : n \in Range(Batch(u, en[u]))'
    BY <2>2, <2>3, <2>4 DEF EphemeralsOwned
  <2>6. \A e \in Range(ephAllocs') : \E u \in InUpdate' : e \in EphAllocs(u)
    BY <2>2, <2>4 DEF EphemeralsOwned
  <2> QED
    BY <2>4, <2>5, <2>6 DEF EphemeralsOwned, EphAllocs, Batch
<1>4. CASE \/ UpdateSubscribe(t) \/ UpdateTimeout(t) \/ UpdateCtxDone(t)
           \/ UpdateClose(t)
  <2>1. InUpdate' = InUpdate /\ UNCHANGED <<ephNodes, ephAllocs, en>>
    BY <1>4 DEF UpdateSubscribe, UpdateTimeout, UpdateCtxDone, UpdateClose, InUpdate
  <2> QED
    BY <2>1, OwnedFrame
<1> QED
  BY <1>1, <1>2, <1>3, <1>4 DEF UpdateStep

\* Only the Update adds to the lists; a match takes from them.
LEMMA OwnedStep ==
  ASSUME Books, EphemeralsOwned, IInv, Next
  PROVE  EphemeralsOwned'
<1>1. DOMAIN pc = Threads
  BY DEF IInv, Shape
<1>2. CASE \E t \in Threads : Estimate(t) \/ UpdateStep(t) \/ UpdateCtxDone(t)
  BY <1>2, OwnedUpdate
<1>3. CASE AllocMatch
  <2>1. UNCHANGED <<pc, en>>
    BY <1>3 DEF AllocMatch
  <2>2. /\ Range(ephAllocs') \subseteq Range(ephAllocs)
        /\ Range(ephNodes') \subseteq Range(ephNodes)
        /\ IsInjective(ephAllocs') /\ IsInjective(ephNodes')
    BY <1>3, MatchStep DEF EphemeralsOwned
  <2>3. InUpdate' = InUpdate
        /\ \A u \in InUpdate : Range(Batch(u, en[u]))' = Range(Batch(u, en[u]))
    BY <2>1 DEF InUpdate, Batch
  <2> QED
    BY <2>2, <2>3 DEF EphemeralsOwned, EphAllocs, Batch
<1>4. CASE \E t \in Threads : AllocSend(t)
  <2>1. PICK t \in Threads : AllocSend(t)
    BY <1>4
  <2>2. /\ pc[t] = "wait"
        /\ \E v \in {"wait", "close"} : pc' = [pc EXCEPT ![t] = v]
        /\ UNCHANGED <<ephNodes, ephAllocs, en>>
    BY <2>1 DEF AllocSend
  <2>3. InUpdate' = InUpdate
    BY <1>1, <2>2 DEF InUpdate
  <2> QED
    BY <2>2, <2>3, OwnedFrame
<1>5. CASE UNCHANGED <<ephNodes, ephAllocs, en, pc>>
  <2>1. InUpdate' = InUpdate
    BY <1>5 DEF InUpdate
  <2> QED
    BY <1>5, <2>1, OwnedFrame
<1>6. \/ \E t \in Threads : Estimate(t) \/ UpdateStep(t) \/ UpdateCtxDone(t)
      \/ AllocMatch \/ \E t \in Threads : AllocSend(t)
      \/ UNCHANGED <<ephNodes, ephAllocs, en, pc>>
  BY DEF Next, NodeStep, AllocStep, NodeUp, NodeDown, NodePublish, NodePublished,
         NodeSkipClosed, NodeSendUpdate, NodeSendWarmUp, AllocEvent, AllocRun,
         AllocStop, AllocPublished, AllocSkipClosed, WarmUpCall, WarmUpWait,
         WarmUpReturn, RemoveCall, RemoveStep, RemoveLock, RemoveReturn
<1> QED
  BY <1>2, <1>3, <1>4, <1>5, <1>6

\* What a step owes to the count of a thread whose part it is not.
LEMMA CountFrame ==
  ASSUME NEW u \in Threads, CountSound(u),
         pc'[u] = pc[u], placed'[u] = placed[u],
         u \in allocSubs => u \in allocSubs',
         Range(ephAllocs') \cap EphAllocs(u) = Range(ephAllocs) \cap EphAllocs(u),
         u \in allocSubs => Told(u)' = Told(u)
  PROVE  CountSound(u)'
<1>1. EphAllocs(u)' = EphAllocs(u)
  BY DEF EphAllocs, Batch
<1>2. Left(u)' = Left(u)
  BY <1>1 DEF Left
<1>3. EphAllocs(u) \subseteq Range(ephAllocs) => EphAllocs(u) \subseteq Range(ephAllocs')
  OBVIOUS
<1> QED
  BY <1>1, <1>2, <1>3 DEF CountSound

\* The handler of allocation events tells of every match.
LEMMA CountsMatch ==
  ASSUME IInv, Books, EphemeralsOwned, CountsSound, AllocMatch
  PROVE  CountsSound'
<1> SUFFICES ASSUME NEW u \in Threads
             PROVE  CountSound(u)'
  BY DEF CountsSound
<1> CountSound(u) /\ UNCHANGED <<pc, placed, allocSubs>>
  BY DEF CountsSound, AllocMatch
<1> DEFINE hit == Match(ah.alloc)
           mine == Range(ephAllocs) \cap EphAllocs(u)
<1>1. Range(ephAllocs') = Range(ephAllocs) \ hit
  BY MatchStep
<1>2. Told(u) = 0
  BY DEF Told, AllocMatch
<1>3. EphAllocs(u)' = EphAllocs(u)
  BY DEF EphAllocs, Batch
<1>4. CASE hit \cap EphAllocs(u) = {}
  <2>1. Told(u)' = 0
    <3>1. CASE hit = {}
      BY <3>1, IdleFacts DEF AllocMatch, Told
    <3>2. CASE hit # {}
      <4>1. ah' = [ah EXCEPT !.pc = "send", !.pending = allocSubs,
                            !.eph = CHOOSE e \in hit : TRUE]
        BY <3>2 DEF AllocMatch
      <4>2. ah'.eph \in hit
        BY <3>2, <4>1 DEF IInv, Shape
      <4> QED
        BY <1>3, <1>4, <4>2 DEF Told, Mine
    <3> QED
      BY <3>1, <3>2
  <2>2. Range(ephAllocs') \cap EphAllocs(u) = mine
    BY <1>1, <1>4
  <2> QED
    BY <1>2, <2>1, <2>2, CountFrame
<1>5. CASE hit \cap EphAllocs(u) # {}
  <2>1. PICK e \in hit : e \in EphAllocs(u)
    BY <1>5
  <2>2. hit = {e}
    BY <2>1, MatchLemma
  <2>3. ah' = [ah EXCEPT !.pc = "send", !.pending = allocSubs,
                        !.eph = CHOOSE f \in hit : TRUE]
    BY <2>1 DEF AllocMatch
  <2>4. ah'.pc = "send" /\ ah'.pending = allocSubs /\ ah'.eph = e
    BY <2>2, <2>3 DEF IInv, Shape
  <2>5. u \in allocSubs => Told(u)' = 1
    BY <1>3, <2>1, <2>4 DEF Told, Mine
  <2>6. e \in mine
    BY <2>1 DEF Match, Matches, Range
  <2>7. Range(ephAllocs') \cap EphAllocs(u) = mine \ {e}
    BY <1>1, <2>2
  <2>8. Left(u)' = Left(u) - 1 /\ Left(u) \in Nat
    <3>1. IsFiniteSet(mine) /\ Cardinality(mine) \in Nat
      BY LeftType
    <3> HIDE DEF mine
    <3>2. Cardinality(mine \ {e}) = Cardinality(mine) - 1
      BY <2>6, <3>1, FS_RemoveElement
    <3> QED
      BY <1>3, <2>7, <3>1, <3>2 DEF Left, mine
  <2>9. pc[u] # "provider"
    BY DEF AllocMatch, IInv, SectionsSound
  <2>10. placed[u] \in Nat
    BY DEF Books
  <2> QED
    BY <1>2, <2>5, <2>8, <2>9, <2>10, SizeAssumption DEF CountSound
<1> QED
  BY <1>4, <1>5

\* Whom it tells counts it, and what others are told does not change.
LEMMA CountsAlloc ==
  ASSUME IInv, Books, CountsSound,
         \/ AllocRun \/ AllocStop \/ AllocPublished
         \/ \E t \in Threads : AllocSkipClosed(t) \/ AllocSend(t)
         \/ \E a \in Allocs, run \in BOOLEAN : AllocEvent(a, run)
  PROVE  CountsSound'
<1> SUFFICES ASSUME NEW u \in Threads
             PROVE  CountSound(u)'
  BY DEF CountsSound
<1> CountSound(u) /\ DOMAIN ah = {"pc", "alloc", "run", "eph", "pending"}
    /\ DOMAIN pc = Threads /\ DOMAIN placed = Threads
  BY DEF CountsSound, IInv, Shape, Books
<1>1. EphAllocs(u)' = EphAllocs(u)
  BY DEF EphAllocs, Batch
<1>2. CASE \/ AllocRun \/ AllocStop
           \/ \E a \in Allocs, run \in BOOLEAN : AllocEvent(a, run)
  <2>1. ah.pc # "send" /\ ah'.pc # "send"
        /\ UNCHANGED <<pc, placed, allocSubs, ephAllocs>>
    BY <1>2, IdleFacts DEF AllocRun, AllocStop, AllocEvent
  <2>2. Told(u)' = Told(u)
    BY <2>1 DEF Told
  <2> QED
    BY <2>1, <2>2, CountFrame
<1>3. CASE AllocPublished
  <2>1. UNCHANGED <<pc, placed, allocSubs, ephAllocs>> /\ Told(u) = 0
    BY <1>3 DEF AllocPublished, Told
  <2>2. Told(u)' = 0
    BY <1>3, IdleFacts DEF AllocPublished, Told
  <2> QED
    BY <2>1, <2>2, CountFrame
<1>4. CASE \E t \in Threads : AllocSkipClosed(t)
  <2>1. PICK t \in Threads : AllocSkipClosed(t)
    BY <1>4
  <2>2. /\ UNCHANGED <<pc, placed, allocSubs, ephAllocs>> /\ t \notin allocSubs
        /\ ah'.pc = ah.pc /\ ah'.eph = ah.eph /\ ah'.pending = ah.pending \ {t}
    BY <2>1 DEF AllocSkipClosed
  <2>3. u \in allocSubs => Told(u)' = Told(u)
    BY <1>1, <2>2 DEF Told, Mine
  <2> QED
    BY <2>2, <2>3, CountFrame
<1>5. CASE \E t \in Threads : AllocSend(t)
  <2>1. PICK t \in Threads : AllocSend(t)
    BY <1>5
  <2>2. /\ UNCHANGED <<allocSubs, ephAllocs>>
        /\ pc[t] = "wait" /\ ah.pc = "send" /\ t \in ah.pending
        /\ ah'.pc = ah.pc /\ ah'.eph = ah.eph /\ ah'.pending = ah.pending \ {t}
        /\ placed' = [placed EXCEPT ![t] = Counted(t)]
        /\ pc' = [pc EXCEPT ![t] = IF Mine(t) /\ Counted(t) = Want
                                   THEN "close" ELSE "wait"]
    BY <2>1 DEF AllocSend
  <2>3. CASE u # t
    <3>1. Told(u)' = Told(u)
      BY <1>1, <2>2, <2>3 DEF Told, Mine
    <3>2. pc'[u] = pc[u] /\ placed'[u] = placed[u]
      BY <2>2, <2>3
    <3> QED
      BY <2>2, <3>1, <3>2, CountFrame
  <2>4. CASE u = t
    <3>1. Told(u)' = 0 /\ Left(u)' = Left(u)
      BY <1>1, <2>2, <2>4 DEF Told, Left
    <3>2. Told(u) = (IF Mine(u) THEN 1 ELSE 0)
      BY <2>2, <2>4 DEF Told
    <3>3. placed[u] \in Nat /\ Left(u) \in Nat
      <4>1. Left(u) \in Nat
        BY LeftType DEF Left
      <4> QED
        BY <4>1 DEF Books
    <3>4. placed'[u] + Left(u)' + Told(u)' = Want
      BY <2>2, <2>4, <3>1, <3>2, <3>3 DEF CountSound, Counted
    <3>5. pc'[u] \in {"wait", "close"} /\ u \in allocSubs'
      BY <2>2, <2>4 DEF CountSound
    <3> QED
      BY <3>4, <3>5 DEF CountSound
  <2> QED
    BY <2>3, <2>4
<1> QED
  BY <1>2, <1>3, <1>4, <1>5

\* A thread starts from nothing, and touches no other's ephemerals.
LEMMA CountsUpdate ==
  ASSUME IInv, Books, CountsSound, NEW t \in Threads,
         Estimate(t) \/ UpdateStep(t) \/ UpdateCtxDone(t)
  PROVE  CountsSound'
<1> SUFFICES ASSUME NEW u \in Threads
             PROVE  CountSound(u)'
  BY DEF CountsSound
<1> CountSound(u) /\ DOMAIN pc = Threads /\ DOMAIN placed = Threads
  BY DEF CountsSound, IInv, Shape, Books
<1>1. EphAllocs(u)' = EphAllocs(u)
  BY DEF EphAllocs, Batch
<1>2. /\ UNCHANGED ah
      /\ u # t => /\ pc'[u] = pc[u] /\ placed'[u] = placed[u]
                  /\ u \in allocSubs => u \in allocSubs'
  BY DEF Estimate, UpdateStep, UpdateCall, UpdateError, UpdateSubscribe,
         WithAllocSub, UpdateTimeout, UpdateCtxDone, UpdateClose, UpdateReturn,
         Return
<1>3. Told(u)' = Told(u)
  BY <1>1, <1>2 DEF Told, Mine
<1>4. u # t => EphAllocs(u) \cap EphAllocs(t) = {}
  BY EphLemma
<1>5. CASE Estimate(t)
  <2>1. /\ pc[t] = "idle" /\ pc' = [pc EXCEPT ![t] = "rlock"]
        /\ UNCHANGED <<ephAllocs, placed>>
    BY <1>5 DEF Estimate
  <2>2. CASE u = t
    BY <2>1, <2>2 DEF CountSound
  <2>3. CASE u # t
    BY <1>2, <1>3, <2>1, <2>3, CountFrame
  <2> QED
    BY <2>2, <2>3
<1>6. CASE UpdateCall(t)
  <2>1. Range(ephAllocs') = Range(ephAllocs) \cup EphAllocs(t)
    BY <1>6, AddStep
  <2>2. CASE u = t
    <3>1. pc[t] = "rlock" /\ pc'[t] = "provider" /\ placed' = placed
      BY <1>6 DEF UpdateCall
    <3> QED
      BY <1>1, <2>1, <2>2, <3>1 DEF CountSound
  <2>3. CASE u # t
    <3>1. Range(ephAllocs') \cap EphAllocs(u) = Range(ephAllocs) \cap EphAllocs(u)
      BY <1>4, <2>1, <2>3
    <3> QED
      BY <1>2, <1>3, <2>3, <3>1, CountFrame
  <2> QED
    BY <2>2, <2>3
<1>7. CASE UpdateError(t) \/ UpdateReturn(t)
  <2>1. /\ DropEphemerals(t) /\ pc' = [pc EXCEPT ![t] = "idle"]
        /\ placed' = [placed EXCEPT ![t] = 0]
    BY <1>7 DEF UpdateError, UpdateReturn, Return
  <2>2. CASE u = t
    BY <2>1, <2>2 DEF CountSound
  <2>3. CASE u # t
    <3>1. Range(ephAllocs') = Range(ephAllocs) \ EphAllocs(t)
      BY <2>1, DropStep
    <3>2. Range(ephAllocs') \cap EphAllocs(u) = Range(ephAllocs) \cap EphAllocs(u)
      BY <1>4, <2>3, <3>1
    <3> QED
      BY <1>2, <1>3, <2>3, <3>2, CountFrame
  <2> QED
    BY <2>2, <2>3
<1>8. CASE UpdateSubscribe(t)
  <2>1. /\ pc[t] = "provider" /\ pc' = [pc EXCEPT ![t] = "wait"]
        /\ allocSubs' = allocSubs \cup {t} /\ UNCHANGED <<ephAllocs, placed>>
    BY <1>8 DEF UpdateSubscribe, WithAllocSub
  <2>2. CASE u = t
    <3>1. EphAllocs(t) \subseteq Range(ephAllocs) /\ placed[t] = 0
      BY <2>1, <2>2 DEF CountSound
    <3>2. Range(ephAllocs) \cap EphAllocs(t) = EphAllocs(t)
      BY <3>1
    <3>3. Left(t) = Want
      BY <3>2, EphLemma DEF Left
    <3>4. Left(u)' = Want
      BY <1>1, <2>1, <2>2, <3>3 DEF Left
    <3>5. ah.pc # "send"
      BY <2>1 DEF IInv, SectionsSound
    <3>6. Told(u)' = 0
      BY <1>3, <3>5 DEF Told
    <3>7. u \in allocSubs' /\ pc'[u] = "wait" /\ placed'[u] = 0
      BY <2>1, <2>2, <3>1
    <3> QED
      BY <3>4, <3>6, <3>7, SizeAssumption DEF CountSound
  <2>3. CASE u # t
    BY <1>2, <1>3, <2>1, <2>3, CountFrame
  <2> QED
    BY <2>2, <2>3
<1>9. CASE UpdateTimeout(t) \/ UpdateCtxDone(t) \/ UpdateClose(t)
  <2>1. /\ pc'[t] \in {"close", "clean"}
        /\ UNCHANGED <<ephAllocs, placed>>
    BY <1>9 DEF UpdateTimeout, UpdateCtxDone, UpdateClose
  <2>2. CASE u = t
    BY <2>1, <2>2 DEF CountSound
  <2>3. CASE u # t
    BY <1>2, <1>3, <2>1, <2>3, CountFrame
  <2> QED
    BY <2>2, <2>3
<1> QED
  BY <1>5, <1>6, <1>7, <1>8, <1>9 DEF UpdateStep

\* The other goroutines have no part in it.
LEMMA CountsOthers ==
  ASSUME CountsSound, UNCHANGED <<pc, placed, allocSubs, ephAllocs, ah>>
  PROVE  CountsSound'
<1> SUFFICES ASSUME NEW u \in Threads
             PROVE  CountSound(u)'
  BY DEF CountsSound
<1>1. EphAllocs(u)' = EphAllocs(u)
  BY DEF EphAllocs, Batch
<1>2. Told(u)' = Told(u)
  BY <1>1 DEF Told, Mine
<1> QED
  BY <1>2, CountFrame DEF CountsSound

\* Together with the locks, the books are inductive.
LEMMA BooksStep ==
  ASSUME IInv, BooksInv, Next
  PROVE  BooksInv'
<1> USE DEF BooksInv
<1>1. Books'
  BY BooksNode, BooksAlloc, BooksUpdate, BooksCollector DEF Next
<1>2. EphemeralsOwned'
  BY OwnedStep
<1>3. CASE \E t \in Threads : Estimate(t) \/ UpdateStep(t) \/ UpdateCtxDone(t)
  BY <1>1, <1>2, <1>3, CountsUpdate
<1>4. CASE AllocStep \/ \E a \in Allocs, run \in BOOLEAN : AllocEvent(a, run)
  <2>1. CountsSound'
    BY <1>4, CountsMatch, CountsAlloc DEF AllocStep
  <2> QED
    BY <1>1, <1>2, <2>1
<1>5. CASE UNCHANGED <<pc, placed, allocSubs, ephAllocs, ah>>
  BY <1>1, <1>2, <1>5, CountsOthers
<1>6. \/ \E t \in Threads : Estimate(t) \/ UpdateStep(t) \/ UpdateCtxDone(t)
      \/ AllocStep \/ \E a \in Allocs, run \in BOOLEAN : AllocEvent(a, run)
      \/ UNCHANGED <<pc, placed, allocSubs, ephAllocs, ah>>
  BY DEF Next, NodeStep, NodeUp, NodeDown, NodePublish, NodePublished,
         NodeSkipClosed, NodeSendUpdate, NodeSendWarmUp, WarmUpCall, WarmUpWait,
         WarmUpReturn, RemoveCall, RemoveStep, RemoveLock, RemoveReturn
<1> QED
  BY <1>3, <1>4, <1>5, <1>6

THEOREM BooksInvariant == Spec => []BooksInv
<1>1. BooksInv /\ UNCHANGED vars => BooksInv'
  <2> SUFFICES ASSUME BooksInv, UNCHANGED vars
               PROVE  BooksInv'
    OBVIOUS
  <2>1. InUpdate' = InUpdate
    BY DEF vars, InUpdate
  <2> QED
    BY <2>1, OwnedFrame, CountsOthers DEF vars, BooksInv, Books
<1>2. IInv /\ BooksInv /\ [Next]_vars => BooksInv'
  BY <1>1, BooksStep
<1> QED
  BY <1>2, InitBooks, InductiveInvariant, PTL DEF Spec

\* Every variable of a pool is what it is said to be; a placement is never
\* counted beyond what was asked for, and the size waited for is a number,
\* as the nodes are finitely many at every time.
THEOREM TypeCorrect == Spec => []TypeOK
<1>1. IInv /\ BooksInv => TypeOK
  <2>1. UNION {EphNodes(t) : t \in Threads} = AllEph
    BY DEF EphNodes, AllEph, EphAllocs
  <2> QED
    BY <2>1 DEF IInv, Shape, BooksInv, Books, TypeOK
<1> QED
  BY <1>1, InductiveInvariant, BooksInvariant, PTL

\* The ephemerals of an Update are on the lists once, and gone when it
\* returns, however many scale-ups of the pool overlap and however they end
\* (pool.go 283-285, 295-311, 375-391).
THEOREM EphemeralsSound == Spec => []EphemeralsOwned
BY BooksInvariant, PTL DEF BooksInv

\* An Update hears of each of its placements exactly once: it adds its
\* ephemerals and subscribes in one critical section, and every match
\* publishes to all subscribers in another (pool.go 215-252, 281-372).
THEOREM PlacementsCounted == Spec => []EveryPlacementCounted
<1>1. BooksInv => EveryPlacementCounted
  BY DEF BooksInv, CountsSound, CountSound, Left, Told, EveryPlacementCounted
<1> QED
  BY <1>1, BooksInvariant, PTL
-----------------------------------------------------------------------------
(* What the providers rely on. *)

\* Who is in a call of the provider: scale-ups and WarmUps in UpdateNode, the
\* collector in RemoveNode.
Updating == {t \in Threads : pc[t] = "provider"}
              \cup {w \in Warmers : wpc[w] = "provider"}

\* Calls of the provider never overlap.
CallsSerialized ==
  /\ \A p, q \in Updating : p = q
  /\ remover = "locked" => Updating = {}

\* The pool's nodes stay what they are from the call of UpdateNode to its
\* return.
NodesFrozen == [][Updating # {} => nodes' = nodes]_vars

\* NodeProvider and both its implementations take for granted that calls do
\* not overlap and that no node enters or leaves the pool while UpdateNode
\* removes strangers.  The pool sees to the first with updrmvlock and p.lock
\* together (pool.go 276-330, 400-419, 432-446) ...
THEOREM ProviderCallsSerialized == Spec => []CallsSerialized
<1>1. IInv => CallsSerialized
  <2> SUFFICES ASSUME IInv
               PROVE  CallsSerialized
    OBVIOUS
  <2>1. \A p \in Updating : lock = p /\ p \in readers
    BY DEF Updating, IInv, ReadersSound, SectionsSound, InUpdate
  <2>2. remover = "locked" => readers = {}
    BY DEF IInv, ReadersSound
  <2> QED
    BY <2>1, <2>2 DEF CallsSerialized
<1> QED
  BY <1>1, InductiveInvariant, PTL

\* ... and to the second with p.lock alone, which tryNomadNode needs for
\* every change (pool.go 126-147, 158-176).
THEOREM ProviderNodesFrozen == Spec => NodesFrozen
<1>1. IInv /\ [Next]_vars => [Updating # {} => nodes' = nodes]_vars
  <2> SUFFICES ASSUME IInv, Next, Updating # {}
               PROVE  nodes' = nodes
    BY DEF vars
  <2>1. lock # Free
    BY DEF Updating, IInv, SectionsSound
  <2>2. ~ \E n \in Nodes : NodeUp(n) \/ NodeDown(n)
    BY <2>1 DEF NodeUp, NodeDown
  <2> QED
    BY <2>2
       DEF Next, NodeStep, AllocStep, UpdateStep, NodePublish, NodePublished,
           NodeSkipClosed, NodeSendUpdate, NodeSendWarmUp, AllocEvent, AllocRun,
           AllocStop, AllocMatch, AllocPublished, AllocSkipClosed, AllocSend,
           Estimate, UpdateCall, UpdateError, UpdateSubscribe, UpdateTimeout,
           UpdateCtxDone, UpdateClose, UpdateReturn, WarmUpCall, WarmUpWait,
           WarmUpReturn, RemoveCall, RemoveStep, RemoveLock, RemoveReturn
<1> QED
  BY <1>1, InductiveInvariant, PTL DEF Spec, NodesFrozen
\* Seen from its provider a pool is nodes and calls; what the cloud does is
\* not its own, so here all instances run and have registered.
Caller == IF Updating # {} THEN "update"
          ELSE IF remover = "locked" THEN "remove" ELSE "nobody"

Contract == INSTANCE NodeProvider WITH
  Instances <- Nodes, status <- [n \in Nodes |-> "live"], joined <- Nodes,
  caller <- Caller, condemned <- {}

ImplementsCaller == Contract!Spec

\* A call is made when nobody is in one ...
LEMMA CallBegins ==
  ASSUME IInv, Next, UNCHANGED nodes, Updating = {}, remover # "locked"
  PROVE  Contract!Next \/ UNCHANGED Contract!vars
<1>1. Caller = "nobody" /\ {} \in SUBSET Nodes
  BY DEF Caller
<1>2. CASE Caller' = "nobody"
  BY <1>1, <1>2 DEF Contract!vars
<1>3. CASE Caller' = "update"
  <2>1. Contract!Update({})
    BY <1>1, <1>3 DEF Contract!Update
  <2> QED
    BY <1>1, <2>1 DEF Contract!Next
<1>4. CASE Caller' = "remove"
  <2>1. Contract!Remove({})
    BY <1>1, <1>4 DEF Contract!Remove
  <2> QED
    BY <1>1, <2>1 DEF Contract!Next
<1> QED
  BY <1>2, <1>3, <1>4 DEF Caller

\* ... and while it lasts no other begins.
LEMMA CallLasts ==
  ASSUME IInv, Next, UNCHANGED nodes, Updating # {} \/ remover = "locked"
  PROVE  Contract!Next \/ UNCHANGED Contract!vars
<1> DEFINE live == [n \in Nodes |-> "live"]
<1>1. Caller' \in {Caller, "nobody"}
  <2>1. CASE Updating # {}
    <3>1. lock # Free /\ remover # "locked"
      BY <2>1 DEF Updating, IInv, ReadersSound, SectionsSound, InUpdate
    <3>2. remover' # "locked"
      <4>1. ~RemoveLock
        BY <2>1 DEF RemoveLock, Updating, IInv, ReadersSound, InUpdate
      <4> QED
        BY <3>1, <4>1
           DEF Next, NodeStep, AllocStep, UpdateStep, NodeUp, NodeDown, NodePublish,
               NodePublished, NodeSkipClosed, NodeSendUpdate, NodeSendWarmUp,
               AllocEvent, AllocRun, AllocStop, AllocMatch, AllocPublished,
               AllocSkipClosed, AllocSend, Estimate, UpdateCall, UpdateError,
               UpdateSubscribe, UpdateTimeout, UpdateCtxDone, UpdateClose,
               UpdateReturn, WarmUpCall, WarmUpWait, WarmUpReturn, RemoveCall,
               RemoveStep, RemoveReturn
    <3> QED
      BY <2>1, <3>2 DEF Caller
  <2>2. CASE Updating = {}
    <3>1. remover = "locked"
      BY <2>2
    <3>2. Updating' = {}
      <4>1. \A t \in Threads : ~UpdateCall(t)
        BY <3>1 DEF UpdateCall, CanRLock
      <4>2. \A w \in Warmers : \A n \in 1..MaxWarm : ~WarmUpCall(w, n)
        BY <3>1 DEF WarmUpCall, CanRLock
      <4>3. /\ \A t \in Threads : pc'[t] = "provider" => pc[t] = "provider"
            /\ \A w \in Warmers : wpc'[w] = "provider" => wpc[w] = "provider"
        <5>1. \/ pc' = pc
              \/ \E t \in Threads, v \in {"idle", "rlock", "wait", "close", "clean"} :
                    pc' = [pc EXCEPT ![t] = v]
          <6>1. CASE \E t \in Threads :
                       Estimate(t) \/ UpdateStep(t) \/ UpdateCtxDone(t)
            BY <4>1, <6>1 DEF UpdateStep, Estimate, UpdateError, UpdateSubscribe,
               UpdateTimeout, UpdateCtxDone, UpdateClose, UpdateReturn, Return
          <6>2. CASE \E t \in Threads : AllocSend(t)
            BY <6>2 DEF AllocSend
          <6>3. CASE ~ \E t \in Threads : \/ Estimate(t) \/ UpdateStep(t)
                                         \/ UpdateCtxDone(t) \/ AllocSend(t)
            BY <6>3
               DEF Next, NodeStep, AllocStep, NodeUp, NodeDown, NodePublish,
                   NodePublished, NodeSkipClosed, NodeSendUpdate, NodeSendWarmUp,
                   AllocEvent, AllocRun, AllocStop, AllocMatch, AllocPublished,
                   AllocSkipClosed, WarmUpCall, WarmUpWait, WarmUpReturn,
                   RemoveCall, RemoveStep, RemoveLock, RemoveReturn
          <6> QED
            BY <6>1, <6>2, <6>3
        <5>2. \/ wpc' = wpc
              \/ \E w \in Warmers, v \in {"idle", "wait", "close"} :
                    wpc' = [wpc EXCEPT ![w] = v]
          <6>1. CASE \E w \in Warmers : \/ WarmUpWait(w) \/ WarmUpReturn(w)
                                        \/ NodeSendWarmUp(w)
            BY <6>1 DEF WarmUpWait, WarmUpReturn, NodeSendWarmUp
          <6>2. CASE ~ \E w \in Warmers : \/ WarmUpWait(w) \/ WarmUpReturn(w)
                                          \/ NodeSendWarmUp(w)
            BY <4>2, <6>2
               DEF Next, NodeStep, AllocStep, UpdateStep, NodeUp, NodeDown,
                   NodePublish, NodePublished, NodeSkipClosed, NodeSendUpdate,
                   AllocEvent, AllocRun, AllocStop, AllocMatch, AllocPublished,
                   AllocSkipClosed, AllocSend, Estimate, UpdateCall, UpdateError,
                   UpdateSubscribe, UpdateTimeout, UpdateCtxDone, UpdateClose,
                   UpdateReturn, RemoveCall, RemoveStep, RemoveLock, RemoveReturn
          <6> QED
            BY <6>1, <6>2
        <5> QED
          BY <5>1, <5>2 DEF IInv, Shape
      <4> QED
        BY <2>2, <4>3 DEF Updating
    <3> QED
      BY <2>2, <3>1, <3>2 DEF Caller
  <2> QED
    BY <2>1, <2>2
<1>2. CASE Caller' = Caller
  BY <1>2 DEF Contract!vars
<1>3. CASE Caller' = "nobody"
  <2>1. live = [n \in Nodes |-> IF n \in {} THEN "gone" ELSE live[n]]
    OBVIOUS
  <2>2. Contract!Stop({})
    BY <1>3, <2>1 DEF Contract!Stop
  <2>3. {} \in SUBSET Nodes
    OBVIOUS
  <2> QED
    BY <2>2, <2>3 DEF Contract!Next
<1> QED
  BY <1>1, <1>2, <1>3

\* A pool with its scale-ups, WarmUps and removals is what the contract of a
\* node provider takes its caller to be: the half of NodeProvider that the
\* proofs about the providers assume (interface.go, pool.go 117-176, 276-330,
\* 400-419, 432-450).
THEOREM Refinement == Spec => ImplementsCaller
<1>1. Init => Contract!Init
  BY DEF Init, Contract!Init, Caller, Updating
<1>2. IInv /\ [Next]_vars => [Contract!Next]_(Contract!vars)
  <2> SUFFICES ASSUME IInv, [Next]_vars
               PROVE  Contract!Next \/ UNCHANGED Contract!vars
    OBVIOUS
  <2>1. CASE UNCHANGED vars
    BY <2>1 DEF vars, Contract!vars, Caller, Updating
  <2>2. CASE \E n \in Nodes : NodeUp(n) \/ NodeDown(n)
    <3>1. PICK n \in Nodes : NodeUp(n) \/ NodeDown(n)
      BY <2>2
    <3>2. UNCHANGED <<pc, wpc, remover>> /\ lock = Free
      BY <3>1 DEF NodeUp, NodeDown
    <3>3. Caller # "update" /\ Caller' = Caller
      BY <3>2 DEF Caller, Updating, IInv, SectionsSound
    <3>4. nodes' = nodes \cup {n} \/ nodes' = nodes \ {n}
      BY <3>1 DEF NodeUp, NodeDown
    <3>5. Contract!Enter(n) \/ Contract!Leave(n)
      BY <3>3, <3>4 DEF Contract!Enter, Contract!Leave
    <3> QED
      BY <3>5 DEF Contract!Next
  <2>3. CASE Next /\ UNCHANGED nodes
    BY <2>3, CallBegins, CallLasts
  <2>4. Next => nodes' = nodes \/ \E n \in Nodes : NodeUp(n) \/ NodeDown(n)
    BY DEF Next, NodeStep, AllocStep, UpdateStep, NodePublish, NodePublished,
           NodeSkipClosed, NodeSendUpdate, NodeSendWarmUp, AllocEvent, AllocRun,
           AllocStop, AllocMatch, AllocPublished, AllocSkipClosed, AllocSend,
           Estimate, UpdateCall, UpdateError, UpdateSubscribe, UpdateTimeout,
           UpdateCtxDone, UpdateClose, UpdateReturn, WarmUpCall, WarmUpWait,
           WarmUpReturn, RemoveCall, RemoveStep, RemoveLock, RemoveReturn
  <2> QED
    BY <2>1, <2>2, <2>3, <2>4
<1> QED
  BY <1>1, <1>2, InductiveInvariant, PTL
     DEF Spec, ImplementsCaller, Contract!Spec
=============================================================================
