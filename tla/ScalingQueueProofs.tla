------------------------- MODULE ScalingQueueProofs -------------------------
(***************************************************************************)
(* Theorems about ScalingQueue, for every set of ids and of consumers.     *)
(*                                                                         *)
(* The inductive invariant is the conjunction of the five invariants that  *)
(* are checked by TLC.  None of them is inductive alone: Remove cuts the   *)
(* slice at an index taken from the map, so even type correctness needs    *)
(* IndexExact; Exclusive needs that the slice has no duplicates (again     *)
(* IndexExact) and that a thread inside Dequeue holds nothing.             *)
(***************************************************************************)
EXTENDS ScalingQueue, SequenceTheorems, TLAPS

IInv == TypeOK /\ IndexExact /\ NoLostWakeup /\ Exclusive /\ NoStaleEntry

\* Cutting one position out of a slice: what append(s[:k], s[k+1:]...) is.
LEMMA CutOutProperties ==
  ASSUME NEW S, NEW s \in Seq(S), NEW k \in Int, 0 <= k, k < Len(s)
  PROVE  /\ CutOut(s, k) \in Seq(S)
         /\ Len(CutOut(s, k)) = Len(s) - 1
         /\ \A i \in 1..(Len(s) - 1) :
               CutOut(s, k)[i] = IF i <= k THEN s[i] ELSE s[i + 1]
<1> DEFINE a == SubSeq(s, 1, k)
           b == SubSeq(s, k + 2, Len(s))
           t == CutOut(s, k)
<1>0. Len(s) \in Nat /\ \A i \in 1..Len(s) : s[i] \in S
  BY LenProperties, ElementOfSeq
<1>1. /\ a \in Seq(S)
      /\ Len(a) = k
      /\ \A i \in 1..k : a[i] = s[i]
  <2>1. \A i \in 1..k : s[i] \in S
    BY <1>0
  <2> QED
    BY <1>0, <2>1, SubSeqProperties
<1>2. /\ b \in Seq(S)
      /\ Len(b) = Len(s) - 1 - k
      /\ \A i \in 1..(Len(s) - 1 - k) : b[i] = s[i + k + 1]
  <2>1. \A i \in (k + 2)..Len(s) : s[i] \in S
    BY <1>0
  <2>2. /\ b \in Seq(S)
        /\ Len(b) = IF k + 2 <= Len(s) THEN Len(s) - (k + 2) + 1 ELSE 0
        /\ \A i \in 1..(Len(s) - (k + 2) + 1) : b[i] = s[k + 2 + i - 1]
    BY <1>0, <2>1, SubSeqProperties
  <2> QED
    BY <1>0, <2>2
<1>3. /\ t \in Seq(S)
      /\ Len(t) = Len(a) + Len(b)
      /\ \A i \in 1..(Len(a) + Len(b)) :
            t[i] = IF i <= Len(a) THEN a[i] ELSE b[i - Len(a)]
  <2>1. t = a \o b
    BY DEF CutOut
  <2>2. /\ a \o b \in Seq(S)
        /\ Len(a \o b) = Len(a) + Len(b)
        /\ \A i \in 1..(Len(a) + Len(b)) :
              (a \o b)[i] = IF i <= Len(a) THEN a[i] ELSE b[i - Len(a)]
    BY <1>1, <1>2, ConcatProperties
  <2> HIDE DEF a, b, t
  <2> QED
    BY <2>1, <2>2, Zenon
<1> HIDE DEF a, b, t
<1>4. Len(t) = Len(s) - 1
  BY <1>0, <1>1, <1>2, <1>3
<1>5. ASSUME NEW i \in 1..(Len(s) - 1)
      PROVE  t[i] = IF i <= k THEN s[i] ELSE s[i + 1]
  <2>1. t[i] = IF i <= k THEN a[i] ELSE b[i - k]
    BY <1>0, <1>1, <1>2, <1>3
  <2>2. CASE i <= k
    BY <1>0, <1>1, <2>1, <2>2
  <2>3. CASE i > k
    <3>1. i - k \in 1..(Len(s) - 1 - k) /\ (i - k) + k + 1 = i + 1
      BY <1>0, <2>3
    <3>2. b[i - k] = s[(i - k) + k + 1]
      BY <1>2, <3>1
    <3> QED
      BY <1>0, <2>1, <2>3, <3>1, <3>2
  <2> QED
    BY <1>0, <2>2, <2>3
<1> QED
  BY <1>3, <1>4, <1>5 DEF t

\* The initial state satisfies the inductive invariant.
LEMMA InitInv == Init => IInv
<1> SUFFICES ASSUME Init PROVE IInv
  OBVIOUS
<1>0. items \in Seq(Ids) /\ Len(items) = 0
  BY EmptySeq DEF Init
<1>1. TypeOK
  <2>1. token \in BOOLEAN
    BY DEF Init
  <2>2. itemsIds \in [Ids -> Int]
    BY DEF Init, Absent
  <2>3. /\ feeder \in {"peek", "send", "wait"}
        /\ pc \in [Consumers -> {"idle", "recv", "pop"}]
        /\ popped \in [Consumers -> Ids \cup {None}]
        /\ held \in [Consumers -> Ids \cup {None}]
    BY DEF Init
  <2> QED
    BY <1>0, <2>1, <2>2, <2>3 DEF TypeOK
<1>2. IndexExact
  BY <1>0 DEF Init, IndexExact, Absent
<1>3. NoLostWakeup
  BY DEF Init, NoLostWakeup
<1>4. Exclusive
  BY <1>0, NoneIsNoId, LenProperties DEF Init, Exclusive, Range
<1>5. NoStaleEntry
  BY DEF Init, NoStaleEntry
<1> QED
  BY <1>1, <1>2, <1>3, <1>4, <1>5 DEF IInv

\* What the invariant says of the slice, in the form the steps below need.
LEMMA SliceFacts ==
  ASSUME TypeOK
  PROVE  /\ Len(items) \in Nat
         /\ \A i \in 1..Len(items) : items[i] \in Ids
         /\ \A x : x \in Range(items) <=> \E i \in 1..Len(items) : items[i] = x
         /\ items # <<>> => Len(items) > 0
BY LenProperties, ElementOfSeq, EmptySeq DEF TypeOK, Range

\* The same of the slice after a step.
LEMMA SliceFactsNext ==
  ASSUME TypeOK'
  PROVE  /\ Len(items') \in Nat
         /\ \A i \in 1..Len(items') : items'[i] \in Ids
         /\ \A x : x \in Range(items')
                     <=> \E i \in 1..Len(items') : items'[i] = x
         /\ items' # <<>> => Len(items') > 0
BY LenProperties, ElementOfSeq, EmptySeq DEF TypeOK, Range

\* Steps of the feeder and of a thread that leave slice, map and held alone.
LEMMA QuietSteps ==
  ASSUME IInv,
         \/ FeederPeek
         \/ FeederWake
         \/ \E c \in Consumers : HandOver(c) \/ DequeueCall(c)
         \/ UNCHANGED vars
  PROVE  IInv'
<1>1. items' = items /\ itemsIds' = itemsIds /\ held' = held
  BY DEF FeederPeek, FeederWake, HandOver, DequeueCall, vars
<1>2. TypeOK'
  BY <1>1 DEF IInv, TypeOK, FeederPeek, FeederWake, HandOver, DequeueCall, vars
<1>3. IndexExact' /\ Exclusive'
  BY <1>1 DEF IInv, IndexExact, Exclusive
<1>4. NoLostWakeup'
  BY <1>1 DEF IInv, NoLostWakeup, FeederPeek, FeederWake, HandOver,
              DequeueCall, vars
<1>5. NoStaleEntry'
  BY <1>1 DEF IInv, TypeOK, NoStaleEntry, FeederPeek, FeederWake, HandOver,
              DequeueCall, vars
<1> QED
  BY <1>2, <1>3, <1>4, <1>5 DEF IInv

\* Enqueue appends an id that is neither queued nor held.
LEMMA EnqueueStep ==
  ASSUME IInv, NEW id \in Ids, Enqueue(id)
  PROVE  IInv'
<1> USE DEF IInv
<1>1. /\ items' \in Seq(Ids)
      /\ Len(items') = Len(items) + 1
      /\ \A i \in 1..Len(items) : items'[i] = items[i]
      /\ items'[Len(items) + 1] = id
  BY AppendProperties DEF TypeOK, Enqueue
<1>2. TypeOK'
  BY <1>1, SliceFacts DEF TypeOK, Enqueue, Wake
<1>3. \A i \in 1..Len(items) : items[i] # id
  BY SliceFacts DEF Enqueue, Outstanding
<1>4. /\ itemsIds'[id] = Len(items)
      /\ \A x \in Ids : x # id => itemsIds'[x] = itemsIds[x]
  BY DEF TypeOK, Enqueue
<1>5. IndexExact'
  <2>1. ASSUME NEW x \in Ids, itemsIds'[x] >= 0
        PROVE  itemsIds'[x] < Len(items') /\ items'[itemsIds'[x] + 1] = x
    <3>1. CASE x = id
      BY <3>1, <1>1, <1>4, SliceFacts
    <3>2. CASE x # id
      <4>1. itemsIds'[x] = itemsIds[x] /\ itemsIds[x] \in Int
        BY <3>2, <1>4 DEF TypeOK
      <4>2. itemsIds[x] < Len(items) /\ items[itemsIds[x] + 1] = x
        BY <2>1, <4>1 DEF IndexExact
      <4>3. itemsIds[x] + 1 \in 1..Len(items)
        BY <2>1, <4>1, <4>2, SliceFacts
      <4> QED
        BY <4>1, <4>2, <4>3, <1>1, SliceFacts
    <3> QED
      BY <3>1, <3>2
  <2>2. ASSUME NEW i \in 1..Len(items')
        PROVE  itemsIds'[items'[i]] = i - 1
    BY <2>2, <1>1, <1>3, <1>4, SliceFacts DEF IndexExact
  <2> QED
    BY <2>1, <2>2 DEF IndexExact
<1>6. NoLostWakeup'
  BY DEF NoLostWakeup, Enqueue, Wake
<1>7. Exclusive'
  <2>1. \A x : x \in Range(items') => x \in Range(items) \/ x = id
    BY <1>1, <1>2, SliceFacts, SliceFactsNext
  <2>2. \A c \in Consumers : held[c] # id
    BY DEF Enqueue, Outstanding, TypeOK, Range
  <2> QED
    BY <2>1, <2>2 DEF Exclusive, Enqueue
<1>8. NoStaleEntry'
  BY DEF NoStaleEntry, Enqueue
<1> QED
  BY <1>2, <1>5, <1>6, <1>7, <1>8

\* Remove cuts its entry out of the slice and closes the gap in the map.
LEMMA RemoveStep ==
  ASSUME IInv, NEW id \in Ids, Remove(id)
  PROVE  IInv'
<1> USE DEF IInv
<1> DEFINE k == itemsIds[id]
<1>0. /\ k \in Int /\ 0 <= k /\ k < Len(items)
      /\ items[k + 1] = id
  BY DEF Remove, IndexExact, TypeOK
<1>1. /\ items' \in Seq(Ids)
      /\ Len(items') = Len(items) - 1
      /\ \A i \in 1..Len(items') :
            items'[i] = IF i <= k THEN items[i] ELSE items[i + 1]
  <2>1. items' = CutOut(items, k)
    BY DEF Remove
  <2>2. items \in Seq(Ids)
    BY DEF TypeOK
  <2> HIDE DEF k
  <2>3. /\ CutOut(items, k) \in Seq(Ids)
        /\ Len(CutOut(items, k)) = Len(items) - 1
        /\ \A i \in 1..(Len(items) - 1) :
              CutOut(items, k)[i] = IF i <= k THEN items[i] ELSE items[i + 1]
    BY <1>0, <2>2, CutOutProperties
  <2> QED
    BY <2>1, <2>3
<1>2. /\ itemsIds'[id] = -1
      /\ \A x \in Ids : x # id =>
            itemsIds'[x] = IF itemsIds[x] > k THEN itemsIds[x] - 1
                           ELSE itemsIds[x]
      /\ itemsIds' \in [Ids -> Int]
  BY DEF Remove, ShiftAfter, Removed, TypeOK
<1>3. TypeOK'
  BY <1>1, <1>2 DEF TypeOK, Remove
<1>4. ASSUME NEW i \in 1..Len(items')
      PROVE  items'[i] # id
  <2>1. /\ i \in 1..Len(items) /\ i + 1 \in 1..Len(items)
        /\ k + 1 \in 1..Len(items)
    BY <1>0, <1>1, SliceFacts
  <2>2. itemsIds[items[i]] = i - 1 /\ itemsIds[items[i + 1]] = i
    BY <2>1 DEF IndexExact
  <2> QED
    BY <1>0, <1>1, <2>1, <2>2
<1> HIDE DEF k
<1>5. IndexExact'
  <2>1. ASSUME NEW x \in Ids, itemsIds'[x] >= 0
        PROVE  itemsIds'[x] < Len(items') /\ items'[itemsIds'[x] + 1] = x
    <3>1. x # id /\ itemsIds[x] \in Int /\ itemsIds[x] # k
      BY <2>1, <1>0, <1>2 DEF IndexExact, TypeOK
    <3>2. itemsIds[x] >= 0
      BY <2>1, <1>0, <1>2, <3>1
    <3>3. itemsIds[x] < Len(items) /\ items[itemsIds[x] + 1] = x
      BY <3>2 DEF IndexExact
    <3>4. CASE itemsIds[x] > k
      <4>1. itemsIds'[x] = itemsIds[x] - 1
        BY <1>2, <3>1, <3>4
      <4>2. itemsIds[x] \in 1..Len(items')
        BY <1>0, <1>1, <3>1, <3>3, <3>4, SliceFacts
      <4>3. items'[itemsIds[x]] = items[itemsIds[x] + 1]
        BY <1>0, <1>1, <3>1, <3>4, <4>2
      <4> QED
        BY <1>1, <3>1, <3>3, <4>1, <4>2, <4>3, SliceFacts
    <3>5. CASE itemsIds[x] < k
      <4>1. itemsIds'[x] = itemsIds[x]
        BY <1>0, <1>2, <3>1, <3>5
      <4>2. itemsIds[x] + 1 \in 1..Len(items') /\ itemsIds[x] + 1 <= k
        BY <1>0, <1>1, <3>1, <3>2, <3>5, SliceFacts
      <4>3. items'[itemsIds[x] + 1] = items[itemsIds[x] + 1]
        BY <1>1, <4>2
      <4> QED
        BY <1>0, <1>1, <3>1, <3>3, <3>5, <4>1, <4>3, SliceFacts
    <3> QED
      BY <1>0, <3>1, <3>4, <3>5
  <2>2. ASSUME NEW i \in 1..Len(items')
        PROVE  itemsIds'[items'[i]] = i - 1
    <3>1. items'[i] \in Ids /\ items'[i] # id
      BY <1>3, <1>4, SliceFactsNext
    <3>2. CASE i <= k
      <4>1. itemsIds[items'[i]] = i - 1
        BY <1>0, <1>1, <3>2, SliceFacts DEF IndexExact
      <4> QED
        BY <1>0, <1>2, <3>1, <3>2, <4>1
    <3>3. CASE i > k
      <4>1. itemsIds[items'[i]] = i
        BY <1>0, <1>1, <3>3, SliceFacts DEF IndexExact
      <4> QED
        BY <1>0, <1>2, <3>1, <3>3, <4>1
    <3> QED
      BY <3>2, <3>3, <1>0
  <2> QED
    BY <2>1, <2>2 DEF IndexExact
<1>6. items # <<>>
  BY <1>0, EmptySeq
<1>7. NoLostWakeup'
  BY <1>6 DEF NoLostWakeup, Remove
<1>8. Exclusive'
  <2>1. \A x : x \in Range(items') => x \in Range(items)
    BY <1>0, <1>1, <1>3, SliceFacts, SliceFactsNext
  <2> QED
    BY <2>1 DEF Exclusive, Remove
<1>9. NoStaleEntry'
  BY DEF NoStaleEntry, Remove
<1> QED
  BY <1>3, <1>5, <1>7, <1>8, <1>9

\* A Dequeue that reaches its critical section takes the head, or finds the
\* slice empty and goes round again.
LEMMA PopEffect ==
  ASSUME IInv, NEW c \in Consumers, Pop(c)
  PROVE  /\ items = <<>> => /\ UNCHANGED <<items, itemsIds, held, popped>>
                            /\ pc' = [pc EXCEPT ![c] = "recv"]
         /\ items # <<>> => /\ items' = Tail(items)
                            /\ itemsIds' = ShiftHead
                            /\ popped' = popped
                            /\ held' = [held EXCEPT ![c] = Head(items)]
                            /\ pc' = [pc EXCEPT ![c] = "idle"]
         /\ held[c] = None
         /\ UNCHANGED <<token, feeder>>
<1> USE DEF IInv, Popped, Entry, Returns, Carried
<1>1. popped[c] = None /\ held[c] = None /\ popped \in [Consumers -> Ids \cup {None}]
      /\ held \in [Consumers -> Ids \cup {None}]
  BY DEF NoStaleEntry, TypeOK, Pop
<1>2. /\ [popped EXCEPT ![c] = None] = popped
      /\ [held EXCEPT ![c] = None] = held
  BY <1>1
<1>3. CASE items = <<>>
  BY <1>1, <1>2, <1>3 DEF Pop
<1>4. CASE items # <<>>
  <2>1. Head(items) \in Ids /\ Head(items) = items[1] /\ 1 \in 1..Len(items)
    BY <1>4, SliceFacts, HeadTailProperties DEF TypeOK
  <2>2. itemsIds[Head(items)] = 0
    BY <2>1 DEF IndexExact
  <2>3. Head(items) # None /\ itemsIds[Head(items)] # Removed
    BY <2>1, <2>2, NoneIsNoId DEF Removed
  <2> QED
    BY <1>1, <1>2, <1>4, <2>3 DEF Pop
<1> QED
  BY <1>1, <1>3, <1>4 DEF Pop

\* A Pop preserves the invariant: the entry it took is held by nobody else.
LEMMA PopStep ==
  ASSUME IInv, NEW c \in Consumers, Pop(c)
  PROVE  IInv'
<1> USE DEF IInv
<1>1. CASE items = <<>>
  <2>1. /\ UNCHANGED <<items, itemsIds, held, popped, token, feeder>>
        /\ pc' = [pc EXCEPT ![c] = "recv"]
        /\ held[c] = None
    BY <1>1, PopEffect
  <2>2. TypeOK'
    BY <2>1 DEF TypeOK
  <2>3. IndexExact' /\ Exclusive' /\ NoLostWakeup'
    BY <2>1 DEF IndexExact, Exclusive, NoLostWakeup
  <2>4. NoStaleEntry'
    BY <2>1 DEF NoStaleEntry, TypeOK
  <2> QED
    BY <2>2, <2>3, <2>4
<1>2. CASE items # <<>>
  <2>0. /\ items' = Tail(items)
        /\ itemsIds' = ShiftHead
        /\ popped' = popped
        /\ held' = [held EXCEPT ![c] = Head(items)]
        /\ pc' = [pc EXCEPT ![c] = "idle"]
        /\ UNCHANGED <<token, feeder>>
    BY <1>2, PopEffect
  <2>1. /\ items' \in Seq(Ids)
        /\ Len(items') = Len(items) - 1
        /\ \A i \in 1..Len(items') : items'[i] = items[i + 1]
        /\ Head(items) \in Ids
    BY <1>2, <2>0, HeadTailProperties DEF TypeOK
  <2>2. Head(items) = items[1] /\ Len(items) > 0
    BY <1>2, SliceFacts
  <2>3. /\ itemsIds' \in [Ids -> Int]
        /\ itemsIds'[Head(items)] = -2
        /\ \A x \in Ids : x # Head(items) =>
              itemsIds'[x] = IF itemsIds[x] > 0 THEN itemsIds[x] - 1
                             ELSE itemsIds[x]
    BY <2>0, <2>1 DEF ShiftHead, Absent, TypeOK
  <2>4. TypeOK'
    BY <2>0, <2>1, <2>3 DEF TypeOK
  <2>5. \A i \in 1..Len(items') : items'[i] # Head(items)
    BY <2>1, <2>2, SliceFacts DEF IndexExact
  <2>6. IndexExact'
    <3>1. ASSUME NEW x \in Ids, itemsIds'[x] >= 0
          PROVE  itemsIds'[x] < Len(items') /\ items'[itemsIds'[x] + 1] = x
      <4>1. x # Head(items) /\ itemsIds[x] \in Int
        BY <3>1, <2>3 DEF TypeOK
      <4>2. itemsIds[x] >= 0
        BY <3>1, <2>3, <4>1
      <4>3. itemsIds[x] < Len(items) /\ items[itemsIds[x] + 1] = x
        BY <4>2 DEF IndexExact
      <4>4. itemsIds[x] # 0
        BY <4>1, <4>3, <2>2
      <4>5. itemsIds'[x] = itemsIds[x] - 1
        BY <2>3, <4>1, <4>2, <4>4
      <4>6. itemsIds[x] \in 1..Len(items')
        BY <2>1, <4>1, <4>2, <4>3, <4>4, SliceFacts
      <4>7. items'[itemsIds[x]] = items[itemsIds[x] + 1]
        BY <2>1, <4>6
      <4> QED
        BY <4>1, <4>3, <4>5, <4>6, <4>7, <2>1, SliceFacts
    <3>2. ASSUME NEW i \in 1..Len(items')
          PROVE  itemsIds'[items'[i]] = i - 1
      <4>1. items'[i] \in Ids /\ items'[i] # Head(items)
        BY <2>4, <2>5, SliceFactsNext
      <4>2. itemsIds[items'[i]] = i
        BY <2>1, SliceFacts DEF IndexExact
      <4> QED
        BY <2>1, <2>3, <4>1, <4>2, SliceFacts
    <3> QED
      BY <3>1, <3>2 DEF IndexExact
  <2>7. NoLostWakeup'
    BY <1>2, <2>0 DEF NoLostWakeup
  <2>8. Exclusive'
    <3>1. \A x : x \in Range(items') => x \in Range(items) /\ x # Head(items)
      BY <2>1, <2>4, <2>5, SliceFacts, SliceFactsNext
    <3>2. Head(items) \in Range(items)
      BY <2>2, SliceFacts
    <3>3. \A d \in Consumers : held[d] # Head(items)
      BY <3>2 DEF Exclusive
    <3> QED
      BY <3>1, <3>3, <2>0 DEF Exclusive, TypeOK
  <2>9. NoStaleEntry'
    BY <2>0 DEF NoStaleEntry, TypeOK
  <2> QED
    BY <2>4, <2>6, <2>7, <2>8, <2>9
<1> QED
  BY <1>1, <1>2

\* A thread that reports done holds nothing any more.
LEMMA ReleaseStep ==
  ASSUME IInv, NEW c \in Consumers, Release(c)
  PROVE  IInv'
<1> USE DEF IInv
<1>1. TypeOK'
  BY DEF TypeOK, Release
<1>2. IndexExact' /\ NoLostWakeup'
  BY DEF IndexExact, NoLostWakeup, Release
<1>3. None \notin Range(items)
  BY SliceFacts, NoneIsNoId
<1>4. Exclusive'
  BY <1>3 DEF Exclusive, TypeOK, Release
<1>5. NoStaleEntry'
  BY DEF NoStaleEntry, TypeOK, Release
<1> QED
  BY <1>1, <1>2, <1>4, <1>5

\* Every step preserves the inductive invariant.
LEMMA NextInv == IInv /\ [Next]_vars => IInv'
BY QuietSteps, EnqueueStep, RemoveStep, PopStep, ReleaseStep
   DEF Next, FeederStep, ConsumerStep

\* The inductive invariant holds in every reachable state.
THEOREM Invariance == Spec => []IInv
BY InitInv, NextInv, PTL DEF Spec

\* Every reachable state of the queue is well typed.
THEOREM TypeCorrect == Spec => []TypeOK
<1>1. IInv => TypeOK
  BY DEF IInv
<1> QED
  BY <1>1, Invariance, PTL

\* The index map always names the positions of the entries, so Remove cuts
\* out the entry it was asked to remove and never slices out of range.
THEOREM IndexCorrect == Spec => []IndexExact
<1>1. IInv => IndexExact
  BY DEF IInv
<1> QED
  BY <1>1, Invariance, PTL

\* The feeder never sleeps through a non-empty queue.
THEOREM WakeupKept == Spec => []NoLostWakeup
<1>1. IInv => NoLostWakeup
  BY DEF IInv
<1> QED
  BY <1>1, Invariance, PTL

\* No chain is scaled by two threads, or queued while a thread scales it.
THEOREM ExclusiveDelivery == Spec => []Exclusive
<1>1. IInv => Exclusive
  BY DEF IInv
<1> QED
  BY <1>1, Invariance, PTL

\* The initial state is an initial state of EventQueue.
LEMMA RefineInit == Init => Abstract!Init
BY DEF Init, Abstract!Init

\* Every step of the queue is a step of EventQueue or changes nothing there:
\* Enqueue puts, Remove cancels, a Pop that finds an entry takes.
LEMMA RefineNext == IInv /\ [Next]_vars => [Abstract!Next]_(Abstract!vars)
<1> SUFFICES ASSUME IInv, [Next]_vars
             PROVE  Abstract!Next \/ (items' = items /\ held' = held)
  BY DEF Abstract!vars
<1>1. ASSUME NEW id \in Ids, Enqueue(id) PROVE Abstract!Put(id)
  BY <1>1 DEF Enqueue, Outstanding, Range, Abstract!Put, Abstract!Outstanding,
              Abstract!Range
<1>2. ASSUME NEW id \in Ids, Remove(id) PROVE Abstract!Cancel(id)
  <2>1. /\ itemsIds[id] \in Int /\ 0 <= itemsIds[id]
        /\ itemsIds[id] < Len(items)
        /\ items[itemsIds[id] + 1] = id
        /\ items' = CutOut(items, itemsIds[id])
        /\ held' = held
    BY <1>2 DEF Remove, IInv, IndexExact, TypeOK
  <2> DEFINE k == itemsIds[id] + 1
  <2>2. /\ k \in 1..Len(items)
        /\ k - 1 = itemsIds[id] /\ k + 1 = itemsIds[id] + 2
    BY <2>1, SliceFacts DEF IInv
  <2>3. items' = SubSeq(items, 1, k - 1) \o SubSeq(items, k + 1, Len(items))
    BY <2>1, <2>2, Zenon DEF CutOut
  <2>4. items[k] = id
    BY <2>1
  <2> HIDE DEF k
  <2> QED
    BY <2>1, <2>2, <2>3, <2>4, Zenon DEF Abstract!Cancel
<1>3. ASSUME NEW c \in Consumers, Pop(c)
      PROVE  Abstract!Take(c) \/ (items' = items /\ held' = held)
  BY <1>3, PopEffect DEF Abstract!Take
<1>4. ASSUME NEW c \in Consumers, Release(c) PROVE Abstract!Release(c)
  BY <1>4 DEF Release, Abstract!Release
<1>5. CASE \/ FeederPeek \/ FeederWake
           \/ \E c \in Consumers : HandOver(c) \/ DequeueCall(c)
           \/ UNCHANGED vars
  BY <1>5, Zenon DEF FeederPeek, FeederWake, HandOver, DequeueCall, vars
<1> QED
  BY <1>1, <1>2, <1>3, <1>4, <1>5
     DEF Next, FeederStep, ConsumerStep, Abstract!Next

\* The queue with its feeder, index map and rendezvous implements the FIFO
\* with cancellation that processEvals and the scaling threads rely on.
THEOREM Refinement == Spec => ImplementsEventQueue
BY RefineInit, RefineNext, Invariance, PTL
   DEF Spec, ImplementsEventQueue, Abstract!Spec
=============================================================================
