---------------------------- MODULE ScalingQueue ----------------------------
(***************************************************************************)
(* The scaling-event queue of queue.go: a mutex-protected slice with an    *)
(* index map, a feeder goroutine that turns "the queue is not empty" into  *)
(* a rendezvous on an unbuffered channel, and Dequeue calls that wait for  *)
(* that rendezvous and only then look at the slice.                        *)
(*                                                                         *)
(* Every critical section of q.lock is one action, every channel operation *)
(* that can block is one action, and the value the feeder sends is not     *)
(* kept: Dequeue discards it.                                              *)
(***************************************************************************)
EXTENDS Integers, Sequences, Functions

CONSTANTS Ids,        \* the ids events are queued under
          Consumers,  \* the goroutines that call Dequeue
          None        \* no event

ASSUME NoneIsNoId == None \notin Ids

Absent == -2          \* itemsIds has no such key
Removed == -1         \* the marker Remove leaves behind

VARIABLES
  items,      \* q.items, as the sequence of the ids of its entries
  itemsIds,   \* q.itemsIds: id -> zero-based index, Removed or Absent
  token,      \* q.waiyitemsCh (capacity one) holds its value
  feeder,     \* where the feeder goroutine is: "peek", "send" or "wait"
  pc,         \* pc[c]: "idle" (not in Dequeue), "recv" or "pop"
  popped,     \* popped[c]: lquieueitem, local to a Dequeue call
  held        \* held[c]: the id the last Dequeue of c returned, until released

vars == <<items, itemsIds, token, feeder, pc, popped, held>>

Outstanding == Range(items) \cup Range(held)

Init == /\ items = <<>>
        /\ itemsIds = [id \in Ids |-> Absent]
        /\ token = FALSE
        /\ feeder = "peek"
        /\ pc = [c \in Consumers |-> "idle"]
        /\ popped = [c \in Consumers |-> None]
        /\ held = [c \in Consumers |-> None]

-----------------------------------------------------------------------------
(* The feeder goroutine started by NewQueue. *)

\* Lock, look at the head, unlock: send something or go to wait.
FeederPeek == /\ feeder = "peek"
              /\ feeder' = IF items # <<>> THEN "send" ELSE "wait"
              /\ UNCHANGED <<items, itemsIds, token, pc, popped, held>>

\* <-q.waiyitemsCh
FeederWake == /\ feeder = "wait"
              /\ token
              /\ token' = FALSE
              /\ feeder' = "peek"
              /\ UNCHANGED <<items, itemsIds, pc, popped, held>>

\* q.intemsCh <- item meets the receive of a Dequeue.
HandOver(c) == /\ feeder = "send"
               /\ pc[c] = "recv"
               /\ feeder' = "peek"
               /\ pc' = [pc EXCEPT ![c] = "pop"]
               /\ UNCHANGED <<items, itemsIds, token, popped, held>>

-----------------------------------------------------------------------------
(* The producer: processEvals, the only caller of Enqueue and Remove.  It  *)
(* never enqueues an id whose event is still queued or being worked on.    *)

\* Mutant: the wake-up is lost.
NoWake == token

\* The try-send on the wake-up channel: sent now, or already pending.
Wake == TRUE

Enqueue(id) ==
  /\ id \notin Outstanding
  /\ items' = Append(items, id)
  /\ itemsIds' = [itemsIds EXCEPT ![id] = Len(items)]
  /\ token' = Wake
  /\ UNCHANGED <<feeder, pc, popped, held>>

\* Mutant: cuts out the entry after the one asked for, if there is one.
CutNext(s, k) == IF k + 1 < Len(s)
                 THEN SubSeq(s, 1, k + 1) \o SubSeq(s, k + 3, Len(s))
                 ELSE SubSeq(s, 1, k)

\* append(s[:k], s[k+1:]...)
CutOut(s, k) == SubSeq(s, 1, k) \o SubSeq(s, k + 2, Len(s))

\* Mutant: the indexes of the later entries stay.
MarkOnly(id) == [itemsIds EXCEPT ![id] = Removed]

\* What Remove does to the indexes: the marker for id, one less for every
\* index beyond the hole.
ShiftAfter(id) ==
  [x \in Ids |-> IF x = id THEN Removed
                 ELSE IF itemsIds[x] > itemsIds[id] THEN itemsIds[x] - 1
                 ELSE itemsIds[x]]

\* Remove(id) = true.  When the id is absent or already marked, Remove
\* changes nothing and returns false: a stuttering step.
Remove(id) ==
  /\ itemsIds[id] >= 0
  /\ items' = CutOut(items, itemsIds[id])
  /\ itemsIds' = ShiftAfter(id)
  /\ UNCHANGED <<token, feeder, pc, popped, held>>

-----------------------------------------------------------------------------
(* The consumers: scalingAction calls Dequeue, works, and calls it again.  *)

DequeueCall(c) == /\ pc[c] = "idle"
                  /\ held[c] = None
                  /\ pc' = [pc EXCEPT ![c] = "recv"]
                  /\ popped' = [popped EXCEPT ![c] = None]
                  /\ UNCHANGED <<items, itemsIds, token, feeder, held>>

\* The index map after the head was popped: every positive index moves down
\* and the head's entry is deleted (also when it is the Removed marker).
ShiftHead == [x \in Ids |-> IF x = Head(items) THEN Absent
                            ELSE IF itemsIds[x] > 0 THEN itemsIds[x] - 1
                            ELSE itemsIds[x]]

\* Mutant: the entry is read but left in the slice.
PeekOnly == items

\* The slice after the pop.
Popped == IF items # <<>> THEN Tail(items) ELSE items

\* Mutant: reads the first entry of a slice that may be empty.
EntryUnchecked(c) == Head(items \o <<Absent>>)

\* lquieueitem: the entry just popped, or what an earlier round left there.
Entry(c) == IF items # <<>> THEN Head(items) ELSE popped[c]

\* A popped entry whose map value is the Removed marker is skipped
\* (continue), and stays in lquieueitem; no entry at all is another round.
Returns(c) == /\ Entry(c) # None
              /\ ~(items # <<>> /\ itemsIds[Entry(c)] = Removed)

\* What lquieueitem is worth after the critical section.
Carried(c) == IF Returns(c) THEN None ELSE Entry(c)

\* The critical section of Dequeue.
Pop(c) ==
  /\ pc[c] = "pop"
  /\ items' = Popped
  /\ itemsIds' = IF items # <<>> THEN ShiftHead ELSE itemsIds
  /\ popped' = [popped EXCEPT ![c] = Carried(c)]
  /\ held' = [held EXCEPT ![c] = IF Returns(c) THEN Entry(c) ELSE None]
  /\ pc' = [pc EXCEPT ![c] = IF Returns(c) THEN "idle" ELSE "recv"]
  /\ UNCHANGED <<token, feeder>>

\* The scaling thread is finished with the event it dequeued.
Release(c) == /\ held[c] # None
              /\ held' = [held EXCEPT ![c] = None]
              /\ UNCHANGED <<items, itemsIds, token, feeder, pc, popped>>

-----------------------------------------------------------------------------
FeederStep == FeederPeek \/ FeederWake \/ \E c \in Consumers : HandOver(c)

ConsumerStep(c) == DequeueCall(c) \/ Pop(c) \/ Release(c)

Next == \/ FeederStep
        \/ \E id \in Ids : Enqueue(id) \/ Remove(id)
        \/ \E c \in Consumers : ConsumerStep(c)

Spec == Init /\ [][Next]_vars

\* Goroutines that can run do run, and a scaling action ends.
FairSpec == /\ Spec
            /\ WF_vars(FeederStep)
            /\ \A c \in Consumers : WF_vars(ConsumerStep(c))

-----------------------------------------------------------------------------
TypeOK == /\ items \in Seq(Ids)
          /\ itemsIds \in [Ids -> Int]
          /\ token \in BOOLEAN
          /\ feeder \in {"peek", "send", "wait"}
          /\ pc \in [Consumers -> {"idle", "recv", "pop"}]
          /\ popped \in [Consumers -> Ids \cup {None}]
          /\ held \in [Consumers -> Ids \cup {None}]

\* The map and the slice agree exactly, whatever Enqueues, Removes and
\* Dequeues were interleaved: a key with an index names the position of its
\* entry, and every entry has its key.  Remove slices at that index without
\* a bounds check, and cancels whatever stands there (queue.go 103-119).
IndexExact ==
  /\ \A id \in Ids : itemsIds[id] >= 0 =>
        /\ itemsIds[id] < Len(items)
        /\ items[itemsIds[id] + 1] = id
  /\ \A i \in 1..Len(items) : itemsIds[items[i]] = i - 1

\* The feeder never sleeps on a non-empty queue without a wake-up pending,
\* although it decides to sleep after it released the lock (queue.go 32-43).
NoLostWakeup == items # <<>> /\ feeder = "wait" => token

\* No two threads ever scale for the same chain, nor is a chain queued again
\* while a thread scales for it (queue.go 64-97 hands every entry out once).
Exclusive ==
  /\ \A c, d \in Consumers : held[c] = held[d] /\ held[c] # None => c = d
  /\ \A c \in Consumers : held[c] \notin Range(items)

\* The round that finds a Removed marker under a popped entry never happens,
\* so no Dequeue carries an entry into its next round, where an empty slice
\* would make it return that removed entry (queue.go 66, 80-83, 90-92); and a
\* thread in Dequeue holds no event.
NoStaleEntry == \A c \in Consumers : /\ popped[c] = None
                                     /\ held[c] # None => pc[c] = "idle"

\* Seen from outside the queue is a plain FIFO with cancellation: the entry
\* a Dequeue returns is the oldest one at that moment, even though the
\* feeder announced an entry that may have been removed or taken since.
Abstract == INSTANCE EventQueue WITH queue <- items
ImplementsEventQueue == Abstract!Spec

\* A queued event is eventually taken by a thread or cancelled: the chain
\* feeder - token - rendezvous never stalls (queue.go 31-44, 58-61, 69).
EveryEventLeaves ==
  \A id \in Ids : id \in Range(items) ~> id \notin Range(items)
=============================================================================
