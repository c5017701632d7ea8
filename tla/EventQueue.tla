----------------------------- MODULE EventQueue -----------------------------
(***************************************************************************)
(* What the scaling-event queue promises its two users.                    *)
(*                                                                         *)
(* processEvals puts at most one scaling event per chain and may take back *)
(* an event that nobody has started; the scaling threads take events in    *)
(* the order they were put, one at a time each.  An id is outstanding from *)
(* the moment it is put until it is cancelled or the thread that took it   *)
(* is finished with it, and an outstanding id is never put again.          *)
(***************************************************************************)
EXTENDS Integers, Sequences, Functions

CONSTANTS Ids,        \* the scaling event ids ("namespace/job" chain ids)
          Consumers,  \* the scaling threads
          None        \* "this thread holds no event": not an id

VARIABLES queue,      \* ids put and not yet taken or cancelled, oldest first
          held        \* held[c]: the id thread c took and still works on

vars == <<queue, held>>

Outstanding == Range(queue) \cup Range(held)

Init == /\ queue = <<>>
        /\ held = [c \in Consumers |-> None]

Put(id) == /\ id \notin Outstanding
           /\ queue' = Append(queue, id)
           /\ UNCHANGED held

Take(c) == /\ held[c] = None
           /\ queue # <<>>
           /\ held' = [held EXCEPT ![c] = Head(queue)]
           /\ queue' = Tail(queue)

Cancel(id) == /\ \E k \in 1..Len(queue) :
                   /\ queue[k] = id
                   /\ queue' = SubSeq(queue, 1, k - 1)
                                 \o SubSeq(queue, k + 1, Len(queue))
              /\ UNCHANGED held

Release(c) == /\ held[c] # None
              /\ held' = [held EXCEPT ![c] = None]
              /\ UNCHANGED queue

Next == \/ \E id \in Ids : Put(id) \/ Cancel(id)
        \/ \E c \in Consumers : Take(c) \/ Release(c)

Spec == Init /\ [][Next]_vars
=============================================================================
