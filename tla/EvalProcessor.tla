---------------------------- MODULE EvalProcessor ----------------------------
(***************************************************************************)
(* The decision loop of the scaler: processEvals (processEvals.go), the    *)
(* scaling threads that execute its events (scalingAction.go) and the      *)
(* channels between them.                                                  *)
(*                                                                         *)
(* processEvals is one goroutine around a select: an evaluation arrived, a *)
(* scaling thread reported that it is done, or the ten-second timer fired. *)
(* On the timer it sums up: it trims every chain of evaluations, cancels   *)
(* the events of chains that are no longer blocked, and fires an event for *)
(* each blocked chain that has none.  The summary visits the chains one by *)
(* one in no particular order and asks the Nomad API about each, while the *)
(* scaling threads go on taking and finishing events; so a visit is split  *)
(* into the step that trims the chain and the step that acts on the answer *)
(* of the API.  The event queue is the abstract one of EventQueue, which   *)
(* ScalingQueue implements.                                                *)
(***************************************************************************)
EXTENDS Integers, Sequences, FiniteSets, Functions

CONSTANTS
  Jobs,        \* chain ids, "namespace/job"
  Evals,       \* evaluations; an evaluation is its own CreateIndex
  JobOf,       \* JobOf[e]: the job evaluation e belongs to
  Threads,     \* the scaling threads
  DoneCap,     \* capacity of scalingDoneCh
  Purgeable,   \* jobs an operator may purge from Nomad
  None         \* no job

ASSUME EvalsAssumption == Evals \subseteq Nat /\ JobOf \in [Evals -> Jobs]
ASSUME DoneCapAssumption == DoneCap \in Nat \ {0}
ASSUME NoneAssumption == None \notin Jobs
ASSUME PurgeableAssumption == Purgeable \subseteq Jobs

VARIABLES
  evals,       \* evals: evaluation -> "blocked" or "other" status
  chains,      \* blockedEvalsChains: job -> evaluations, oldest first
  fired,       \* the keys of firedEvents
  canceled,    \* fired events whose CtxCancelFn was called
  timer,       \* waitCompleteEvents is running
  tick,        \* waitCompleteEvents.C (capacity one) holds a tick
  pc,          \* "select", "summary" (between chains) or "fetch" (API calls)
  current,     \* the chain the API is asked about
  todo,        \* chains this summary has yet to visit
  newevals,    \* the evaluations this summary keeps
  removed,     \* removedChains
  queue,       \* scalingRequireCh
  held,        \* held[t]: the event thread t executes
  doneCh,      \* scalingDoneCh
  purged       \* jobs that Nomad does not know any more

procVars == <<evals, chains, fired, canceled, timer, tick, pc, current,
              todo, newevals, removed>>
vars == <<procVars, queue, held, doneCh, purged>>

Status == {"blocked", "other"}

\* scalingRequireCh with its producer and its consumers.
Queue == INSTANCE EventQueue WITH Ids <- Jobs, Consumers <- Threads

\* A Go map as a function on its keys: assignment to and deletion of keys.
Assign(f, k, v) == [x \in DOMAIN f \cup {k} |-> IF x = k THEN v ELSE f[x]]
Without(f, S) == Restrict(f, DOMAIN f \ S)

Init == /\ evals = <<>>
        /\ chains = <<>>
        /\ fired = {}
        /\ canceled = {}
        /\ timer = TRUE
        /\ tick = FALSE
        /\ pc = "select"
        /\ current = None
        /\ todo = {}
        /\ newevals = {}
        /\ removed = {}
        /\ queue = <<>>
        /\ held = [t \in Threads |-> None]
        /\ doneCh = <<>>
        /\ purged = {}

-----------------------------------------------------------------------------
(* The select: an evaluation, a finished event, the timer.                 *)

\* Mutant: appends without comparing the create indexes.
ExtendsUnordered(c, e) == e \notin Range(chains[c])

\* e is new to the chain of c and younger than the last one there.
Extends(c, e) == e \notin Range(chains[c]) /\ e > chains[c][Len(chains[c])]

\* The chains after evaluation e came in with status st: it may extend the
\* chain of its job; a blocked one starts a chain if its job has none.
ChainsWith(e, st) ==
  LET c == JobOf[e]
  IN IF c \in DOMAIN chains
     THEN IF Extends(c, e) THEN [chains EXCEPT ![c] = Append(@, e)] ELSE chains
     ELSE IF st = "blocked" THEN Assign(chains, c, <<e>>) ELSE chains

\* resetTimer
ResetTimer(e, st) == JobOf[e] \in DOMAIN chains \/ st = "blocked"

\* case lEval := <-evalsCh.  Evaluations come from the start-up list and
\* from the event stream, in any order, repeatedly, with any status.  Timer
\* Reset does not drain a tick that is already in the channel.
ReceiveEval(e, st) ==
  /\ pc = "select"
  /\ evals' = Assign(evals, e, st)
  /\ chains' = ChainsWith(e, st)
  /\ timer' = (timer \/ ResetTimer(e, st))
  /\ UNCHANGED <<fired, canceled, tick, pc, current, todo, newevals, removed,
                 queue, held, doneCh, purged>>

\* Mutant: the report is read and firedEvents is not cleaned up.
DoneIgnored == fired

\* delete(firedEvents, lchainId)
FiredAfterDone == fired \ {Head(doneCh)}

\* case lchainId := <-scalingDoneCh.  The timer is not armed.
ScalingDone ==
  /\ pc = "select"
  /\ doneCh # <<>>
  /\ doneCh' = Tail(doneCh)
  /\ fired' = FiredAfterDone
  /\ canceled' = canceled \ {Head(doneCh)}
  /\ UNCHANGED <<evals, chains, timer, tick, pc, current, todo, newevals,
                 removed, queue, held, purged>>

\* Ten seconds without a Reset.
TimerExpires ==
  /\ timer
  /\ timer' = FALSE
  /\ tick' = TRUE
  /\ UNCHANGED <<evals, chains, fired, canceled, pc, current, todo, newevals,
                 removed, queue, held, doneCh, purged>>

\* case <-waitCompleteEvents.C
StartSummary ==
  /\ pc = "select"
  /\ tick
  /\ tick' = FALSE
  /\ pc' = "summary"
  /\ todo' = DOMAIN chains
  /\ UNCHANGED <<evals, chains, fired, canceled, timer, current, newevals,
                 removed, queue, held, doneCh, purged>>

-----------------------------------------------------------------------------
(* The summary: one visit per chain.                                       *)

\* The chain from its first blocked evaluation on; empty if there is none.
Trimmed(c) ==
  LET s == chains[c]
      leading == {i \in 1..Len(s) : \A j \in 1..i : evals[s[j]] # "blocked"}
  IN SubSeq(s, Cardinality(leading) + 1, Len(s))

\* What every visit does first.
Visit(c) == /\ pc = "summary"
            /\ c \in todo
            /\ todo' = todo \ {c}
            /\ chains' = [chains EXCEPT ![c] = Trimmed(c)]

\* scalingRequireCh.Remove(lchainId) returns true.
TakesBack(c) == c \in Range(queue)

\* The chain is not blocked any more and its event still waits in the queue.
CancelQueued(c) ==
  /\ Visit(c)
  /\ Trimmed(c) = <<>>
  /\ TakesBack(c)
  /\ Queue!Cancel(c)
  /\ fired' = fired \ {c}
  /\ removed' = removed \cup {c}
  /\ UNCHANGED <<evals, canceled, timer, tick, pc, current, newevals, doneCh,
                 purged>>

\* The chain is not blocked any more and its event, if it has one, left the
\* queue: the context is cancelled, the event stays fired until it is done.
CancelRunning(c) ==
  /\ Visit(c)
  /\ Trimmed(c) = <<>>
  /\ ~TakesBack(c)
  /\ canceled' = canceled \cup ({c} \cap fired)
  /\ removed' = removed \cup {c}
  /\ UNCHANGED <<evals, fired, timer, tick, pc, current, newevals, queue,
                 held, doneCh, purged>>

\* Every evaluation of a kept chain is kept.
Kept(c) == newevals \cup Range(Trimmed(c))

\* A blocked chain whose event is already fired.
KeepFired(c) ==
  /\ Visit(c)
  /\ Trimmed(c) # <<>>
  /\ c \in fired
  /\ newevals' = Kept(c)
  /\ UNCHANGED <<evals, fired, canceled, timer, tick, pc, current, removed,
                 queue, held, doneCh, purged>>

\* A blocked chain without an event: ask Nomad about the job.
ExamineChain(c) ==
  /\ Visit(c)
  /\ Trimmed(c) # <<>>
  /\ c \notin fired
  /\ newevals' = Kept(c)
  /\ pc' = "fetch"
  /\ current' = c
  /\ UNCHANGED <<evals, fired, canceled, timer, tick, removed, queue, held,
                 doneCh, purged>>

\* The API answered: getJob...WithRetry repeat every failed call for ever,
\* so for a purged job they never return.
Answered == pc = "fetch" /\ current \notin purged

\* Mutant: a chain that gets no event is not dropped.
NotDropped == removed

\* removedChains = append(removedChains, lchainId)
Dropped == removed \cup {current}

\* No pool is feasible, or no task group has both a failed placement, a pool
\* and queued allocations.
RejectChain ==
  /\ Answered
  /\ pc' = "summary"
  /\ current' = None
  /\ removed' = Dropped
  /\ UNCHANGED <<evals, chains, fired, canceled, timer, tick, todo, newevals,
                 queue, held, doneCh, purged>>

\* Mutant: the event overtakes the queue.
EnqueuedFirst == <<current>> \o queue

\* scalingRequireCh.Enqueue(lscalingEvent, lchainId)
Enqueued == Append(queue, current)

\* Mutant: the event is not recorded.
NotRecorded == fired

\* firedEvents[lchainId] = lscalingEvent
Recorded == fired \cup {current}

\* Some task group needs nodes.
FireEvent ==
  /\ Answered
  /\ pc' = "summary"
  /\ current' = None
  /\ queue' = Enqueued
  /\ fired' = Recorded
  /\ UNCHANGED <<evals, chains, canceled, timer, tick, todo, newevals,
                 removed, held, doneCh, purged>>

EndSummary ==
  /\ pc = "summary"
  /\ todo = {}
  /\ evals' = Restrict(evals, newevals)
  /\ chains' = Without(chains, removed)
  /\ pc' = "select"
  /\ newevals' = {}
  /\ removed' = {}
  /\ UNCHANGED <<fired, canceled, timer, tick, current, todo, queue, held,
                 doneCh, purged>>

-----------------------------------------------------------------------------
(* The scaling threads and the operator.                                   *)

\* scalingRequireCh.Dequeue()
Dequeue(t) ==
  /\ Queue!Take(t)
  /\ UNCHANGED <<procVars, doneCh, purged>>

\* Mutant: the thread reports after it has let go of its event.
ReportedLate(t) == Append(doneCh, held'[t])

\* scalingDoneCh <- scalingEvent.Id
Reported(t) == Append(doneCh, held[t])

\* The pool updates of the event ended: satisfied, failed, timed out or
\* cancelled.  All four look the same to processEvals.
FinishEvent(t) ==
  /\ Queue!Release(t)
  /\ Len(doneCh) < DoneCap
  /\ doneCh' = Reported(t)
  /\ UNCHANGED <<procVars, purged>>

PurgeJob(c) ==
  /\ c \in Purgeable \ purged
  /\ purged' = purged \cup {c}
  /\ UNCHANGED <<procVars, queue, held, doneCh>>

-----------------------------------------------------------------------------
VisitChain(c) == \/ CancelQueued(c) \/ CancelRunning(c)
                 \/ KeepFired(c) \/ ExamineChain(c)

SummaryStep == \/ StartSummary
               \/ \E c \in Jobs : VisitChain(c)
               \/ RejectChain \/ FireEvent
               \/ EndSummary

Next == \/ \E e \in Evals, st \in Status : ReceiveEval(e, st)
        \/ ScalingDone
        \/ TimerExpires
        \/ SummaryStep
        \/ \E t \in Threads : Dequeue(t) \/ FinishEvent(t)
        \/ \E c \in Jobs : PurgeJob(c)

Spec == Init /\ [][Next]_vars

\* The select chooses among its ready cases at random, so a case that stays
\* ready is taken in the end even if the others are ready as well (SF for
\* the done channel, whose case is not ready during a summary); the timer
\* expires once evaluations leave it ten seconds; an answered call returns;
\* scaling threads run, and a scaling action ends.  Evaluations owe nothing.
FairSpec == /\ Spec
            /\ SF_vars(ScalingDone)
            /\ WF_vars(TimerExpires)
            /\ SF_vars(StartSummary)
            /\ WF_vars(SummaryStep)
            /\ \A t \in Threads : WF_vars(Dequeue(t)) /\ SF_vars(FinishEvent(t))

-----------------------------------------------------------------------------
TypeOK == /\ DOMAIN evals \subseteq Evals
          /\ evals \in [DOMAIN evals -> Status]
          /\ DOMAIN chains \subseteq Jobs
          /\ chains \in [DOMAIN chains -> Seq(Evals)]
          /\ fired \subseteq Jobs
          /\ canceled \subseteq Jobs
          /\ timer \in BOOLEAN
          /\ tick \in BOOLEAN
          /\ pc \in {"select", "summary", "fetch"}
          /\ current \in Jobs \cup {None}
          /\ todo \subseteq Jobs
          /\ newevals \subseteq Evals
          /\ removed \subseteq Jobs
          /\ queue \in Seq(Jobs)
          /\ held \in [Threads -> Jobs \cup {None}]
          /\ doneCh \in Seq(Jobs)
          /\ purged \subseteq Purgeable

\* firedEvents lists exactly the events that exist, each in one place: in the
\* queue, with one thread, or reported done.  An event that were fired and
\* nowhere would block its chain for ever (line 102); one that existed twice
\* would be enqueued under an id that is queued already.
OutstandingExact ==
  /\ \A c \in Jobs : c \in fired <=> \/ c \in Range(queue)
                                     \/ c \in Range(held)
                                     \/ c \in Range(doneCh)
  /\ IsInjective(queue)
  /\ IsInjective(doneCh)
  /\ \A t, u \in Threads : held[t] = held[u] /\ held[t] # None => t = u
  /\ Range(queue) \cap Range(held) = {}
  /\ Range(queue) \cap Range(doneCh) = {}
  /\ Range(held) \cap Range(doneCh) = {}

\* An event whose context was cancelled has left the queue: no thread ever
\* starts to work under a context that is cancelled already (lines 87-92).
CanceledHasStarted ==
  canceled \subseteq (Range(held) \cup Range(doneCh)) /\ canceled \subseteq fired

\* The fired events agree with the queue, the threads and the done channel, and
\* so do the cancelled contexts, through every interleaving of summaries,
\* take-backs, cancellations and done reports (lines 64-65, 86-104, 157-162).
EventsAccounted == OutstandingExact /\ CanceledHasStarted

\* The evaluations a chain names are known, of that job, and in the order of
\* their creation, and no chain is empty when its first or last element is
\* read: nothing the loop dereferences is nil (lines 41, 75, 106).
ChainsWellFormed ==
  \A c \in DOMAIN chains :
    /\ \A i \in 1..Len(chains[c]) :
          /\ chains[c][i] \in DOMAIN evals
          /\ JobOf[chains[c][i]] = c
          /\ \A j \in 1..(i - 1) : chains[c][j] < chains[c][i]
    /\ (pc = "select" \/ c \in todo) => chains[c] # <<>>

\* In the middle of a summary every chain already visited and kept is not
\* empty and its evaluations are among those that will survive, so that
\* swapping in newevals (line 171) orphans no chain; and the chain the API
\* is asked about has no event yet, however long the answer takes.
SummaryBooks ==
  /\ todo \subseteq DOMAIN chains
  /\ newevals \subseteq DOMAIN evals
  /\ pc = "select" => todo = {}
  /\ pc = "fetch" => current \in Jobs /\ current \notin fired
  /\ pc # "select" => \A c \in DOMAIN chains \ (todo \cup removed) :
        chains[c] # <<>> /\ Range(chains[c]) \subseteq newevals

\* Whenever no summary is due, every chain starts with a blocked evaluation:
\* each change of a chain or of a status in it has armed the timer.
HeadBlockedWhenQuiet ==
  pc = "select" /\ ~timer /\ ~tick =>
    \A c \in DOMAIN chains : evals[chains[c][1]] = "blocked"

\* The chains agree with the evaluations, with the state of a summary and with
\* the timer, although evaluations arrive between any two summaries and chains
\* are trimmed, kept and dropped at different places of one (lines 26-62,
\* 71-175).
ChainsAccounted == ChainsWellFormed /\ SummaryBooks /\ HeadBlockedWhenQuiet

\* Every chain that is kept starts with a blocked evaluation and has an event.
KeptHaveEvents == \A c \in DOMAIN chains' :
                    c \in fired /\ evals'[chains'[c][1]] = "blocked"

\* A summary leaves nothing undecided: when it ends, every chain that is
\* kept starts with a blocked evaluation and has an event (lines 71-175).
SummaryDecides == [][EndSummary => KeptHaveEvents]_vars

\* processEvals and the threads use the queue as EventQueue demands: no id is
\* enqueued while its event is queued or executed.
ImplementsEventQueue == Queue!Spec

SummaryDue == timer \/ tick \/ pc # "select"

Pending(c) == c \in DOMAIN chains /\ c \notin fired /\ SummaryDue
Decided(c) == c \in fired \/ c \in removed \/ c \notin DOMAIN chains

\* A chain that has no event while a summary is due gets an event or is
\* dropped, unless a job was purged: a summary calls the Nomad API for one
\* chain after the other and repeats a failed call (lines 107, 121, 127).
DueChainDecided ==
  \A c \in Jobs : Pending(c) ~> (Decided(c) \/ purged # {})

\* A fired event does not stay fired for ever: its id comes back through the
\* bounded done channel although processEvals may be busy with a summary.
EventCompletes == \A c \in Jobs : c \in fired ~> (c \notin fired \/ purged # {})
=============================================================================
