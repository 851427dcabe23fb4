----------------------------- MODULE QueueWorker -----------------------------
(***************************************************************************)
(* The background agent queue of src/automation/queue_worker.py: a bounded *)
(* asyncio.PriorityQueue, a pool of worker coroutines, retry with backoff, *)
(* tombstone cancellation, and a shutdown that drains for a bounded time   *)
(* and then cancels the workers.                                           *)
(*                                                                         *)
(* asyncio is cooperative: code between two awaits is one atomic action    *)
(* here, and every await is a place where the other actors may run.        *)
(***************************************************************************)
EXTENDS Integers, FiniteSets

CONSTANTS
  Tasks,        \* QueueTask objects, each enqueued at most once by a client
  Workers,      \* the coroutines start() creates: `concurrency` of them
  MaxQueue,     \* max_queue_size
  MaxRetries,   \* QueueTask.max_retries
  Prio,         \* QueueTask.priority
  Callbacks,    \* the tasks that carry a callback
  WaitModes,    \* the values callers give stop(wait=...)
  NoTask        \* a worker's job when it holds none

ASSUME QueueAssumption ==
  /\ IsFiniteSet(Tasks)
  /\ IsFiniteSet(Workers)
  /\ NoTask \notin Tasks
  /\ MaxQueue \in Nat \ {0}
  /\ MaxRetries \in Nat
  /\ Prio \in [Tasks -> Nat]
  /\ Callbacks \subseteq Tasks
  /\ WaitModes \subseteq BOOLEAN

VARIABLES
  phase,        \* "down", "up", "draining" or "gathering": where start/stop are
  accepting,    \* _accepting; the _stopping event is set exactly when it is FALSE
  stamp,        \* sequence number of a task's heap entry, 0 when it has none
  nextStamp,    \* _sequence, the next number to hand out
  status,       \* QueueTask.status
  retries,      \* QueueTask.retry_count
  pc,           \* where each worker coroutine is suspended
  job,          \* the task each worker executes
  runningTasks, \* keys of _running_tasks
  records,      \* how often a task was appended to _completed_tasks
  unfinished    \* the PriorityQueue's count of puts without a task_done

vars == <<phase, accepting, stamp, nextStamp, status, retries, pc, job,
          runningTasks, records, unfinished>>

Status == {"pending", "queued", "running", "completed", "failed", "cancelled"}
Terminal == {"completed", "failed", "cancelled"}

InQueue(t) == stamp[t] > 0
Queued == {t \in Tasks : InQueue(t)}
QueueFull == Cardinality(Queued) >= MaxQueue
Busy(w) == pc[w] \in {"exec", "callback", "backoff"}
BusyWorkers == {w \in Workers : Busy(w)}
Held(t) == \E w \in Workers : job[w] = t

\* Mutant of IsTombstone: the worker loop does not look at the status.
NoTombstones(t) == FALSE
\* cancel_task() reached the task while it was in the heap, or in its backoff.
IsTombstone(t) == status[t] = "cancelled"

\* A failing task is tried again.
MayRetry(t) == accepting /\ retries[t] + 1 < MaxRetries

\* Mutant of MayRequeue: the bound is not enforced.
RequeueWhenFull == accepting
\* A task whose backoff has ended goes back to the heap.
MayRequeue == accepting /\ ~QueueFull

\* The heap's smallest (-priority, sequence) pair.
IsFirst(t) ==
  /\ InQueue(t)
  /\ \A u \in Queued : \/ Prio[u] < Prio[t]
                       \/ Prio[u] = Prio[t] /\ stamp[u] >= stamp[t]

Init ==
  /\ phase = "down"
  /\ accepting = TRUE
  /\ stamp = [t \in Tasks |-> 0]
  /\ nextStamp = 1
  /\ status = [t \in Tasks |-> "pending"]
  /\ retries = [t \in Tasks |-> 0]
  /\ pc = [w \in Workers |-> "off"]
  /\ job = [w \in Workers |-> NoTask]
  /\ runningTasks = {}
  /\ records = [t \in Tasks |-> 0]
  /\ unfinished = 0

-----------------------------------------------------------------------------
(* Clients *)

\* enqueue(): refused while stopping or full, otherwise put on the heap.
Enqueue(t) ==
  /\ status[t] = "pending"
  /\ accepting
  /\ ~QueueFull
  /\ status' = [status EXCEPT ![t] = "queued"]
  /\ stamp' = [stamp EXCEPT ![t] = nextStamp]
  /\ nextStamp' = nextStamp + 1
  /\ unfinished' = unfinished + 1
  /\ UNCHANGED <<phase, accepting, retries, pc, job, runningTasks, records>>

\* cancel_task(): a queued entry becomes a tombstone, a running task is only
\* marked; any other id answers False and changes nothing.
CancelTask(t) ==
  /\ InQueue(t) \/ t \in runningTasks
  /\ status' = [status EXCEPT ![t] = "cancelled"]
  /\ UNCHANGED <<phase, accepting, stamp, nextStamp, retries, pc, job,
                 runningTasks, records, unfinished>>

-----------------------------------------------------------------------------
(* The worker loop *)

\* A tombstone is consumed: task_done() and on to the next entry.
SkipTombstone(w, t) ==
  /\ pc[w] = "idle" /\ phase # "gathering"
  /\ IsFirst(t) /\ IsTombstone(t)
  /\ stamp' = [stamp EXCEPT ![t] = 0]
  /\ unfinished' = unfinished - 1
  /\ UNCHANGED <<phase, accepting, nextStamp, status, retries, pc, job,
                 runningTasks, records>>

\* get() returns an entry and _execute_task runs up to its first await.
Take(w, t) ==
  /\ pc[w] = "idle" /\ phase # "gathering"
  /\ IsFirst(t) /\ ~IsTombstone(t)
  /\ stamp' = [stamp EXCEPT ![t] = 0]
  /\ status' = [status EXCEPT ![t] = "running"]
  /\ runningTasks' = runningTasks \cup {t}
  /\ pc' = [pc EXCEPT ![w] = "exec"]
  /\ job' = [job EXCEPT ![w] = t]
  /\ UNCHANGED <<phase, accepting, nextStamp, retries, records, unfinished>>

\* Mutant of Finally: task_done() is called in the except block as well.
DoneTwice(w, t, st, puts, next) ==
  /\ status' = [status EXCEPT ![t] = st]
  /\ runningTasks' = runningTasks \ {t}
  /\ records' = IF st = "queued" THEN records ELSE [records EXCEPT ![t] = @ + 1]
  /\ unfinished' = unfinished + puts - 2
  /\ pc' = [pc EXCEPT ![w] = next]
  /\ job' = [job EXCEPT ![w] = NoTask]

\* Mutant of Finally: the bookkeeping is skipped for a task that goes back.
NoCleanupOnRetry(w, t, st, puts, next) ==
  /\ status' = [status EXCEPT ![t] = st]
  /\ IF st = "queued"
     THEN unfinished' = unfinished + puts /\ UNCHANGED <<runningTasks, records>>
     ELSE /\ runningTasks' = runningTasks \ {t}
          /\ records' = [records EXCEPT ![t] = @ + 1]
          /\ unfinished' = unfinished + puts - 1
  /\ pc' = [pc EXCEPT ![w] = next]
  /\ job' = [job EXCEPT ![w] = NoTask]

\* The finally block of _execute_task, for a task whose status is then `st`;
\* `puts` is 1 when the retry branch has just put the task back.
Finally(w, t, st, puts, next) ==
  /\ status' = [status EXCEPT ![t] = st]
  /\ runningTasks' = runningTasks \ {t}
  /\ records' = IF st = "queued" THEN records ELSE [records EXCEPT ![t] = @ + 1]
  /\ unfinished' = unfinished + puts - 1
  /\ pc' = [pc EXCEPT ![w] = next]
  /\ job' = [job EXCEPT ![w] = NoTask]

\* Worker w resumes at its await, with no CancelledError pending.
Resumes(w, at) == pc[w] = at /\ phase # "gathering"

\* The agent answered: COMPLETED, then the callback is awaited or the task ends.
Succeed(w) ==
  LET t == job[w] IN
  /\ Resumes(w, "exec")
  /\ IF t \in Callbacks
     THEN /\ status' = [status EXCEPT ![t] = "completed"]
          /\ pc' = [pc EXCEPT ![w] = "callback"]
          /\ UNCHANGED <<job, runningTasks, records, unfinished>>
     ELSE Finally(w, t, "completed", 0, "idle")
  /\ UNCHANGED <<phase, accepting, stamp, nextStamp, retries>>

\* The callback returned or raised: either way the task keeps its status.
CallbackDone(w) ==
  /\ Resumes(w, "callback")
  /\ Finally(w, job[w], status[job[w]], 0, "idle")
  /\ UNCHANGED <<phase, accepting, stamp, nextStamp, retries>>

\* asyncio.TimeoutError: failed at once, no retry.
TimeOut(w) ==
  /\ Resumes(w, "exec")
  /\ Finally(w, job[w], "failed", 0, "idle")
  /\ UNCHANGED <<phase, accepting, stamp, nextStamp, retries>>

\* Any other exception: back off before a retry, or fail for good.
Fail(w) ==
  LET t == job[w] IN
  /\ Resumes(w, "exec")
  /\ retries' = [retries EXCEPT ![t] = @ + 1]
  /\ IF MayRetry(t)
     THEN /\ status' = [status EXCEPT ![t] = "queued"]
          /\ pc' = [pc EXCEPT ![w] = "backoff"]
          /\ UNCHANGED <<job, runningTasks, records, unfinished>>
     ELSE Finally(w, t, "failed", 0, "idle")
  /\ UNCHANGED <<phase, accepting, stamp, nextStamp>>

\* The backoff ended, by time or by stop(): requeue, or fail if the queue is
\* stopping or full. A cancel_task() during the backoff is requeued as it is.
BackoffEnds(w) ==
  LET t == job[w] IN
  /\ Resumes(w, "backoff")
  /\ IF MayRequeue
     THEN /\ stamp' = [stamp EXCEPT ![t] = nextStamp]
          /\ nextStamp' = nextStamp + 1
          /\ Finally(w, t, status[t], 1, "idle")
     ELSE /\ Finally(w, t, "failed", 0, "idle")
          /\ UNCHANGED <<stamp, nextStamp>>
  /\ UNCHANGED <<phase, accepting, retries>>

-----------------------------------------------------------------------------
(* start() and stop() *)

\* start() returns early only while _running, which stop() clears before it has
\* gathered its workers; a start in that gap is left out: the application's
\* lifespan, the only caller, starts once and stops once, in that order.
Start ==
  /\ phase = "down"
  /\ phase' = "up"
  /\ accepting' = TRUE
  /\ pc' = [w \in Workers |-> "idle"]
  /\ UNCHANGED <<stamp, nextStamp, status, retries, job, runningTasks,
                 records, unfinished>>

\* stop() closes the door, then waits for join() or cancels the workers at once.
Stop(wait) ==
  /\ phase = "up"
  /\ accepting' = FALSE
  /\ phase' = IF wait THEN "draining" ELSE "gathering"
  /\ UNCHANGED <<stamp, nextStamp, status, retries, pc, job, runningTasks,
                 records, unfinished>>

\* join() returned: _running is cleared and every worker is cancelled.
Drained ==
  /\ phase = "draining"
  /\ unfinished = 0
  /\ phase' = "gathering"
  /\ UNCHANGED <<accepting, stamp, nextStamp, status, retries, pc, job,
                 runningTasks, records, unfinished>>

\* Mutant of DrainTimesOut: join() is awaited without a limit.
NoDrainLimit == FALSE /\ UNCHANGED vars

\* The drain exceeded its limit. stop() has woken every backoff and seconds
\* pass before the limit, so no worker is still in one.
DrainTimesOut ==
  /\ phase = "draining"
  /\ unfinished > 0
  /\ \A w \in Workers : pc[w] # "backoff"
  /\ phase' = "gathering"
  /\ UNCHANGED <<accepting, stamp, nextStamp, status, retries, pc, job,
                 runningTasks, records, unfinished>>

\* CancelledError reaches worker w. Inside the try block the task is failed; in
\* a backoff, which is inside an except block, only the finally block runs.
Unwind(w) ==
  /\ phase = "gathering" /\ pc[w] # "off"
  /\ IF Busy(w)
     THEN Finally(w, job[w],
                  IF pc[w] = "backoff" THEN status[job[w]] ELSE "failed",
                  0, "off")
     ELSE /\ pc' = [pc EXCEPT ![w] = "off"]
          /\ UNCHANGED <<status, job, runningTasks, records, unfinished>>
  /\ UNCHANGED <<phase, accepting, stamp, nextStamp, retries>>

\* Mutant of AbandonedStatus: entries left in the heap keep their status.
KeepStatus(t) == status[t]

\* The status _abandon_remaining gives a task it finds.
AbandonedStatus(t) ==
  CASE t \in Queued -> IF status[t] = "cancelled" THEN "cancelled" ELSE "failed"
    [] t \in runningTasks ->
         IF status[t] \in {"completed", "cancelled"} THEN status[t] ELSE "failed"
    [] OTHER -> status[t]

\* Mutant of Leftovers: what is taken off the heap is not put on record.
Unrecorded(t) == 0
\* The entries _abandon_remaining meets for a task, each put on record.
Leftovers(t) == (IF t \in Queued THEN 1 ELSE 0)
                + (IF t \in runningTasks THEN 1 ELSE 0)

\* gather() returned; _abandon_remaining fails what is left and empties both
\* collections, appending a record for every entry it meets.
Abandon ==
  /\ phase = "gathering"
  /\ \A w \in Workers : pc[w] = "off"
  /\ status' = [t \in Tasks |-> AbandonedStatus(t)]
  /\ records' = [t \in Tasks |-> records[t] + Leftovers(t)]
  /\ stamp' = [t \in Tasks |-> 0]
  /\ runningTasks' = {}
  /\ unfinished' = unfinished - Cardinality(Queued)
  /\ phase' = "down"
  /\ UNCHANGED <<accepting, nextStamp, retries, pc, job>>

-----------------------------------------------------------------------------
Client == \E t \in Tasks : Enqueue(t) \/ CancelTask(t)

Work(w) ==
  \/ \E t \in Tasks : SkipTombstone(w, t) \/ Take(w, t)
  \/ Succeed(w) \/ CallbackDone(w) \/ TimeOut(w) \/ Fail(w) \/ BackoffEnds(w)
  \/ Unwind(w)

Lifecycle ==
  \/ Start
  \/ \E wait \in WaitModes : Stop(wait)
  \/ Drained \/ DrainTimesOut \/ Abandon

Next == Client \/ (\E w \in Workers : Work(w)) \/ Lifecycle

Spec == Init /\ [][Next]_vars

\* The event loop runs what is ready; nothing is assumed of agents or callbacks.
LoopFairness ==
  /\ WF_vars(Drained) /\ WF_vars(DrainTimesOut) /\ WF_vars(Abandon)
  /\ \A w \in Workers : WF_vars(BackoffEnds(w)) /\ WF_vars(Unwind(w))

\* In addition workers take what is queued, every agent call ends (its timeout
\* bounds it) and every callback returns.
AgentFairness == \A w \in Workers : WF_vars(Work(w))

FairSpec == Spec /\ LoopFairness
-----------------------------------------------------------------------------
(* Properties *)

\* The type of every variable; in particular task_done() is never called more
\* often than put(), which asyncio would answer with a ValueError in the worker.
TypeOK ==
  /\ phase \in {"down", "up", "draining", "gathering"}
  /\ accepting \in BOOLEAN
  /\ stamp \in [Tasks -> Nat]
  /\ nextStamp \in Nat \ {0}
  /\ status \in [Tasks -> Status]
  /\ retries \in [Tasks -> Nat]
  /\ pc \in [Workers -> {"off", "idle", "exec", "callback", "backoff"}]
  /\ job \in [Workers -> Tasks \cup {NoTask}]
  /\ runningTasks \in SUBSET Tasks
  /\ records \in [Tasks -> Nat]
  /\ unfinished \in Nat

\* join() accounting: the puts without a task_done are exactly the heap entries
\* and the tasks workers hold, whatever is cancelled, retried or abandoned.
JoinBalance ==
  unfinished = Cardinality(Queued) + Cardinality(BusyWorkers)

\* _running_tasks lists exactly the tasks live workers hold, no two workers hold
\* the same task, and a held task has no heap entry: nothing runs twice at once.
RunningIsHeld ==
  /\ \A t \in Tasks : t \in runningTasks <=> \E w \in BusyWorkers : job[w] = t
  /\ \A w \in Workers : Busy(w) <=> job[w] # NoTask
  /\ \A v, w \in BusyWorkers : job[v] = job[w] => v = w
  /\ \A t \in runningTasks : ~InQueue(t)

\* get_task_status() finds every accepted task: it is queued, running or on
\* record, and only one of these. A task that somebody cancelled is excused: its
\* consumed tombstone leaves no trace, and a cancel during backoff leaves two.
FoundInOnePlace ==
  \A t \in Tasks :
    status[t] \notin {"pending", "cancelled"} =>
      (IF InQueue(t) THEN 1 ELSE 0) + (IF t \in runningTasks THEN 1 ELSE 0)
        + records[t] = 1

\* A task that may still run has a try left: max_retries bounds its executions.
RetryBudget ==
  \A t \in Tasks :
    (InQueue(t) \/ t \in runningTasks) => retries[t] < MaxRetries \/ retries[t] = 0

\* "Fail whatever the cancelled workers left behind" (_abandon_remaining): no task
\* is still called queued or running once stop() has returned.
NothingLeftBehind ==
  phase = "down" /\ ~accepting =>
    \A t \in Tasks : status[t] \notin {"queued", "running"}

\* cancel_task() of a queued task answers True, and that task never runs, also
\* when the queue is stopped or the tombstone was put back by a retry.
CancelledNeverRuns ==
  [][\A t \in Tasks : InQueue(t) /\ status[t] = "cancelled" =>
       status'[t] = "cancelled" /\ t \notin runningTasks']_vars

\* After stop() was called no task starts over: a failing task is not put back,
\* and what stop() leaves behind is never taken by a worker again.
NoRetryWhileStopping ==
  [][\A t \in Tasks : ~accepting /\ ~InQueue(t) => stamp'[t] = 0]_vars

\* "shutdown can never hang": stop() returns even if agents and callbacks never
\* answer, because the drain is bounded.
StopReturns == phase \in {"draining", "gathering"} ~> phase = "down"

\* An accepted task is not starved: as long as agents answer or time out, a task
\* in the queue of a running service reaches a final status outside the queue, by
\* execution, by cancellation or by the shutdown.
Settled(t) == status[t] \in Terminal /\ ~InQueue(t) /\ t \notin runningTasks
EveryTaskSettles ==
  AgentFairness => \A t \in Tasks : (phase # "down" /\ InQueue(t)) ~> Settled(t)

\* The queue implements its promise: place of a task seen by a client.
PlaceOf(t) ==
  IF status[t] = "pending" THEN "new"
  ELSE IF InQueue(t) THEN "waiting"
  ELSE IF t \in runningTasks THEN "active"
  ELSE "closed"

Ledger == INSTANCE TaskLedger WITH
            place <- [t \in Tasks |-> PlaceOf(t)],
            open <- accepting,
            Room <- MaxQueue,
            Slots <- Cardinality(Workers)

\* Every behaviour of the queue is one of the ledger.
ImplementsLedger == Ledger!LedgerSpec
=============================================================================
