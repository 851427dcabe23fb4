-------------------------- MODULE QueueWorkerProofs --------------------------
(***************************************************************************)
(* Proofs about QueueWorker for any tasks, workers, bounds and stop modes. *)
(*                                                                         *)
(* The inductive invariant IInv adds to the properties what the lifecycle  *)
(* code relies on without saying it: while down no worker exists, and      *)
(* after stop() was called the queue is closed.  FInv adds what keeps a    *)
(* task from being lost or doubled; the last part is the refinement.       *)
(***************************************************************************)
EXTENDS QueueWorker, FiniteSetTheorems, TLAPS

Shape ==
  /\ phase \in {"down", "up", "draining", "gathering"}
  /\ accepting \in BOOLEAN
  /\ stamp \in [Tasks -> Nat]
  /\ nextStamp \in Nat \ {0}
  /\ status \in [Tasks -> Status]
  /\ retries \in [Tasks -> Nat]
  /\ pc \in [Workers -> {"off", "idle", "exec", "callback", "backoff"}]
  /\ job \in [Workers -> Tasks \cup {NoTask}]
  /\ runningTasks \in SUBSET Tasks
  /\ records \in [Tasks -> Nat]
  /\ unfinished \in Int

Phases ==
  /\ phase = "down" => \A w \in Workers : pc[w] = "off"
  /\ phase \in {"draining", "gathering"} => ~accepting

\* A task no client has handed in yet is nowhere.
Fresh ==
  \A t \in Tasks : status[t] = "pending" => ~InQueue(t) /\ t \notin runningTasks

IInv == Shape /\ Phases /\ Fresh /\ RunningIsHeld /\ JoinBalance

-----------------------------------------------------------------------------
(* Counting *)

\* What a put and a get do to the number of heap entries.
LEMMA QueuedCount ==
  ASSUME Shape, NEW t \in Tasks
  PROVE  /\ IsFiniteSet(Queued)
         /\ Cardinality(Queued) \in Nat
         /\ (stamp' = [stamp EXCEPT ![t] = nextStamp] /\ ~InQueue(t)) =>
              Cardinality(Queued') = Cardinality(Queued) + 1
         /\ (stamp' = [stamp EXCEPT ![t] = 0] /\ InQueue(t)) =>
              Cardinality(Queued') = Cardinality(Queued) - 1
<1>1. IsFiniteSet(Queued)
  BY FS_Subset, QueueAssumption DEF Queued
<1>2. Cardinality(Queued) \in Nat
  BY <1>1, FS_CardinalityType
<1>3. ASSUME stamp' = [stamp EXCEPT ![t] = nextStamp], ~InQueue(t)
      PROVE  Cardinality(Queued') = Cardinality(Queued) + 1
  <2>1. Queued' = Queued \cup {t} /\ t \notin Queued
    BY <1>3 DEF Queued, InQueue, Shape
  <2> QED BY <2>1, <1>1, FS_AddElement
<1>4. ASSUME stamp' = [stamp EXCEPT ![t] = 0], InQueue(t)
      PROVE  Cardinality(Queued') = Cardinality(Queued) - 1
  <2>1. Queued' = Queued \ {t} /\ t \in Queued
    BY <1>4 DEF Queued, InQueue, Shape
  <2> QED BY <2>1, <1>1, FS_RemoveElement
<1> QED BY <1>1, <1>2, <1>3, <1>4

\* What starting and finishing a task do to the number of busy workers.
LEMMA BusyCount ==
  ASSUME Shape, NEW w \in Workers
  PROVE  /\ IsFiniteSet(BusyWorkers)
         /\ Cardinality(BusyWorkers) \in Nat
         /\ (pc' = [pc EXCEPT ![w] = "exec"] /\ ~Busy(w)) =>
              Cardinality(BusyWorkers') = Cardinality(BusyWorkers) + 1
         /\ \A next \in {"idle", "off"} :
              (pc' = [pc EXCEPT ![w] = next] /\ Busy(w)) =>
                Cardinality(BusyWorkers') = Cardinality(BusyWorkers) - 1
<1>1. IsFiniteSet(BusyWorkers)
  BY FS_Subset, QueueAssumption DEF BusyWorkers
<1>2. Cardinality(BusyWorkers) \in Nat
  BY <1>1, FS_CardinalityType
<1>3. ASSUME pc' = [pc EXCEPT ![w] = "exec"], ~Busy(w)
      PROVE  Cardinality(BusyWorkers') = Cardinality(BusyWorkers) + 1
  <2>1. BusyWorkers' = BusyWorkers \cup {w} /\ w \notin BusyWorkers
    BY <1>3 DEF BusyWorkers, Busy, Shape
  <2> QED BY <2>1, <1>1, FS_AddElement
<1>4. ASSUME NEW next \in {"idle", "off"}, pc' = [pc EXCEPT ![w] = next], Busy(w)
      PROVE  Cardinality(BusyWorkers') = Cardinality(BusyWorkers) - 1
  <2>1. BusyWorkers' = BusyWorkers \ {w} /\ w \in BusyWorkers
    BY <1>4 DEF BusyWorkers, Busy, Shape
  <2> QED BY <2>1, <1>1, FS_RemoveElement
<1> QED BY <1>1, <1>2, <1>3, <1>4

-----------------------------------------------------------------------------
(* The finally block *)

\* Whatever way a task ends, the finally block keeps the invariant, provided it
\* runs for a busy worker, the task is put back only as the retry branch does,
\* and the shape of stamp and retries is kept.
LEMMA FinallyKeeps ==
  ASSUME IInv, NEW w \in Workers, Busy(w),
         NEW st \in Status \ {"pending"}, NEW next \in {"idle", "off"}, NEW puts \in {0, 1},
         Finally(w, job[w], st, puts, next),
         puts = 0 => UNCHANGED <<stamp, nextStamp>>,
         puts = 1 => /\ stamp' = [stamp EXCEPT ![job[w]] = nextStamp]
                     /\ nextStamp' = nextStamp + 1,
         retries' \in [Tasks -> Nat],
         phase' = phase, accepting' = accepting
  PROVE  IInv'
<1> DEFINE t == job[w]
<1>0. t \in Tasks /\ t \in runningTasks /\ ~InQueue(t) /\ w \in BusyWorkers
  BY DEF IInv, Shape, RunningIsHeld, BusyWorkers, Busy
<1>1. Shape'
  <2>1. stamp' \in [Tasks -> Nat] /\ nextStamp' \in Nat \ {0}
    <3>1. CASE puts = 0
      BY <3>1 DEF IInv, Shape
    <3>2. CASE puts = 1
      BY <3>2, <1>0 DEF IInv, Shape
    <3> QED BY <3>1, <3>2
  <2>2. records' \in [Tasks -> Nat]
    BY <1>0 DEF IInv, Shape, Finally
  <2>3. status' \in [Tasks -> Status] /\ unfinished' \in Int
        /\ runningTasks' \in SUBSET Tasks
    BY <1>0 DEF IInv, Shape, Finally
  <2>4. pc' \in [Workers -> {"off", "idle", "exec", "callback", "backoff"}]
        /\ job' \in [Workers -> Tasks \cup {NoTask}]
    BY DEF IInv, Shape, Finally
  <2> QED BY <2>1, <2>2, <2>3, <2>4 DEF IInv, Shape
<1>2. Phases'
  BY DEF IInv, Phases, Shape, Finally, Busy
<1>3. RunningIsHeld'
  <2>1. BusyWorkers' = BusyWorkers \ {w}
    BY DEF IInv, Shape, Finally, BusyWorkers, Busy
  <2>2. job' = [job EXCEPT ![w] = NoTask] /\ runningTasks' = runningTasks \ {t}
    BY DEF Finally
  <2>3. \A u \in Tasks : u \in runningTasks' <=> \E v \in BusyWorkers' : job'[v] = u
    BY <2>1, <2>2, <1>0 DEF IInv, Shape, RunningIsHeld, BusyWorkers
  <2>4. \A v \in Workers : Busy(v)' <=> job'[v] # NoTask
    BY <2>2, <1>0, QueueAssumption DEF IInv, Shape, RunningIsHeld, Finally, Busy
  <2>5. \A u, v \in BusyWorkers' : job'[u] = job'[v] => u = v
    BY <2>1, <2>2 DEF IInv, Shape, RunningIsHeld, BusyWorkers
  <2>6. \A u \in runningTasks' : ~InQueue(u)'
    BY <2>2, <1>0 DEF IInv, Shape, RunningIsHeld, InQueue
  <2> QED BY <2>3, <2>4, <2>5, <2>6 DEF RunningIsHeld
<1>4. JoinBalance'
  <2>1. Cardinality(BusyWorkers') = Cardinality(BusyWorkers) - 1
    BY BusyCount DEF IInv, Finally
  <2>2. Cardinality(Queued') = Cardinality(Queued) + puts
    <3>1. CASE puts = 0
      <4>1. Queued' = Queued
        BY <3>1 DEF Queued, InQueue
      <4> QED BY <4>1, <3>1, <1>0, QueuedCount DEF IInv
    <3>2. CASE puts = 1
      BY <3>2, <1>0, QueuedCount DEF IInv
    <3> QED BY <3>1, <3>2
  <2>3. Cardinality(Queued) \in Nat /\ Cardinality(BusyWorkers) \in Nat
    BY <1>0, QueuedCount, BusyCount DEF IInv
  <2>4. unfinished' = unfinished + puts - 1
    BY DEF Finally
  <2> QED BY <2>1, <2>2, <2>3, <2>4 DEF IInv, JoinBalance, Shape
<1>5. Fresh'
  <2> SUFFICES ASSUME NEW u \in Tasks, status'[u] = "pending"
               PROVE  ~InQueue(u)' /\ u \notin runningTasks'
    BY DEF Fresh
  <2>1. u # t
    BY <1>0 DEF IInv, Shape, Finally
  <2>2. ~InQueue(u) /\ u \notin runningTasks
    BY <2>1, <1>0 DEF IInv, Shape, Fresh, Finally
  <2>3. stamp'[u] = stamp[u]
    BY <2>1, <1>0 DEF IInv, Shape
  <2> QED BY <2>2, <2>3 DEF Finally, InQueue
<1> QED BY <1>1, <1>2, <1>3, <1>4, <1>5 DEF IInv

-----------------------------------------------------------------------------
(* The steps *)

LEMMA InitEstablishes == Init => IInv
<1> SUFFICES ASSUME Init PROVE IInv
  OBVIOUS
<1>1. Queued = {} /\ BusyWorkers = {}
  BY DEF Init, Queued, InQueue, BusyWorkers, Busy
<1>2. JoinBalance
  BY <1>1, FS_EmptySet DEF Init, JoinBalance
<1>3. Shape /\ Phases /\ Fresh
  BY QueueAssumption DEF Init, Shape, Phases, Status, Fresh, InQueue
<1>4. RunningIsHeld
  BY <1>1 DEF Init, RunningIsHeld, Busy, InQueue
<1> QED BY <1>2, <1>3, <1>4 DEF IInv

LEMMA EnqueueKeeps ==
  ASSUME IInv, NEW t \in Tasks, Enqueue(t)
  PROVE  IInv'
<1>0. ~InQueue(t) /\ t \notin runningTasks
  BY DEF IInv, Fresh, Enqueue
<1>1. Shape' /\ Phases'
  BY DEF IInv, Shape, Phases, Enqueue, Status
<1>2. Fresh' /\ RunningIsHeld'
  BY <1>0 DEF IInv, Shape, Fresh, RunningIsHeld, Enqueue, InQueue, BusyWorkers, Busy
<1>3. JoinBalance'
  <2>1. Cardinality(Queued') = Cardinality(Queued) + 1
    BY <1>0, QueuedCount DEF IInv, Enqueue
  <2>2. BusyWorkers' = BusyWorkers
    BY DEF Enqueue, BusyWorkers, Busy
  <2>3. Cardinality(Queued) \in Nat
    BY QueuedCount DEF IInv
  <2>5. IsFiniteSet(BusyWorkers)
    BY FS_Subset, QueueAssumption DEF BusyWorkers
  <2>6. Cardinality(BusyWorkers) \in Nat
    BY <2>5, FS_CardinalityType
  <2> QED BY <2>1, <2>2, <2>3, <2>6 DEF IInv, JoinBalance, Enqueue
<1> QED BY <1>1, <1>2, <1>3 DEF IInv

LEMMA CancelTaskKeeps ==
  ASSUME IInv, NEW t \in Tasks, CancelTask(t)
  PROVE  IInv'
<1>1. Shape' /\ Phases'
  BY DEF IInv, Shape, Phases, CancelTask, Status
<1>2. Fresh' /\ RunningIsHeld'
  BY DEF IInv, Shape, Fresh, RunningIsHeld, CancelTask, InQueue, BusyWorkers, Busy
<1>3. JoinBalance'
  BY DEF IInv, JoinBalance, CancelTask, Queued, InQueue, BusyWorkers, Busy
<1> QED BY <1>1, <1>2, <1>3 DEF IInv

LEMMA SkipTombstoneKeeps ==
  ASSUME IInv, NEW w \in Workers, NEW t \in Tasks, SkipTombstone(w, t)
  PROVE  IInv'
<1>0. InQueue(t)
  BY DEF SkipTombstone, IsFirst
<1>1. Shape' /\ Phases'
  BY DEF IInv, Shape, Phases, SkipTombstone
<1>2. Fresh' /\ RunningIsHeld'
  BY <1>0 DEF IInv, Shape, Fresh, RunningIsHeld, SkipTombstone, InQueue,
              BusyWorkers, Busy
<1>3. JoinBalance'
  <2>1. Cardinality(Queued') = Cardinality(Queued) - 1
    BY <1>0, QueuedCount DEF IInv, SkipTombstone
  <2>2. BusyWorkers' = BusyWorkers
    BY DEF SkipTombstone, BusyWorkers, Busy
  <2>3. Cardinality(Queued) \in Nat /\ Cardinality(BusyWorkers) \in Nat
    BY QueuedCount, BusyCount DEF IInv
  <2> QED BY <2>1, <2>2, <2>3 DEF IInv, JoinBalance, SkipTombstone
<1> QED BY <1>1, <1>2, <1>3 DEF IInv

LEMMA TakeKeeps ==
  ASSUME IInv, NEW w \in Workers, NEW t \in Tasks, Take(w, t)
  PROVE  IInv'
<1>0. InQueue(t) /\ t \notin runningTasks /\ ~Busy(w) /\ job[w] = NoTask
  BY DEF IInv, Shape, RunningIsHeld, Take, IsFirst, Busy
<1>1. Shape'
  BY DEF IInv, Shape, Take, Status
<1>2. Phases' /\ Fresh'
  BY <1>0 DEF IInv, Shape, Phases, Fresh, Take, InQueue
<1>3. RunningIsHeld'
  <2>1. BusyWorkers' = BusyWorkers \cup {w} /\ w \notin BusyWorkers
    BY <1>0 DEF IInv, Shape, Take, BusyWorkers, Busy
  <2>2. job' = [job EXCEPT ![w] = t] /\ runningTasks' = runningTasks \cup {t}
    BY DEF Take
  <2>3. \A u \in Tasks : u \in runningTasks' <=> \E v \in BusyWorkers' : job'[v] = u
    BY <2>1, <2>2 DEF IInv, Shape, RunningIsHeld, BusyWorkers
  <2>4. \A v \in Workers : Busy(v)' <=> job'[v] # NoTask
    BY <2>2, QueueAssumption DEF IInv, Shape, RunningIsHeld, Take, Busy
  <2>5. \A u, v \in BusyWorkers' : job'[u] = job'[v] => u = v
    BY <2>1, <2>2, <1>0 DEF IInv, Shape, RunningIsHeld, BusyWorkers
  <2>6. \A u \in runningTasks' : ~InQueue(u)'
    BY <2>2 DEF IInv, Shape, RunningIsHeld, Take, InQueue
  <2> QED BY <2>3, <2>4, <2>5, <2>6 DEF RunningIsHeld
<1>4. JoinBalance'
  <2>1. Cardinality(Queued') = Cardinality(Queued) - 1
    BY <1>0, QueuedCount DEF IInv, Take
  <2>2. Cardinality(BusyWorkers') = Cardinality(BusyWorkers) + 1
    BY <1>0, BusyCount DEF IInv, Take
  <2>3. Cardinality(Queued) \in Nat /\ Cardinality(BusyWorkers) \in Nat
    BY QueuedCount, BusyCount DEF IInv
  <2> QED BY <2>1, <2>2, <2>3 DEF IInv, JoinBalance, Take, Shape
<1> QED BY <1>1, <1>2, <1>3, <1>4 DEF IInv
\* An await inside _execute_task: the worker keeps the task it holds, and only the
\* task's status and retry count may change.
LEMMA AwaitKeeps ==
  ASSUME IInv, NEW w \in Workers, Busy(w),
         NEW st \in Status \ {"pending"}, NEW at \in {"callback", "backoff"},
         status' = [status EXCEPT ![job[w]] = st],
         pc' = [pc EXCEPT ![w] = at],
         retries' \in [Tasks -> Nat],
         UNCHANGED <<phase, accepting, stamp, nextStamp, job, runningTasks,
                     records, unfinished>>
  PROVE  IInv'
<1>0. job[w] \in runningTasks /\ phase # "down"
  BY DEF IInv, Shape, Phases, RunningIsHeld, BusyWorkers, Busy
<1>1. Shape' /\ Phases'
  BY <1>0 DEF IInv, Shape, Phases
<1>2. BusyWorkers' = BusyWorkers /\ \A v \in Workers : Busy(v)' <=> Busy(v)
  BY DEF IInv, Shape, BusyWorkers, Busy
<1>3. Fresh' /\ RunningIsHeld'
  BY <1>0, <1>2 DEF IInv, Shape, Fresh, RunningIsHeld, InQueue
<1>4. JoinBalance'
  BY <1>2 DEF IInv, JoinBalance, Queued, InQueue
<1> QED BY <1>1, <1>3, <1>4 DEF IInv

LEMMA AgentStepKeeps ==
  ASSUME IInv, NEW w \in Workers,
         Succeed(w) \/ CallbackDone(w) \/ TimeOut(w) \/ Fail(w)
  PROVE  IInv'
<1>0. Busy(w) /\ job[w] \in Tasks /\ job[w] \in runningTasks
  BY DEF IInv, Shape, RunningIsHeld, BusyWorkers, Busy, Succeed, CallbackDone,
         TimeOut, Fail, Resumes
<1>1. status[job[w]] \in Status \ {"pending"}
  BY <1>0 DEF IInv, Shape, Fresh
<1>2. CASE Succeed(w)
  <2>1. CASE job[w] \in Callbacks
    BY <1>0, <1>2, <2>1, AwaitKeeps DEF Succeed, Status, IInv, Shape
  <2>2. CASE job[w] \notin Callbacks
    <3>1. Finally(w, job[w], "completed", 0, "idle")
      BY <1>2, <2>2 DEF Succeed
    <3> QED BY <1>0, <1>2, <3>1, FinallyKeeps DEF Succeed, Status, IInv, Shape
  <2> QED BY <2>1, <2>2
<1>3. CASE CallbackDone(w)
  BY <1>0, <1>1, <1>3, FinallyKeeps DEF CallbackDone, IInv, Shape
<1>4. CASE TimeOut(w)
  BY <1>0, <1>4, FinallyKeeps DEF TimeOut, Status, IInv, Shape
<1>5. CASE Fail(w)
  <2>0. retries' \in [Tasks -> Nat]
    BY <1>0, <1>5 DEF Fail, IInv, Shape
  <2>1. CASE MayRetry(job[w])
    BY <1>0, <1>5, <2>0, <2>1, AwaitKeeps DEF Fail, Status
  <2>2. CASE ~MayRetry(job[w])
    <3>1. Finally(w, job[w], "failed", 0, "idle")
      BY <1>5, <2>2 DEF Fail
    <3> QED BY <1>0, <1>5, <2>0, <3>1, FinallyKeeps DEF Fail, Status
  <2> QED BY <2>1, <2>2
<1> QED BY <1>2, <1>3, <1>4, <1>5

LEMMA BackoffEndsKeeps ==
  ASSUME IInv, NEW w \in Workers, BackoffEnds(w)
  PROVE  IInv'
<1>0. Busy(w) /\ job[w] \in Tasks /\ job[w] \in runningTasks
  BY DEF IInv, Shape, RunningIsHeld, BusyWorkers, Busy, BackoffEnds, Resumes
<1>1. status[job[w]] \in Status \ {"pending"} /\ retries' \in [Tasks -> Nat]
  BY <1>0 DEF IInv, Shape, Fresh, BackoffEnds
<1>2. CASE MayRequeue
  <2>1. Finally(w, job[w], status[job[w]], 1, "idle")
    BY <1>2 DEF BackoffEnds
  <2> QED BY <1>0, <1>1, <1>2, <2>1, FinallyKeeps DEF BackoffEnds
<1>3. CASE ~MayRequeue
  <2>1. Finally(w, job[w], "failed", 0, "idle")
    BY <1>3 DEF BackoffEnds
  <2> QED BY <1>0, <1>1, <1>3, <2>1, FinallyKeeps DEF BackoffEnds, Status
<1> QED BY <1>2, <1>3

LEMMA UnwindKeeps ==
  ASSUME IInv, NEW w \in Workers, Unwind(w)
  PROVE  IInv'
<1>1. CASE Busy(w)
  <2>0. job[w] \in Tasks /\ job[w] \in runningTasks
    BY <1>1 DEF IInv, Shape, RunningIsHeld, BusyWorkers
  <2>1. status[job[w]] \in Status \ {"pending"} /\ retries' \in [Tasks -> Nat]
    BY <2>0 DEF IInv, Shape, Fresh, Unwind
  <2>2. PICK st \in {status[job[w]], "failed"} : Finally(w, job[w], st, 0, "off")
    BY <1>1 DEF Unwind
  <2>3. st \in Status \ {"pending"}
    BY <2>1 DEF Status
  <2> QED BY <1>1, <2>1, <2>2, <2>3, FinallyKeeps DEF Unwind
<1>2. CASE ~Busy(w)
  <2>1. BusyWorkers' = BusyWorkers /\ \A v \in Workers : Busy(v)' <=> Busy(v)
    BY <1>2 DEF IInv, Shape, BusyWorkers, Busy, Unwind
  <2>2. Shape' /\ Phases' /\ Fresh'
    BY <1>2 DEF IInv, Shape, Phases, Fresh, InQueue, Unwind
  <2>3. RunningIsHeld'
    BY <1>2, <2>1 DEF IInv, RunningIsHeld, InQueue, Unwind
  <2>4. JoinBalance'
    BY <1>2, <2>1 DEF IInv, JoinBalance, Queued, InQueue, Unwind
  <2> QED BY <2>2, <2>3, <2>4 DEF IInv
<1> QED BY <1>1, <1>2

LEMMA StartStopKeeps ==
  ASSUME IInv, Start \/ (\E wait \in WaitModes : Stop(wait)) \/ Drained \/ DrainTimesOut
  PROVE  IInv'
<1>1. CASE Start
  <2>1. \A w \in Workers : pc[w] = "off" /\ pc'[w] = "idle"
    BY <1>1 DEF IInv, Phases, Start
  <2>2. BusyWorkers' = BusyWorkers /\ \A v \in Workers : Busy(v)' <=> Busy(v)
    BY <2>1 DEF BusyWorkers, Busy
  <2>3. Shape' /\ Phases' /\ Fresh'
    BY <1>1 DEF IInv, Shape, Phases, Fresh, InQueue, Start
  <2>4. RunningIsHeld'
    BY <1>1, <2>2 DEF IInv, RunningIsHeld, InQueue, Start
  <2>5. JoinBalance'
    BY <1>1, <2>2 DEF IInv, JoinBalance, Queued, InQueue, Start
  <2> QED BY <2>3, <2>4, <2>5 DEF IInv
<1>2. ASSUME (\E wait \in WaitModes : Stop(wait)) \/ Drained \/ DrainTimesOut
      PROVE  IInv'
  <2>1. UNCHANGED <<stamp, nextStamp, status, retries, pc, job, runningTasks,
                    records, unfinished>>
    BY <1>2 DEF Stop, Drained, DrainTimesOut
  <2>5. phase # "down" /\ phase' \in {"draining", "gathering"} /\ ~accepting'
    BY <1>2 DEF IInv, Phases, Stop, Drained, DrainTimesOut
  <2>6. accepting' \in BOOLEAN
    BY <1>2 DEF IInv, Shape, Stop, Drained, DrainTimesOut
  <2>2. Shape' /\ Phases'
    BY <2>1, <2>5, <2>6 DEF IInv, Shape, Phases
  <2>3. Fresh' /\ RunningIsHeld'
    BY <2>1 DEF IInv, Fresh, RunningIsHeld, InQueue, BusyWorkers, Busy
  <2>4. JoinBalance'
    BY <2>1 DEF IInv, JoinBalance, Queued, InQueue, BusyWorkers, Busy
  <2> QED BY <2>2, <2>3, <2>4 DEF IInv
<1> QED BY <1>1, <1>2

LEMMA AbandonKeeps ==
  ASSUME IInv, Abandon
  PROVE  IInv' /\ Queued' = {} /\ runningTasks' = {} /\ unfinished' = 0
<1>1. BusyWorkers = {} /\ BusyWorkers' = {}
  BY DEF Abandon, BusyWorkers, Busy
<1>2. Queued' = {}
  BY DEF Abandon, Queued, InQueue
<1>3. IsFiniteSet(Queued) /\ Cardinality(Queued) \in Nat
  BY FS_Subset, FS_CardinalityType, QueueAssumption DEF Queued
<1>4. unfinished' = 0
  BY <1>1, <1>3, FS_EmptySet DEF IInv, JoinBalance, Abandon
<1>5. JoinBalance'
  BY <1>1, <1>2, <1>4, FS_EmptySet DEF JoinBalance
<1>6. Shape'
  <2>1. \A t \in Tasks : AbandonedStatus(t) \in Status
    BY DEF IInv, Shape, AbandonedStatus, Status
  <2>2. \A t \in Tasks : Leftovers(t) \in Nat
    BY DEF Leftovers
  <2>3. status' \in [Tasks -> Status] /\ records' \in [Tasks -> Nat]
    BY <2>1, <2>2 DEF IInv, Shape, Abandon
  <2> QED BY <1>4, <2>3 DEF IInv, Shape, Abandon
<1>7. Phases'
  BY DEF IInv, Phases, Abandon
<1>8. Fresh' /\ RunningIsHeld'
  BY <1>1, <1>2 DEF IInv, Fresh, RunningIsHeld, Abandon, Queued, InQueue, Busy
<1> QED BY <1>2, <1>4, <1>5, <1>6, <1>7, <1>8 DEF IInv, Abandon

LEMMA StepKeeps == IInv /\ [Next]_vars => IInv'
<1> SUFFICES ASSUME IInv, [Next]_vars PROVE IInv'
  OBVIOUS
<1>1. ASSUME NEW t \in Tasks, Enqueue(t) \/ CancelTask(t) PROVE IInv'
  BY <1>1, EnqueueKeeps, CancelTaskKeeps
<1>2. ASSUME NEW w \in Workers, Work(w) PROVE IInv'
  <2>1. CASE \E t \in Tasks : SkipTombstone(w, t) \/ Take(w, t)
    BY <2>1, SkipTombstoneKeeps, TakeKeeps
  <2>2. CASE Succeed(w) \/ CallbackDone(w) \/ TimeOut(w) \/ Fail(w)
    BY <2>2, AgentStepKeeps
  <2>3. CASE BackoffEnds(w) \/ Unwind(w)
    BY <2>3, BackoffEndsKeeps, UnwindKeeps
  <2> QED BY <1>2, <2>1, <2>2, <2>3 DEF Work
<1>3. CASE Lifecycle
  BY <1>3, StartStopKeeps, AbandonKeeps DEF Lifecycle
<1>4. CASE UNCHANGED vars
  BY <1>4 DEF vars, IInv, Shape, Phases, Fresh, RunningIsHeld, JoinBalance, Queued,
              InQueue, BusyWorkers, Busy
<1> QED BY <1>1, <1>2, <1>3, <1>4 DEF Next, Client

\* IInv holds in every reachable state.
THEOREM Invariance == Spec => []IInv
<1>1. Init => IInv
  BY InitEstablishes
<1>2. IInv /\ [Next]_vars => IInv'
  BY StepKeeps
<1> QED BY <1>1, <1>2, PTL DEF Spec

-----------------------------------------------------------------------------
(* The results *)

\* Every variable keeps its type, and task_done() is never called too often.
THEOREM TypeCorrect == Spec => []TypeOK
<1>1. IInv => TypeOK
  <2> SUFFICES ASSUME IInv PROVE TypeOK
    OBVIOUS
  <2>1. IsFiniteSet(Queued) /\ IsFiniteSet(BusyWorkers)
    BY FS_Subset, QueueAssumption DEF Queued, BusyWorkers
  <2>2. Cardinality(Queued) \in Nat /\ Cardinality(BusyWorkers) \in Nat
    BY <2>1, FS_CardinalityType
  <2> QED BY <2>2 DEF IInv, Shape, TypeOK, JoinBalance
<1> QED BY <1>1, Invariance, PTL

\* join() is exact: it returns when, and only when, no task is queued or held.
THEOREM JoinIsExact == Spec => []JoinBalance
<1>1. IInv => JoinBalance
  BY DEF IInv
<1> QED BY <1>1, Invariance, PTL

\* No task is executed by two workers at once or while it has a heap entry.
THEOREM SingleExecution == Spec => []RunningIsHeld
<1>1. IInv => RunningIsHeld
  BY DEF IInv
<1> QED BY <1>1, Invariance, PTL

\* A queue that is stopping takes nothing back.
THEOREM ClosedQueueStaysClosed == Spec => NoRetryWhileStopping
<1>1. IInv /\ [Next]_vars =>
        [\A t \in Tasks : ~accepting /\ ~InQueue(t) => stamp'[t] = 0]_vars
  <2> SUFFICES ASSUME IInv, Next, ~accepting, NEW t \in Tasks, ~InQueue(t)
               PROVE  stamp'[t] = 0
    OBVIOUS
  <2>0. stamp[t] = 0
    BY DEF IInv, Shape, InQueue
  <2>1. CASE Client
    BY <2>0, <2>1 DEF Client, Enqueue, CancelTask
  <2>2. ASSUME NEW w \in Workers, Work(w) PROVE stamp'[t] = 0
    BY <2>0, <2>2 DEF IInv, Shape, Work, SkipTombstone, Take, Succeed, CallbackDone,
       TimeOut, Fail, BackoffEnds, MayRequeue, Unwind
  <2>3. CASE Lifecycle
    BY <2>0, <2>3 DEF Lifecycle, Start, Stop, Drained, DrainTimesOut, Abandon
  <2> QED BY <2>1, <2>2, <2>3 DEF Next
<1> QED BY <1>1, Invariance, PTL DEF Spec, NoRetryWhileStopping

\* A tombstone stays one: what cancel_task() marked in the heap is never executed.
THEOREM TombstonesAreFinal == Spec => CancelledNeverRuns
<1> DEFINE Tomb(t) == InQueue(t) /\ status[t] = "cancelled"
           Kept(t) == status'[t] = "cancelled" /\ t \notin runningTasks'
<1>1. IInv /\ [Next]_vars => [\A t \in Tasks : Tomb(t) => Kept(t)]_vars
  <2> SUFFICES ASSUME IInv, Next, NEW t \in Tasks, Tomb(t)
               PROVE  Kept(t)
    OBVIOUS
  <2>0. t \notin runningTasks /\ \A w \in Workers : job[w] # t
    <3>1. t \notin runningTasks
      BY DEF IInv, RunningIsHeld
    <3>2. ASSUME NEW w \in Workers, job[w] = t PROVE FALSE
      <4>1. Busy(w)
        BY <3>2, QueueAssumption DEF IInv, RunningIsHeld
      <4> QED BY <3>1, <3>2, <4>1 DEF IInv, RunningIsHeld, BusyWorkers
    <3> QED BY <3>1, <3>2
  <2>1. CASE Client
    BY <2>0, <2>1 DEF Client, Enqueue, CancelTask, IInv, Shape
  <2>2. ASSUME NEW w \in Workers, Work(w) PROVE Kept(t)
    <3>1. CASE \E u \in Tasks : SkipTombstone(w, u) \/ Take(w, u)
      BY <2>0, <3>1 DEF SkipTombstone, Take, IsTombstone, IInv, Shape
    <3>2. CASE Succeed(w) \/ CallbackDone(w) \/ TimeOut(w) \/ Fail(w)
      BY <2>0, <3>2 DEF Succeed, CallbackDone, TimeOut, Fail, Finally, IInv, Shape
    <3>3. CASE BackoffEnds(w) \/ Unwind(w)
      BY <2>0, <3>3 DEF BackoffEnds, Unwind, Finally, IInv, Shape
    <3> QED BY <2>2, <3>1, <3>2, <3>3 DEF Work
  <2>3. CASE Lifecycle
    <3>1. CASE Abandon
      BY <3>1 DEF Abandon, AbandonedStatus, Queued
    <3>2. CASE ~Abandon
      BY <2>0, <2>3, <3>2 DEF Lifecycle, Start, Stop, Drained, DrainTimesOut
    <3> QED BY <3>1, <3>2
  <2> QED BY <2>1, <2>2, <2>3 DEF Next
<1> QED BY <1>1, Invariance, PTL DEF Spec, CancelledNeverRuns

\* max_retries bounds the executions of every task.
THEOREM RetriesAreBounded == Spec => []RetryBudget
<1> DEFINE Left(t) == InQueue(t) \/ t \in runningTasks
           Budget(t) == retries[t] < MaxRetries \/ retries[t] = 0
           NewOnes == \A t \in Tasks : status[t] = "pending" => retries[t] = 0
           RInv == IInv /\ NewOnes /\ RetryBudget
<1>1. Init => RInv
  BY InitEstablishes DEF Init, RetryBudget
<1>2. RInv /\ [Next]_vars => RInv'
  <2> SUFFICES ASSUME RInv, [Next]_vars
               PROVE  NewOnes' /\ RetryBudget'
    BY StepKeeps
  <2>1. ASSUME UNCHANGED retries,
               \A t \in Tasks : Left(t)' => Left(t) \/ status[t] = "pending",
               \A t \in Tasks : status'[t] = "pending" => status[t] = "pending"
        PROVE  NewOnes' /\ RetryBudget'
    BY <2>1 DEF RetryBudget
  <2>2. CASE Client
    BY <2>1, <2>2 DEF Client, Enqueue, CancelTask, IInv, Shape, InQueue
  <2>3. ASSUME NEW w \in Workers, Work(w) PROVE NewOnes' /\ RetryBudget'
    <3>0. Busy(w) => job[w] \in runningTasks /\ job[w] \in Tasks
      BY DEF IInv, Shape, RunningIsHeld, BusyWorkers
    <3>1. CASE \E u \in Tasks : SkipTombstone(w, u) \/ Take(w, u)
      BY <2>1, <3>1 DEF SkipTombstone, Take, IsFirst, IInv, Shape, InQueue
    <3>2. CASE Succeed(w) \/ CallbackDone(w) \/ TimeOut(w)
      BY <2>1, <3>0, <3>2 DEF Succeed, CallbackDone, TimeOut, Resumes, Finally, Busy,
         IInv, Shape, InQueue
    <3>3. CASE Fail(w)
      <4>0. job[w] \in runningTasks /\ job[w] \in Tasks
        BY <3>0, <3>3 DEF Fail, Resumes, Busy
      <4>1. NewOnes'
        BY <4>0, <3>3 DEF Fail, Finally, IInv, Shape
      <4>2. ASSUME NEW t \in Tasks, t # job[w], Left(t)' PROVE Budget(t)'
        BY <4>0, <4>2, <3>3 DEF Fail, Finally, IInv, Shape, RetryBudget, InQueue
      <4>3. ASSUME NEW t \in Tasks, t = job[w], Left(t)' PROVE Budget(t)'
        <5>1. ~InQueue(t)
          BY <4>0, <4>3 DEF IInv, RunningIsHeld
        <5>2. MayRetry(t)
          <6> SUFFICES ASSUME ~MayRetry(t) PROVE FALSE
            OBVIOUS
          <6>1. runningTasks' = runningTasks \ {t} /\ stamp' = stamp
            BY <4>3, <3>3 DEF Fail, Finally
          <6> QED BY <4>3, <5>1, <6>1 DEF InQueue
        <5> QED BY <4>3, <5>2, <3>3 DEF Fail, MayRetry, IInv, Shape
      <4> QED BY <4>1, <4>2, <4>3 DEF RetryBudget
    <3>4. CASE BackoffEnds(w) \/ Unwind(w)
      <4>1. UNCHANGED retries
        BY <3>4 DEF BackoffEnds, Unwind
      <4>2. CASE Busy(w)
        <5>1. job[w] \in runningTasks /\ job[w] \in Tasks /\ status[job[w]] # "pending"
          BY <3>0, <4>2 DEF IInv, Fresh
        <5>2. PICK st \in {status[job[w]], "failed"}, puts \in {0, 1},
                   next \in {"idle", "off"} : Finally(w, job[w], st, puts, next)
          BY <3>4, <4>2 DEF BackoffEnds, Unwind
        <5>3. \A t \in Tasks : t # job[w] => stamp'[t] = stamp[t]
          BY <5>1, <3>4 DEF BackoffEnds, Unwind, IInv, Shape
        <5>4. \A t \in Tasks : Left(t)' => Left(t)
          BY <5>1, <5>2, <5>3 DEF Finally, InQueue
        <5>5. \A t \in Tasks : status'[t] = "pending" => status[t] = "pending"
          BY <5>1, <5>2 DEF Finally, IInv, Shape
        <5> QED BY <2>1, <4>1, <5>4, <5>5
      <4>3. CASE ~Busy(w)
        BY <2>1, <4>1, <4>3, <3>4 DEF BackoffEnds, Resumes, Busy, Unwind, InQueue
      <4> QED BY <4>2, <4>3
    <3> QED BY <2>3, <3>1, <3>2, <3>3, <3>4 DEF Work
  <2>4. CASE Lifecycle
    <3>1. CASE Abandon
      BY <2>1, <3>1, AbandonKeeps DEF Abandon, AbandonedStatus, InQueue
    <3>2. CASE ~Abandon
      BY <2>1, <2>4, <3>2 DEF Lifecycle, Start, Stop, Drained, DrainTimesOut, InQueue
    <3> QED BY <3>1, <3>2
  <2>5. CASE UNCHANGED vars
    BY <2>1, <2>5 DEF vars, InQueue
  <2> QED BY <2>2, <2>3, <2>4, <2>5 DEF Next
<1> QED BY <1>1, <1>2, PTL DEF Spec

-----------------------------------------------------------------------------
(* Every accepted task is found, and found once *)

\* A stop() that waits lets every backoff end before it cancels the workers.
Calm == phase = "gathering" => \A w \in Workers : pc[w] # "backoff"

\* What a held task is called while its worker waits outside the agent call.
Marked ==
  \A w \in Workers :
    /\ pc[w] = "backoff" => status[job[w]] \in {"queued", "cancelled"}
    /\ pc[w] = "callback" => status[job[w]] \in {"completed", "cancelled"}

\* Nothing is on record that may still run, and nothing new is.
NoEarlyRecord ==
  \A t \in Tasks :
    \/ status[t] = "pending"
    \/ t \in runningTasks
    \/ InQueue(t) /\ status[t] # "cancelled"
    => records[t] = 0

FInv == IInv /\ Calm /\ Marked /\ NoEarlyRecord /\ FoundInOnePlace

\* The finally block puts the task it ends on record, or leaves it to the heap.
LEMMA FinallyFiles ==
  ASSUME FInv, NEW w \in Workers, Busy(w),
         NEW st \in Status \ {"pending", "running"}, NEW next \in {"idle", "off"},
         NEW puts \in {0, 1}, Finally(w, job[w], st, puts, next),
         puts = 0 => stamp' = stamp /\ st # "queued",
         puts = 1 => /\ stamp' = [stamp EXCEPT ![job[w]] = nextStamp]
                     /\ st \in {"queued", "cancelled"},
         phase' = phase
  PROVE  Calm' /\ Marked' /\ NoEarlyRecord' /\ FoundInOnePlace'
<1> PICK t \in Tasks : t = job[w]
  BY DEF FInv, IInv, Shape, RunningIsHeld
<1>0. t = job[w] /\ t \in runningTasks /\ ~InQueue(t) /\ records[t] = 0
  BY DEF FInv, IInv, Shape, RunningIsHeld, BusyWorkers, NoEarlyRecord
<1>1. Calm'
  BY DEF FInv, IInv, Shape, Calm, Finally
<1>2. Marked'
  <2> SUFFICES ASSUME NEW v \in Workers, pc'[v] \in {"backoff", "callback"}
               PROVE  v # w /\ job'[v] = job[v] /\ pc'[v] = pc[v]
                      /\ status'[job[v]] = status[job[v]]
    BY DEF FInv, Marked
  <2>1. v # w /\ pc'[v] = pc[v] /\ job'[v] = job[v]
    BY DEF FInv, IInv, Shape, Finally
  <2>2. job[v] # t
    BY <2>1 DEF FInv, IInv, RunningIsHeld, BusyWorkers, Busy
  <2> QED BY <2>1, <2>2, <1>0 DEF FInv, IInv, Shape, Finally
<1>3. ASSUME NEW u \in Tasks, u # t
      PROVE  /\ status'[u] = status[u] /\ records'[u] = records[u]
             /\ InQueue(u)' <=> InQueue(u)
             /\ u \in runningTasks' <=> u \in runningTasks
  BY <1>0, <1>3 DEF FInv, IInv, Shape, Finally, InQueue
<1>4. /\ status'[t] = st /\ t \notin runningTasks'
      /\ records'[t] = IF st = "queued" THEN 0 ELSE 1
      /\ InQueue(t)' <=> puts = 1
  <2>1. CASE puts = 0
    BY <1>0, <2>1 DEF FInv, IInv, Shape, Finally, InQueue
  <2>2. CASE puts = 1
    BY <1>0, <2>2 DEF FInv, IInv, Shape, Finally, InQueue
  <2> QED BY <2>1, <2>2
<1>5. NoEarlyRecord'
  <2> SUFFICES ASSUME NEW u \in Tasks,
                      \/ status'[u] = "pending"
                      \/ u \in runningTasks'
                      \/ InQueue(u)' /\ status'[u] # "cancelled"
               PROVE  records'[u] = 0
    BY DEF NoEarlyRecord, InQueue
  <2>1. CASE u = t
    BY <1>4, <2>1
  <2>2. CASE u # t
    BY <1>3, <2>2 DEF FInv, NoEarlyRecord
  <2> QED BY <2>1, <2>2
<1>6. FoundInOnePlace'
  <2> SUFFICES ASSUME NEW u \in Tasks, status'[u] \notin {"pending", "cancelled"}
               PROVE  (IF InQueue(u)' THEN 1 ELSE 0)
                        + (IF u \in runningTasks' THEN 1 ELSE 0) + records'[u] = 1
    BY DEF FoundInOnePlace, InQueue
  <2>1. CASE u = t
    BY <1>4, <2>1
  <2>2. CASE u # t
    BY <1>3, <2>2 DEF FInv, FoundInOnePlace
  <2> QED BY <2>1, <2>2
<1> QED BY <1>1, <1>2, <1>5, <1>6

\* A worker that suspends at an await keeps its task where it is.
LEMMA AwaitFiles ==
  ASSUME FInv, NEW w \in Workers, Busy(w), phase # "gathering",
         \/ pc' = [pc EXCEPT ![w] = "callback"] /\ status' = [status EXCEPT ![job[w]] = "completed"]
         \/ pc' = [pc EXCEPT ![w] = "backoff"] /\ status' = [status EXCEPT ![job[w]] = "queued"],
         UNCHANGED <<phase, stamp, job, runningTasks, records>>
  PROVE  Calm' /\ Marked' /\ NoEarlyRecord' /\ FoundInOnePlace'
<1> DEFINE t == job[w]
<1>0. t \in Tasks /\ t \in runningTasks /\ ~InQueue(t) /\ records[t] = 0
  BY DEF FInv, IInv, Shape, RunningIsHeld, BusyWorkers, NoEarlyRecord
<1>1. Calm'
  BY DEF Calm
<1>2. Marked'
  <2> SUFFICES ASSUME NEW v \in Workers, v # w, pc[v] \in {"backoff", "callback"}
               PROVE  status'[job[v]] = status[job[v]]
    BY <1>0 DEF FInv, IInv, Shape, Marked
  <2>1. job[v] # t /\ job[v] \in Tasks
    BY DEF FInv, IInv, Shape, RunningIsHeld, BusyWorkers, Busy
  <2> QED BY <2>1, <1>0 DEF FInv, IInv, Shape
<1>3. NoEarlyRecord' /\ FoundInOnePlace'
  BY <1>0 DEF FInv, IInv, Shape, NoEarlyRecord, FoundInOnePlace, InQueue
<1> QED BY <1>1, <1>2, <1>3

LEMMA ClientFiles ==
  ASSUME FInv, Client
  PROVE  Calm' /\ Marked' /\ NoEarlyRecord' /\ FoundInOnePlace'
<1>1. ASSUME NEW t \in Tasks, Enqueue(t)
      PROVE  Calm' /\ Marked' /\ NoEarlyRecord' /\ FoundInOnePlace'
  <2>0. ~InQueue(t) /\ t \notin runningTasks /\ records[t] = 0
    BY <1>1 DEF FInv, IInv, Fresh, NoEarlyRecord, Enqueue
  <2>1. Calm'
    BY <1>1 DEF FInv, Calm, Enqueue
  <2>2. Marked'
    BY <1>1 DEF FInv, IInv, Shape, Marked, Enqueue
  <2>3. NoEarlyRecord' /\ FoundInOnePlace'
    BY <1>1, <2>0 DEF FInv, IInv, Shape, NoEarlyRecord, FoundInOnePlace, InQueue, Enqueue
  <2> QED BY <2>1, <2>2, <2>3
<1>2. ASSUME NEW t \in Tasks, CancelTask(t)
      PROVE  Calm' /\ Marked' /\ NoEarlyRecord' /\ FoundInOnePlace'
  <2>1. Calm'
    BY <1>2 DEF FInv, Calm, CancelTask
  <2>2. Marked'
    BY <1>2 DEF FInv, IInv, Shape, Marked, CancelTask
  <2>3. NoEarlyRecord' /\ FoundInOnePlace'
    BY <1>2 DEF FInv, IInv, Shape, NoEarlyRecord, FoundInOnePlace, InQueue, CancelTask
  <2> QED BY <2>1, <2>2, <2>3
<1> QED BY <1>1, <1>2 DEF Client

LEMMA GetFiles ==
  ASSUME FInv, NEW w \in Workers, NEW t \in Tasks, SkipTombstone(w, t) \/ Take(w, t)
  PROVE  Calm' /\ Marked' /\ NoEarlyRecord' /\ FoundInOnePlace'
<1>0. InQueue(t) /\ t \notin runningTasks
  BY DEF FInv, IInv, RunningIsHeld, SkipTombstone, Take, IsFirst
<1>1. Calm'
  BY DEF FInv, IInv, Shape, Calm, SkipTombstone, Take
<1>2. Marked'
  <2>1. CASE SkipTombstone(w, t)
    BY <2>1 DEF FInv, Marked, SkipTombstone
  <2>2. CASE Take(w, t)
    <3> SUFFICES ASSUME NEW v \in Workers, pc'[v] \in {"backoff", "callback"}
                 PROVE  v # w /\ job'[v] = job[v] /\ pc'[v] = pc[v]
                        /\ status'[job[v]] = status[job[v]]
      BY DEF FInv, Marked
    <3>1. v # w /\ pc'[v] = pc[v] /\ job'[v] = job[v]
      BY <2>2 DEF FInv, IInv, Shape, Take
    <3>2. job[v] # t
      BY <1>0, <3>1 DEF FInv, IInv, RunningIsHeld, BusyWorkers, Busy
    <3> QED BY <2>2, <3>1, <3>2 DEF FInv, IInv, Shape, Take
  <2> QED BY <2>1, <2>2
<1>3. NoEarlyRecord' /\ FoundInOnePlace'
  <2>1. CASE SkipTombstone(w, t)
    BY <1>0, <2>1 DEF FInv, IInv, Shape, NoEarlyRecord, FoundInOnePlace, InQueue,
       SkipTombstone, IsTombstone
  <2>2. CASE Take(w, t)
    BY <1>0, <2>2 DEF FInv, IInv, Shape, NoEarlyRecord, FoundInOnePlace, InQueue,
       Take, IsTombstone
  <2> QED BY <2>1, <2>2
<1> QED BY <1>1, <1>2, <1>3

LEMMA WorkFiles ==
  ASSUME FInv, NEW w \in Workers, Work(w)
  PROVE  Calm' /\ Marked' /\ NoEarlyRecord' /\ FoundInOnePlace'
<1> DEFINE Files == Calm' /\ Marked' /\ NoEarlyRecord' /\ FoundInOnePlace'
<1>1. CASE \E t \in Tasks : SkipTombstone(w, t) \/ Take(w, t)
  BY <1>1, GetFiles
<1>2. CASE Succeed(w)
  <2>0. Busy(w) /\ phase # "gathering"
    BY <1>2 DEF Succeed, Resumes, Busy
  <2>1. CASE job[w] \in Callbacks
    BY <1>2, <2>0, <2>1, AwaitFiles DEF Succeed
  <2>2. CASE job[w] \notin Callbacks
    BY <1>2, <2>0, <2>2, FinallyFiles DEF Succeed, Status
  <2> QED BY <2>1, <2>2
<1>3. CASE CallbackDone(w)
  <2>1. Busy(w) /\ status[job[w]] \in {"completed", "cancelled"}
    BY <1>3 DEF FInv, Marked, CallbackDone, Resumes, Busy
  <2> QED BY <1>3, <2>1, FinallyFiles DEF CallbackDone, Status
<1>4. CASE TimeOut(w)
  <2>1. Busy(w)
    BY <1>4 DEF TimeOut, Resumes, Busy
  <2> QED BY <1>4, <2>1, FinallyFiles DEF TimeOut, Status
<1>5. CASE Fail(w)
  <2>0. Busy(w) /\ phase # "gathering"
    BY <1>5 DEF Fail, Resumes, Busy
  <2>1. CASE MayRetry(job[w])
    BY <1>5, <2>0, <2>1, AwaitFiles DEF Fail
  <2>2. CASE ~MayRetry(job[w])
    BY <1>5, <2>0, <2>2, FinallyFiles DEF Fail, Status
  <2> QED BY <2>1, <2>2
<1>6. CASE BackoffEnds(w)
  <2>0. Busy(w) /\ status[job[w]] \in {"queued", "cancelled"}
    BY <1>6 DEF FInv, Marked, BackoffEnds, Resumes, Busy
  <2>1. CASE MayRequeue
    BY <1>6, <2>0, <2>1, FinallyFiles DEF BackoffEnds, Status
  <2>2. CASE ~MayRequeue
    BY <1>6, <2>0, <2>2, FinallyFiles DEF BackoffEnds, Status
  <2> QED BY <2>1, <2>2
<1>7. CASE Unwind(w)
  <2>1. CASE Busy(w)
    <3>1. Finally(w, job[w], "failed", 0, "off")
      BY <1>7, <2>1 DEF FInv, Calm, Unwind
    <3> QED BY <1>7, <2>1, <3>1, FinallyFiles DEF Unwind, Status
  <2>2. CASE ~Busy(w)
    BY <1>7, <2>2 DEF FInv, IInv, Shape, Calm, Marked, NoEarlyRecord, FoundInOnePlace,
       InQueue, Unwind
  <2> QED BY <2>1, <2>2
<1> QED BY <1>1, <1>2, <1>3, <1>4, <1>5, <1>6, <1>7 DEF Work

LEMMA LifecycleFiles ==
  ASSUME FInv, WaitModes = {TRUE}, Lifecycle
  PROVE  Calm' /\ Marked' /\ NoEarlyRecord' /\ FoundInOnePlace'
<1>1. CASE Start
  BY <1>1 DEF FInv, Calm, Marked, NoEarlyRecord, FoundInOnePlace, InQueue, Start
<1>2. CASE (\E wait \in WaitModes : Stop(wait)) \/ Drained \/ DrainTimesOut
  <2>1. UNCHANGED <<stamp, status, pc, job, runningTasks, records>>
    BY <1>2 DEF Stop, Drained, DrainTimesOut
  <2>2. Calm'
    <3>1. CASE \E wait \in WaitModes : Stop(wait)
      BY <3>1 DEF Calm, Stop
    <3>2. CASE Drained
      <4>1. IsFiniteSet(BusyWorkers) /\ IsFiniteSet(Queued)
        BY FS_Subset, QueueAssumption DEF BusyWorkers, Queued
      <4>2. Cardinality(BusyWorkers) = 0
        BY <3>2, <4>1, FS_CardinalityType DEF FInv, IInv, JoinBalance, Drained
      <4>3. BusyWorkers = {}
        BY <4>1, <4>2, FS_EmptySet
      <4> QED BY <3>2, <4>3 DEF Calm, Drained, BusyWorkers, Busy
    <3>3. CASE DrainTimesOut
      BY <3>3 DEF Calm, DrainTimesOut
    <3> QED BY <1>2, <3>1, <3>2, <3>3
  <2> QED BY <2>1, <2>2 DEF FInv, Marked, NoEarlyRecord, FoundInOnePlace, InQueue
<1>3. CASE Abandon
  <2>1. runningTasks = {}
    BY <1>3 DEF FInv, IInv, Shape, RunningIsHeld, BusyWorkers, Busy, Abandon
  <2>2. Calm' /\ Marked'
    BY <1>3 DEF Calm, Marked, Abandon
  <2>3. ASSUME NEW t \in Tasks
        PROVE  /\ ~InQueue(t)' /\ t \notin runningTasks'
               /\ InQueue(t) => status'[t] = IF status[t] = "cancelled" THEN "cancelled"
                                               ELSE "failed"
               /\ ~InQueue(t) => status'[t] = status[t] /\ records'[t] = records[t]
               /\ InQueue(t) => records'[t] = records[t] + 1
    BY <1>3, <2>1 DEF FInv, IInv, Shape, Abandon, AbandonedStatus, Leftovers, Queued, InQueue
  <2>4. NoEarlyRecord'
    BY <2>3 DEF FInv, IInv, Fresh, NoEarlyRecord, InQueue
  <2>5. FoundInOnePlace'
    BY <2>1, <2>3 DEF FInv, IInv, Shape, Fresh, NoEarlyRecord, FoundInOnePlace
  <2> QED BY <2>2, <2>4, <2>5
<1> QED BY <1>1, <1>2, <1>3 DEF Lifecycle

\* As long as every stop() waits for the drain, get_task_status() finds each
\* accepted task in exactly one place, whatever fails, is retried or abandoned.
THEOREM NothingIsLost == ASSUME WaitModes = {TRUE} PROVE Spec => []FoundInOnePlace
<1>1. Init => FInv
  <2> SUFFICES ASSUME Init PROVE Calm /\ Marked /\ NoEarlyRecord /\ FoundInOnePlace
    BY InitEstablishes DEF FInv
  <2> QED BY DEF Init, Calm, Marked, NoEarlyRecord, FoundInOnePlace
<1>2. FInv /\ [Next]_vars => FInv'
  <2> SUFFICES ASSUME FInv, [Next]_vars
               PROVE  Calm' /\ Marked' /\ NoEarlyRecord' /\ FoundInOnePlace'
    BY StepKeeps DEF FInv
  <2>1. CASE Client
    BY <2>1, ClientFiles
  <2>2. CASE \E w \in Workers : Work(w)
    BY <2>2, WorkFiles
  <2>3. CASE Lifecycle
    BY <2>3, LifecycleFiles
  <2>4. CASE UNCHANGED vars
    BY <2>4 DEF vars, FInv, Calm, Marked, NoEarlyRecord, FoundInOnePlace, InQueue
  <2> QED BY <2>1, <2>2, <2>3, <2>4 DEF Next
<1>3. FInv => FoundInOnePlace
  BY DEF FInv
<1> QED BY <1>1, <1>2, <1>3, PTL DEF Spec

-----------------------------------------------------------------------------
(* The queue implements its ledger *)

\* The place of a task, one case at a time, before and after a step.
LEMMA PlaceCases ==
  ASSUME NEW t \in Tasks
  PROVE  /\ status[t] = "pending" => PlaceOf(t) = "new"
         /\ status[t] # "pending" /\ InQueue(t) => PlaceOf(t) = "waiting"
         /\ status[t] # "pending" /\ ~InQueue(t) /\ t \in runningTasks => PlaceOf(t) = "active"
         /\ status[t] # "pending" /\ ~InQueue(t) /\ t \notin runningTasks => PlaceOf(t) = "closed"
         /\ status'[t] = "pending" => PlaceOf(t)' = "new"
         /\ status'[t] # "pending" /\ InQueue(t)' => PlaceOf(t)' = "waiting"
         /\ status'[t] # "pending" /\ ~InQueue(t)' /\ t \in runningTasks' => PlaceOf(t)' = "active"
         /\ status'[t] # "pending" /\ ~InQueue(t)' /\ t \notin runningTasks' => PlaceOf(t)' = "closed"
BY DEF PlaceOf, InQueue

\* The ledger's copy of the library counts as the library does.
LEMMA SameCount == \A S : Ledger!Cardinality(S) = Cardinality(S)
BY DEF Ledger!Cardinality, Cardinality

\* The heap is the waiting room, and no more tasks are active than workers busy.
LEMMA RoomAndSlots ==
  ASSUME IInv
  PROVE  /\ Ledger!At("waiting") = Queued
         /\ Ledger!At("active") = runningTasks
         /\ \A w \in Workers : ~Busy(w) =>
              Cardinality(runningTasks) < Cardinality(Workers)
<1>1. Ledger!At("waiting") = Queued /\ Ledger!At("active") = runningTasks
  <2>1. \A t \in Tasks : PlaceOf(t) = "waiting" <=> InQueue(t)
    BY PlaceCases DEF IInv, Fresh
  <2>2. \A t \in Tasks : PlaceOf(t) = "active" <=> t \in runningTasks
    BY PlaceCases DEF IInv, Fresh, RunningIsHeld
  <2> QED BY <2>1, <2>2 DEF Ledger!At, Queued, IInv, Shape
<1>2. ASSUME NEW w \in Workers, ~Busy(w)
      PROVE  Cardinality(runningTasks) < Cardinality(Workers)
  <2> DEFINE held == [v \in BusyWorkers |-> job[v]]
  <2>1. IsFiniteSet(BusyWorkers) /\ IsFiniteSet(Workers)
    BY FS_Subset, QueueAssumption DEF BusyWorkers
  <2>2. held \in Surjection(BusyWorkers, runningTasks)
    BY DEF IInv, Shape, RunningIsHeld, BusyWorkers, Surjection
  <2>3. Cardinality(runningTasks) <= Cardinality(BusyWorkers) /\ IsFiniteSet(runningTasks)
    BY <2>1, <2>2, FS_Surjection
  <2>4. BusyWorkers \in SUBSET Workers /\ BusyWorkers # Workers
    BY <1>2 DEF BusyWorkers
  <2>5. Cardinality(BusyWorkers) <= Cardinality(Workers)
        /\ Cardinality(BusyWorkers) # Cardinality(Workers)
    BY <2>1, <2>4, FS_Subset
  <2> QED BY <2>1, <2>3, <2>5, FS_CardinalityType
<1> QED BY <1>1, <1>2

\* A step that changes the place of one task moves it in the ledger.
LEMMA OneMoves ==
  ASSUME NEW t \in Tasks, NEW from, NEW to,
         PlaceOf(t) = from, PlaceOf(t)' = to,
         \A u \in Tasks : u # t => PlaceOf(u)' = PlaceOf(u)
  PROVE  Ledger!Move(t, from, to)
BY DEF Ledger!Move

\* A step that changes no place and leaves the door alone is a stutter.
LEMMA NoneMoves ==
  ASSUME accepting' = accepting, \A t \in Tasks : PlaceOf(t)' = PlaceOf(t)
  PROVE  UNCHANGED Ledger!ledgerVars
BY DEF Ledger!ledgerVars

LEMMA ClientMaps ==
  ASSUME IInv, Client
  PROVE  [Ledger!LedgerNext]_Ledger!ledgerVars
<1>1. ASSUME NEW t \in Tasks, Enqueue(t) PROVE Ledger!Accept(t)
  <2>1. PlaceOf(t) = "new" /\ PlaceOf(t)' = "waiting"
    <3>1. status'[t] = "queued" /\ stamp'[t] > 0
      BY <1>1 DEF Enqueue, IInv, Shape
    <3> QED BY <1>1, <3>1, PlaceCases DEF Enqueue, InQueue
  <2>2. \A u \in Tasks : u # t => PlaceOf(u)' = PlaceOf(u)
    BY <1>1, PlaceCases DEF Enqueue, IInv, Shape, InQueue
  <2>3. Cardinality(Ledger!At("waiting")) < MaxQueue
    <3>1. Cardinality(Queued) \in Nat
      BY <1>1, QueuedCount DEF IInv
    <3> QED BY <1>1, <3>1, RoomAndSlots, QueueAssumption DEF Enqueue, QueueFull
  <2> QED BY <1>1, <2>1, <2>2, <2>3, OneMoves, SameCount DEF Ledger!Accept, Enqueue
<1>2. ASSUME NEW t \in Tasks, CancelTask(t) PROVE UNCHANGED Ledger!ledgerVars
  <2>1. status[t] # "pending"
    BY <1>2 DEF CancelTask, IInv, Fresh
  <2>2. \A u \in Tasks : PlaceOf(u)' = PlaceOf(u)
    BY <1>2, <2>1, PlaceCases DEF CancelTask, IInv, Shape, InQueue
  <2> QED BY <1>2, <2>2, NoneMoves DEF CancelTask
<1> QED BY <1>1, <1>2 DEF Client, Ledger!LedgerNext

\* The finally block closes its task, or gives it back to an open, free room.
LEMMA FinallyMaps ==
  ASSUME IInv, NEW w \in Workers, Busy(w),
         NEW st \in Status \ {"pending"}, NEW next, NEW puts \in {0, 1},
         Finally(w, job[w], st, puts, next),
         puts = 0 => stamp' = stamp,
         puts = 1 => MayRequeue /\ stamp' = [stamp EXCEPT ![job[w]] = nextStamp],
         accepting' = accepting
  PROVE  \E t \in Tasks : Ledger!Close(t) \/ Ledger!Retry(t)
<1> PICK t \in Tasks : t = job[w]
  BY DEF IInv, Shape, RunningIsHeld
<1>0. t = job[w] /\ t \in runningTasks /\ ~InQueue(t) /\ status[t] # "pending"
  BY DEF IInv, Shape, Fresh, RunningIsHeld, BusyWorkers
<1>1. PlaceOf(t) = "active"
  BY <1>0, PlaceCases
<1>2. ASSUME NEW u \in Tasks, u # t PROVE PlaceOf(u)' = PlaceOf(u)
  <2>1. status'[u] = status[u] /\ (u \in runningTasks' <=> u \in runningTasks)
    BY <1>0, <1>2 DEF IInv, Shape, Finally
  <2>2. InQueue(u)' <=> InQueue(u)
    BY <1>0, <1>2 DEF IInv, Shape, InQueue
  <2> QED BY <2>1, <2>2, PlaceCases
<1>3. status'[t] # "pending" /\ t \notin runningTasks'
  BY <1>0 DEF IInv, Shape, Finally
<1>4. CASE puts = 0
  <2>1. PlaceOf(t)' = "closed"
    BY <1>0, <1>3, <1>4, PlaceCases DEF InQueue
  <2> QED BY <1>1, <1>2, <2>1, OneMoves DEF Ledger!Close
<1>5. CASE puts = 1
  <2>1. PlaceOf(t)' = "waiting"
    BY <1>0, <1>3, <1>5, PlaceCases DEF IInv, Shape, InQueue
  <2>2. Cardinality(Queued) \in Nat
    BY QueuedCount DEF IInv
  <2>3. accepting /\ Cardinality(Ledger!At("waiting")) < MaxQueue
    BY <1>5, <2>2, RoomAndSlots, QueueAssumption DEF MayRequeue, QueueFull
  <2> QED BY <1>1, <1>2, <2>1, <2>3, OneMoves, SameCount DEF Ledger!Retry
<1> QED BY <1>4, <1>5

LEMMA GetMaps ==
  ASSUME IInv, NEW w \in Workers, NEW t \in Tasks, SkipTombstone(w, t) \/ Take(w, t)
  PROVE  Ledger!LedgerNext
<1>0. InQueue(t) /\ t \notin runningTasks /\ status[t] # "pending" /\ ~Busy(w)
  BY DEF IInv, Fresh, RunningIsHeld, SkipTombstone, Take, IsFirst, Busy
<1>1. PlaceOf(t) = "waiting"
  BY <1>0, PlaceCases
<1>2. CASE SkipTombstone(w, t)
  <2>1. PlaceOf(t)' = "closed"
    BY <1>0, <1>2, PlaceCases DEF SkipTombstone, IInv, Shape, InQueue
  <2>2. \A u \in Tasks : u # t => PlaceOf(u)' = PlaceOf(u)
    BY <1>2, PlaceCases DEF SkipTombstone, IInv, Shape, InQueue
  <2>3. Ledger!Close(t)
    BY <1>1, <1>2, <2>1, <2>2, OneMoves DEF Ledger!Close, SkipTombstone
  <2> QED BY <2>3 DEF Ledger!LedgerNext
<1>3. CASE Take(w, t)
  <2>1. PlaceOf(t)' = "active"
    BY <1>3, PlaceCases DEF Take, IInv, Shape, InQueue
  <2>2. \A u \in Tasks : u # t => PlaceOf(u)' = PlaceOf(u)
    BY <1>3, PlaceCases DEF Take, IInv, Shape, InQueue
  <2>3. Ledger!Begin(t)
    BY <1>0, <1>1, <1>3, <2>1, <2>2, OneMoves, SameCount, RoomAndSlots DEF Ledger!Begin, Take
  <2> QED BY <2>3 DEF Ledger!LedgerNext
<1> QED BY <1>2, <1>3

LEMMA WorkMaps ==
  ASSUME IInv, NEW w \in Workers, Work(w)
  PROVE  [Ledger!LedgerNext]_Ledger!ledgerVars
<1>0. Busy(w) => /\ job[w] \in Tasks /\ job[w] \in runningTasks
                 /\ status[job[w]] \in Status \ {"pending"}
  BY DEF IInv, Shape, Fresh, RunningIsHeld, BusyWorkers
<1>1. ASSUME Busy(w),
             NEW st \in Status \ {"pending"}, NEW next, NEW puts \in {0, 1},
             Finally(w, job[w], st, puts, next),
             puts = 0 => stamp' = stamp,
             puts = 1 => MayRequeue /\ stamp' = [stamp EXCEPT ![job[w]] = nextStamp],
             accepting' = accepting
      PROVE  Ledger!LedgerNext
  BY <1>1, FinallyMaps DEF Ledger!LedgerNext
<1>2. ASSUME Busy(w), NEW st \in Status \ {"pending"},
             status' = [status EXCEPT ![job[w]] = st],
             UNCHANGED <<accepting, stamp, runningTasks>>
      PROVE  UNCHANGED Ledger!ledgerVars
  <2>1. \A u \in Tasks : (status'[u] = "pending" <=> status[u] = "pending")
                         /\ (InQueue(u)' <=> InQueue(u))
    BY <1>0, <1>2 DEF IInv, Shape, InQueue
  <2>2. \A u \in Tasks : PlaceOf(u)' = PlaceOf(u)
    BY <1>2, <2>1, PlaceCases
  <2> QED BY <1>2, <2>2, NoneMoves
<1>3. CASE \E t \in Tasks : SkipTombstone(w, t) \/ Take(w, t)
  BY <1>3, GetMaps
<1>4. CASE Succeed(w)
  <2>0. Busy(w)
    BY <1>4 DEF Succeed, Resumes, Busy
  <2>1. CASE job[w] \in Callbacks
    BY <1>2, <1>4, <2>0, <2>1 DEF Succeed, Status
  <2>2. CASE job[w] \notin Callbacks
    BY <1>1, <1>4, <2>0, <2>2 DEF Succeed, Status
  <2> QED BY <2>1, <2>2
<1>5. CASE CallbackDone(w)
  BY <1>0, <1>1, <1>5 DEF CallbackDone, Resumes, Busy
<1>6. CASE TimeOut(w)
  BY <1>1, <1>6 DEF TimeOut, Resumes, Busy, Status
<1>7. CASE Fail(w)
  <2>0. Busy(w)
    BY <1>7 DEF Fail, Resumes, Busy
  <2>1. CASE MayRetry(job[w])
    BY <1>2, <1>7, <2>0, <2>1 DEF Fail, Status
  <2>2. CASE ~MayRetry(job[w])
    BY <1>1, <1>7, <2>0, <2>2 DEF Fail, Status
  <2> QED BY <2>1, <2>2
<1>8. CASE BackoffEnds(w)
  <2>0. Busy(w)
    BY <1>8 DEF BackoffEnds, Resumes, Busy
  <2>1. CASE MayRequeue
    BY <1>0, <1>1, <1>8, <2>0, <2>1 DEF BackoffEnds
  <2>2. CASE ~MayRequeue
    BY <1>1, <1>8, <2>0, <2>2 DEF BackoffEnds, Status
  <2> QED BY <2>1, <2>2
<1>9. CASE Unwind(w)
  <2>1. CASE Busy(w)
    <3>1. PICK st \in {status[job[w]], "failed"} : Finally(w, job[w], st, 0, "off")
      BY <1>9, <2>1 DEF Unwind
    <3>2. st \in Status \ {"pending"}
      BY <1>0, <2>1 DEF Status
    <3> QED BY <1>1, <1>9, <2>1, <3>1, <3>2 DEF Unwind
  <2>2. CASE ~Busy(w)
    <3>1. UNCHANGED <<accepting, stamp, status, runningTasks>>
      BY <1>9, <2>2 DEF Unwind
    <3>2. \A u \in Tasks : PlaceOf(u)' = PlaceOf(u)
      BY <3>1 DEF PlaceOf, InQueue
    <3> QED BY <3>1, <3>2, NoneMoves
  <2> QED BY <2>1, <2>2
<1> QED BY <1>3, <1>4, <1>5, <1>6, <1>7, <1>8, <1>9 DEF Work

LEMMA LifecycleMaps ==
  ASSUME IInv, Lifecycle
  PROVE  [Ledger!LedgerNext]_Ledger!ledgerVars
<1>1. ASSUME UNCHANGED <<stamp, status, runningTasks>>
      PROVE  \A t \in Tasks : PlaceOf(t)' = PlaceOf(t)
  BY <1>1 DEF PlaceOf, InQueue
<1>2. CASE Start
  <2>1. Ledger!At("active") = {}
    BY <1>2, RoomAndSlots DEF Start, IInv, Shape, Phases, RunningIsHeld, BusyWorkers, Busy
  <2>2. Ledger!OpenDoor
    BY <1>1, <1>2, <2>1 DEF Start, Ledger!OpenDoor
  <2> QED BY <2>2 DEF Ledger!LedgerNext
<1>3. CASE \E wait \in WaitModes : Stop(wait)
  <2>1. CASE accepting
    <3>1. Ledger!ShutDoor
      BY <1>1, <1>3, <2>1 DEF Stop, Ledger!ShutDoor
    <3> QED BY <3>1 DEF Ledger!LedgerNext
  <2>2. CASE ~accepting
    <3>1. accepting' = accepting
      BY <1>3, <2>2 DEF Stop, IInv, Shape
    <3> QED BY <1>1, <1>3, <3>1, NoneMoves DEF Stop
  <2> QED BY <2>1, <2>2
<1>4. CASE Drained \/ DrainTimesOut
  BY <1>1, <1>4, NoneMoves DEF Drained, DrainTimesOut
<1>5. CASE Abandon
  <2>1. runningTasks = {} /\ ~accepting
    BY <1>5 DEF Abandon, IInv, Shape, Phases, RunningIsHeld, BusyWorkers, Busy
  <2>2. ASSUME NEW t \in Tasks
        PROVE  PlaceOf(t)' = IF PlaceOf(t) = "waiting" THEN "closed" ELSE PlaceOf(t)
    <3>1. ~InQueue(t)' /\ t \notin runningTasks' /\ t \notin runningTasks
      BY <1>5, <2>1 DEF Abandon, InQueue
    <3>2. status'[t] = "pending" <=> status[t] = "pending"
      BY <1>5, <2>1 DEF Abandon, AbandonedStatus, Queued, IInv, Fresh
    <3> QED BY <3>1, <3>2, PlaceCases DEF IInv, Fresh
  <2>3. Ledger!CloseRest
    BY <1>5, <2>1, <2>2, RoomAndSlots DEF Ledger!CloseRest, Abandon
  <2> QED BY <2>3 DEF Ledger!LedgerNext
<1> QED BY <1>2, <1>3, <1>4, <1>5 DEF Lifecycle

\* Every behaviour of the queue, for any stop mode, is one its clients may rely
\* on: bounded room, bounded slots, nothing comes back through a closed door.
THEOREM QueueKeepsLedger == Spec => ImplementsLedger
<1>1. Init => Ledger!LedgerInit
  <2> SUFFICES ASSUME Init PROVE Ledger!LedgerInit
    OBVIOUS
  <2>1. \A t \in Tasks : PlaceOf(t) = "new"
    BY DEF Init, PlaceOf
  <2> QED BY <2>1 DEF Init, Ledger!LedgerInit
<1>2. IInv /\ [Next]_vars => [Ledger!LedgerNext]_Ledger!ledgerVars
  <2> SUFFICES ASSUME IInv, [Next]_vars PROVE [Ledger!LedgerNext]_Ledger!ledgerVars
    OBVIOUS
  <2>1. CASE UNCHANGED vars
    <3>1. \A t \in Tasks : PlaceOf(t)' = PlaceOf(t)
      BY <2>1 DEF vars, PlaceOf, InQueue
    <3> QED BY <2>1, <3>1, NoneMoves DEF vars
  <2> QED BY <2>1, ClientMaps, WorkMaps, LifecycleMaps DEF Next
<1> QED BY <1>1, <1>2, Invariance, PTL DEF Spec, ImplementsLedger, Ledger!LedgerSpec
=============================================================================
