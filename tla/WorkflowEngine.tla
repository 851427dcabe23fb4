---------------------------- MODULE WorkflowEngine ----------------------------
(***************************************************************************)
(* One run of a workflow: WorkflowEngine.execute and cancel_workflow of    *)
(* src/automation/workflow_engine.py on the step states that               *)
(* src/core/state_manager.py keeps.                                        *)
(*                                                                         *)
(* execute() creates a task, "the run", and awaits it. The run works in    *)
(* rounds: it gathers one coroutine per executable step, at most           *)
(* MaxConcurrent of them past a semaphore, and looks again when all have   *)
(* ended. The code between two awaits is one atomic action.                *)
(***************************************************************************)
EXTENDS Integers, FiniteSets

CONSTANTS
  Steps,        \* positions of the steps in the definition
  Conditional,  \* the steps that carry a condition
  Graphs,       \* the depends_on lists of the definitions to run
  Unknown,      \* an id in a depends_on list that no step has
  MaxConcurrent \* max_concurrent_steps

ASSUME WorkflowAssumption ==
  /\ IsFiniteSet(Steps) /\ Steps \subseteq Nat
  /\ Unknown \notin Steps
  /\ Conditional \subseteq Steps
  /\ Graphs \subseteq [Steps -> SUBSET (Steps \cup {Unknown})]
  /\ MaxConcurrent \in Nat \ {0}

VARIABLES
  deps,    \* depends_on of each step
  wf,      \* WorkflowState.status
  step,    \* StepState.status of each step
  run,     \* the run: "none", "active", "cancelling", "done" or "cancelled"
  child,   \* each step's coroutine in the current round: "none", "waiting" for
           \* the semaphore or "inside" an await past it
  caller,  \* whether the task that awaits execute() is being cancelled
  result   \* how execute() ended: "success", "failure", "cancelled", "raised"

vars == <<deps, wf, step, run, child, caller, result>>

Ended == {"completed", "failed", "cancelled"}

Inside == {s \in Steps : child[s] = "inside"}
Waiting == {s \in Steps : child[s] = "waiting"}
RoundOver == \A s \in Steps : child[s] = "none"

Init ==
  /\ deps \in Graphs
  /\ wf = "pending"
  /\ step = [s \in Steps |-> "pending"]
  /\ run = "none"
  /\ child = [s \in Steps |-> "none"]
  /\ caller = FALSE
  /\ result = "none"

\* execute() up to its first await: the state is created and the run scheduled.
Execute ==
  /\ run = "none"
  /\ wf' = "running"
  /\ run' = "active"
  /\ UNCHANGED <<deps, step, child, caller, result>>

-----------------------------------------------------------------------------
(* The run *)

DependencyMet(d) == d \in Steps /\ step[d] = "completed"

SkippedCounts(s) ==  \* mutant: a skipped dependency is good enough
  step[s] = "pending" /\ \A d \in deps[s] : d \in Steps /\ step[d] \in {"completed", "skipped"}

\* can_execute_step()
CanExecute(s) == step[s] = "pending" /\ \A d \in deps[s] : DependencyMet(d)

Executable == {s \in Steps : CanExecute(s)}

CompleteFirst ==  \* mutant: is_complete(), which counts FAILED steps, is asked first
  CASE wf = "cancelled" -> wf
    [] \A s \in Steps : step[s] \in {"completed", "skipped", "failed"} -> "completed"
    [] OTHER -> "failed"

\* What the run makes of a workflow in which no step is executable: any failure
\* fails it, and so do steps that are blocked.
Verdict ==
  CASE wf = "cancelled" -> wf
    [] \E s \in Steps : step[s] = "failed" -> "failed"
    [] \A s \in Steps : step[s] \in {"completed", "skipped"} -> "completed"
    [] OTHER -> "failed"

SpinWhenBlocked ==  \* mutant: only a finished workflow ends the loop
  /\ run = "active" /\ RoundOver
  /\ IF Executable = {} /\ \A s \in Steps : step[s] # "pending"
     THEN run' = "done" /\ wf' = Verdict /\ UNCHANGED child
     ELSE /\ child' = [s \in Steps |-> IF s \in Executable THEN "waiting" ELSE "none"]
          /\ UNCHANGED <<run, wf>>
  /\ UNCHANGED <<deps, step, caller, result>>

\* Between two rounds (the first look and every end of asyncio.sleep): start a
\* round with everything executable, or end the workflow.
Look ==
  /\ run = "active" /\ RoundOver
  /\ IF Executable = {}
     THEN run' = "done" /\ wf' = Verdict /\ UNCHANGED child
     ELSE /\ child' = [s \in Steps |-> IF s \in Executable THEN "waiting" ELSE "none"]
          /\ UNCHANGED <<run, wf>>
  /\ UNCHANGED <<deps, step, caller, result>>

\* The semaphore admits the waiting coroutines in order.
Admitted(s) ==
  /\ run = "active"
  /\ s \in Waiting /\ \A t \in Waiting : s <= t
  /\ Cardinality(Inside) < MaxConcurrent

\* _execute_step up to its first await.
BeginStep(s) ==
  /\ Admitted(s)
  /\ step' = [step EXCEPT ![s] = "running"]
  /\ child' = [child EXCEPT ![s] = "inside"]
  /\ UNCHANGED <<deps, wf, run, caller, result>>

\* The condition of the step is false, or cannot be evaluated.
SkipStep(s) ==
  /\ Admitted(s) /\ s \in Conditional
  /\ step' = [step EXCEPT ![s] = "skipped"]
  /\ child' = [child EXCEPT ![s] = "none"]
  /\ UNCHANGED <<deps, wf, run, caller, result>>

\* The agent answered; or it is missing, timed out, raised or was not understood.
EndStep(s) ==
  /\ run = "active" /\ s \in Inside
  /\ \E st \in {"completed", "failed"} : step' = [step EXCEPT ![s] = st]
  /\ child' = [child EXCEPT ![s] = "none"]
  /\ UNCHANGED <<deps, wf, run, caller, result>>

-----------------------------------------------------------------------------
(* Cancellation *)

MarkOnly ==  \* mutant: the task is not cancelled
  /\ wf \in {"pending", "running"} /\ run # "none"
  /\ wf' = "cancelled"
  /\ UNCHANGED <<deps, step, run, child, caller, result>>

\* cancel_workflow(), by an id that exists once execute() has begun.
CancelWorkflow ==
  /\ wf \in {"pending", "running"} /\ run # "none"
  /\ wf' = "cancelled"
  /\ run' = IF run = "active" THEN "cancelling" ELSE run
  /\ UNCHANGED <<deps, step, child, caller, result>>

\* The task that awaits execute() is cancelled (its client left, a shutdown) and
\* passes the cancellation on to the run.
CancelCaller ==
  /\ run # "none" /\ result = "none" /\ ~caller
  /\ caller' = TRUE
  /\ run' = IF run = "active" THEN "cancelling" ELSE run
  /\ UNCHANGED <<deps, wf, step, child, result>>

\* CancelledError reaches a coroutine of the round; `except Exception` does not
\* see it, so the step keeps its status.
UnwindStep(s) ==
  /\ run = "cancelling" /\ child[s] # "none"
  /\ child' = [child EXCEPT ![s] = "none"]
  /\ UNCHANGED <<deps, wf, step, run, caller, result>>

UnwindAtOnce ==  \* mutant: gather does not wait for the coroutines it cancels
  /\ run = "cancelling"
  /\ run' = "cancelled"
  /\ UNCHANGED <<deps, wf, step, child, caller, result>>

UnwindRun ==
  /\ run = "cancelling" /\ RoundOver
  /\ run' = "cancelled"
  /\ UNCHANGED <<deps, wf, step, child, caller, result>>

\* execute() resumes and returns, or raises when its own task is cancelled.
Return ==
  /\ run \in {"done", "cancelled"} /\ result = "none"
  /\ wf' = IF caller /\ run = "cancelled" THEN "cancelled" ELSE wf
  /\ result' = CASE caller -> "raised"
                 [] ~caller /\ run = "cancelled" -> "cancelled"
                 [] OTHER -> IF wf = "completed" THEN "success" ELSE "failure"
  /\ UNCHANGED <<deps, step, run, child, caller>>

-----------------------------------------------------------------------------
Loop ==
  \/ Look \/ UnwindRun \/ Return
  \/ \E s \in Steps : BeginStep(s) \/ SkipStep(s) \/ EndStep(s) \/ UnwindStep(s)

Next == Execute \/ Loop \/ CancelWorkflow \/ CancelCaller

Spec == Init /\ [][Next]_vars

\* The event loop resumes what is ready, and every agent call ends: its answer,
\* its failure or the step's timeout_seconds.
FairSpec == Spec /\ WF_vars(Loop)

-----------------------------------------------------------------------------
(* Properties *)

TypeOK ==
  /\ deps \in Graphs
  /\ wf \in {"pending", "running"} \cup Ended
  /\ step \in [Steps -> {"pending", "running", "completed", "failed", "skipped"}]
  /\ run \in {"none", "active", "cancelling", "done", "cancelled"}
  /\ child \in [Steps -> {"none", "waiting", "inside"}]
  /\ caller \in BOOLEAN
  /\ result \in {"none", "success", "failure", "cancelled", "raised"}

\* Never more than max_concurrent_steps agents work for a workflow, over all the
\* rounds, skips, failures and cancellations.
ConcurrencyBounded == Cardinality(Inside) <= MaxConcurrent

\* The verdict of a workflow nobody cancelled is the one its graph deserves: what
\* is left pending waits for a dependency that will never complete, everything
\* else has ended, and it is a success exactly when nothing failed or is blocked
\* (test_failed_or_blocked_workflow_never_reports_success).
VerdictIsDeserved ==
  wf \in {"completed", "failed"} =>
    /\ \A s \in Steps : step[s] # "running"
    /\ \A s \in Steps : step[s] = "pending" <=> \E d \in deps[s] : ~DependencyMet(d)
    /\ wf = "completed" <=> \A s \in Steps : step[s] \in {"completed", "skipped"}

\* What execute() answers agrees with the state other readers see, and nothing of
\* the workflow is still executing when it answers.
AnswerIsFinal ==
  result # "none" =>
    /\ RoundOver
    /\ wf \in Ended
    /\ result = "success" => wf = "completed"
    /\ result = "failure" => wf = "failed"
    /\ result = "cancelled" => wf = "cancelled"

\* A step leaves "pending" only after all it depends on completed, and is never
\* run a second time, whichever branches failed or were skipped meanwhile.
StepsRunOnceInOrder ==
  [][\A s \in Steps : step'[s] # step[s] =>
       \/ step[s] = "pending" /\ \A d \in deps[s] : DependencyMet(d)
       \/ step[s] = "running" /\ step'[s] \in {"completed", "failed"}]_vars

\* "So cancel_workflow() can actually stop it": once cancelled, a workflow stays
\* cancelled and none of its steps begins, completes or fails any more.
CancelStopsIt == [][wf = "cancelled" => wf' = wf /\ step' = step]_vars

\* Every run ends, also over cyclic and dangling dependencies and while it is
\* being cancelled from two sides.
RunEnds == run # "none" ~> result # "none"
=============================================================================
