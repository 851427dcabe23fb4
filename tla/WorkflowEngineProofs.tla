------------------------- MODULE WorkflowEngineProofs -------------------------
(***************************************************************************)
(* Proofs about WorkflowEngine for any number of steps, any dependency     *)
(* graph and any concurrency limit.                                        *)
(*                                                                         *)
(* The properties are not inductive alone: they need to know which phases  *)
(* of the run and statuses of the workflow go together (Phases), and what  *)
(* a coroutine of the round says about its step (Round).                   *)
(***************************************************************************)
EXTENDS WorkflowEngine, FiniteSetTheorems, TLAPS

Met(s) == \A d \in deps[s] : DependencyMet(d)

Phases ==
  /\ run = "none" => wf = "pending" /\ RoundOver
  /\ run = "active" => wf = "running"
  /\ run = "cancelling" => wf \in {"running", "cancelled"} /\ (wf = "running" => caller)
  /\ run = "done" => wf \in {"completed", "failed"} /\ RoundOver
  /\ run = "cancelled" =>
       wf \in {"running", "cancelled"} /\ (wf = "running" => caller) /\ RoundOver
  /\ wf = "pending" => run = "none"
  /\ result # "none" => run \in {"done", "cancelled"} /\ wf \in Ended

Round ==
  \A s \in Steps :
    /\ step[s] # "pending" => Met(s)
    /\ child[s] = "waiting" => step[s] = "pending" /\ Met(s)
    /\ child[s] = "inside" => step[s] = "running"
    /\ step[s] = "running" /\ run \in {"none", "active", "done"} => child[s] = "inside"

IInv ==
  TypeOK /\ Phases /\ Round /\ ConcurrencyBounded /\ VerdictIsDeserved /\ AnswerIsFinal

-----------------------------------------------------------------------------
(* Lemmas *)

\* A step that is not "completed" may change: no dependency that was met is lost.
LEMMA MetIsStable ==
  ASSUME TypeOK, deps' = deps,
         NEW t \in Steps, step[t] # "completed",
         NEW st, step' = [step EXCEPT ![t] = st], NEW s \in Steps, Met(s)
  PROVE  Met(s)'
BY DEF Met, DependencyMet, TypeOK

\* A semaphore slot that is given back, or a round that empties, keeps the limit.
LEMMA FewerInside ==
  ASSUME TypeOK, ConcurrencyBounded, Inside' \subseteq Inside
  PROVE  ConcurrencyBounded'
<1>1. IsFiniteSet(Inside)
  BY FS_Subset, WorkflowAssumption DEF Inside
<1>2. Cardinality(Inside') <= Cardinality(Inside)
  BY <1>1, FS_Subset
<1>3. Cardinality(Inside) \in Nat /\ Cardinality(Inside') \in Nat
  BY <1>1, FS_Subset, FS_CardinalityType
<1> QED BY <1>2, <1>3, WorkflowAssumption DEF ConcurrencyBounded

\* The semaphore admits a coroutine only below the limit.
LEMMA OneMoreInside ==
  ASSUME TypeOK, ConcurrencyBounded, NEW s \in Steps, Admitted(s),
         child' = [child EXCEPT ![s] = "inside"]
  PROVE  ConcurrencyBounded'
<1>1. IsFiniteSet(Inside)
  BY FS_Subset, WorkflowAssumption DEF Inside
<1>2. Inside' = Inside \cup {s} /\ s \notin Inside
  BY DEF Inside, Waiting, Admitted, TypeOK
<1>3. Cardinality(Inside') = Cardinality(Inside) + 1
  BY <1>1, <1>2, FS_AddElement
<1>4. Cardinality(Inside) \in Nat
  BY <1>1, FS_CardinalityType
<1> QED BY <1>3, <1>4, WorkflowAssumption DEF ConcurrencyBounded, Admitted

LEMMA Initially == Init => IInv
<1> SUFFICES ASSUME Init PROVE IInv
  OBVIOUS
<1>1. Inside = {}
  BY DEF Init, Inside
<1>2. ConcurrencyBounded
  BY <1>1, FS_EmptySet, WorkflowAssumption DEF ConcurrencyBounded
<1>3. TypeOK
  BY DEF Init, TypeOK
<1>4. Phases /\ Round
  BY DEF Init, Phases, Round, RoundOver
<1>5. VerdictIsDeserved /\ AnswerIsFinal
  BY DEF Init, VerdictIsDeserved, AnswerIsFinal
<1> QED BY <1>2, <1>3, <1>4, <1>5 DEF IInv

\* The run looks for executable steps: a new round, or the verdict.
LEMMA LookKeeps == IInv /\ Look => IInv'
<1> SUFFICES ASSUME IInv, Look PROVE IInv'
  OBVIOUS
<1> USE DEF IInv
<1>0. RoundOver /\ run = "active" /\ wf = "running" /\ result = "none"
  BY DEF Look, Phases
<1>1. \A s \in Steps : Met(s)' <=> Met(s)
  BY DEF Look, Met, DependencyMet
<1>2. \A s \in Steps : step[s] # "running"
  BY <1>0 DEF Round, RoundOver
<1>3. CASE Executable = {}
  <2>1. run' = "done" /\ wf' = Verdict /\ child' = child /\ step' = step /\ deps' = deps
        /\ caller' = caller /\ result' = result
    BY <1>3 DEF Look
  <2>2. wf' \in {"completed", "failed"}
    BY <2>1, <1>0 DEF Verdict
  <2>3. TypeOK'
    BY <2>1, <2>2 DEF TypeOK, Ended
  <2>4. Phases'
    BY <2>1, <2>2, <1>0 DEF Phases, RoundOver
  <2>5. Round'
    BY <2>1, <1>0, <1>1 DEF Round, RoundOver
  <2>6. ConcurrencyBounded'
    BY <2>1 DEF ConcurrencyBounded, Inside
  <2>7. \A s \in Steps : step[s] = "pending" <=> \E d \in deps[s] : ~DependencyMet(d)
    BY <1>3 DEF Executable, CanExecute, Round, Met
  <2>8. wf' = "completed" <=> \A s \in Steps : step[s] \in {"completed", "skipped"}
    BY <2>1, <1>0 DEF Verdict
  <2>9. VerdictIsDeserved'
    BY <2>1, <2>7, <2>8, <1>2 DEF VerdictIsDeserved, DependencyMet
  <2> QED BY <2>3, <2>4, <2>5, <2>6, <2>9, <2>1, <1>0 DEF AnswerIsFinal
<1>4. CASE Executable # {}
  <2>1. /\ child' = [s \in Steps |-> IF s \in Executable THEN "waiting" ELSE "none"]
        /\ run' = run /\ wf' = wf /\ step' = step /\ deps' = deps
        /\ caller' = caller /\ result' = result
    BY <1>4 DEF Look
  <2>2. TypeOK'
    BY <2>1 DEF TypeOK
  <2>3. Phases'
    BY <2>1, <1>0 DEF Phases, RoundOver
  <2>4. \A s \in Executable : step[s] = "pending" /\ Met(s)
    BY DEF Executable, CanExecute, Met
  <2>5. Round'
    BY <2>1, <2>4, <1>1, <1>2 DEF Round
  <2>6. ConcurrencyBounded'
    BY <2>1, FewerInside DEF Inside
  <2> QED BY <2>1, <2>2, <2>3, <2>5, <2>6, <1>0 DEF VerdictIsDeserved, AnswerIsFinal
<1> QED BY <1>3, <1>4

\* A coroutine of the round begins, skips or ends its step.
LEMMA StepKeeps ==
  ASSUME IInv, NEW t \in Steps, BeginStep(t) \/ SkipStep(t) \/ EndStep(t)
  PROVE  IInv'
<1> USE DEF IInv
<1>0. run = "active" /\ wf = "running" /\ result = "none"
  BY DEF BeginStep, SkipStep, EndStep, Admitted, Phases
<1>1. /\ deps' = deps /\ wf' = wf /\ run' = run /\ caller' = caller /\ result' = result
  BY DEF BeginStep, SkipStep, EndStep
<1>2. /\ Met(t) /\ step[t] \in {"pending", "running"}
  BY <1>0 DEF BeginStep, SkipStep, EndStep, Admitted, Waiting, Inside, Round
<1>3. PICK st \in {"running", "skipped", "completed", "failed"},
           ch \in {"inside", "none"} :
        /\ step' = [step EXCEPT ![t] = st]
        /\ child' = [child EXCEPT ![t] = ch]
        /\ st = "running" <=> ch = "inside"
  BY DEF BeginStep, SkipStep, EndStep
<1>4. TypeOK'
  BY <1>1, <1>3 DEF TypeOK
<1>5. Phases'
  BY <1>0, <1>1 DEF Phases
<1>6. \A s \in Steps : Met(s) => Met(s)'
  BY <1>1, <1>2, <1>3, MetIsStable
<1>7. Round'
  BY <1>0, <1>1, <1>2, <1>3, <1>6 DEF Round, TypeOK
<1>8. ConcurrencyBounded'
  <2>1. CASE BeginStep(t)
    BY <2>1, OneMoreInside DEF BeginStep
  <2>2. CASE SkipStep(t) \/ EndStep(t)
    <3>1. child' = [child EXCEPT ![t] = "none"]
      BY <2>2 DEF SkipStep, EndStep
    <3>2. Inside' \subseteq Inside
      BY <3>1 DEF Inside, TypeOK
    <3> QED BY <3>2, FewerInside
  <2> QED BY <2>1, <2>2
<1> QED BY <1>0, <1>1, <1>4, <1>5, <1>7, <1>8 DEF VerdictIsDeserved, AnswerIsFinal

\* CancelledError unwinds a coroutine of the round.
LEMMA UnwindStepKeeps ==
  ASSUME IInv, NEW t \in Steps, UnwindStep(t)
  PROVE  IInv'
<1> USE DEF IInv
<1>0. /\ run = "cancelling" /\ wf \notin {"completed", "failed"} /\ result = "none"
  BY DEF UnwindStep, Phases
<1>1. /\ deps' = deps /\ wf' = wf /\ run' = run /\ caller' = caller /\ result' = result
      /\ step' = step /\ child' = [child EXCEPT ![t] = "none"]
  BY DEF UnwindStep
<1>2. TypeOK'
  BY <1>1 DEF TypeOK
<1>3. Phases'
  BY <1>0, <1>1 DEF Phases
<1>4. Round'
  BY <1>0, <1>1 DEF Round, TypeOK, Met, DependencyMet
<1>5. Inside' \subseteq Inside
  BY <1>1 DEF Inside, TypeOK
<1>6. ConcurrencyBounded'
  BY <1>5, FewerInside
<1> QED BY <1>0, <1>1, <1>2, <1>3, <1>4, <1>6 DEF VerdictIsDeserved, AnswerIsFinal

\* The actions that leave the steps and their coroutines alone.
LEMMA LifecycleKeeps ==
  ASSUME IInv,
         Execute \/ CancelWorkflow \/ CancelCaller \/ UnwindRun \/ Return \/ UNCHANGED vars
  PROVE  IInv'
<1> USE DEF IInv
<1>1. step' = step /\ child' = child /\ deps' = deps
  BY DEF Execute, CancelWorkflow, CancelCaller, UnwindRun, Return, vars
<1>2. TypeOK'
  BY <1>1 DEF TypeOK, Execute, CancelWorkflow, CancelCaller, UnwindRun, Return, vars, Ended
<1>3. Phases'
  BY <1>1 DEF TypeOK, Phases, RoundOver, Ended, Execute, CancelWorkflow, CancelCaller,
              UnwindRun, Return, vars
<1>4. \A s \in Steps : Met(s)' <=> Met(s)
  BY <1>1 DEF Met, DependencyMet
<1>5. run' \in {"none", "active", "done"} =>
        run \in {"none", "active", "done"}
  BY DEF Execute, CancelWorkflow, CancelCaller, UnwindRun, Return, vars
<1>6. Round'
  BY <1>1, <1>4, <1>5 DEF Round
<1>7. ConcurrencyBounded'
  BY <1>1 DEF ConcurrencyBounded, Inside
<1>8. wf' \in {"completed", "failed"} => wf' = wf
  BY DEF Execute, CancelWorkflow, CancelCaller, UnwindRun, Return, vars
<1>9. VerdictIsDeserved'
  BY <1>1, <1>8 DEF VerdictIsDeserved, DependencyMet
<1>10. AnswerIsFinal'
  BY <1>1 DEF TypeOK, Phases, AnswerIsFinal, RoundOver, Ended, Execute, CancelWorkflow,
              CancelCaller, UnwindRun, Return, vars
<1> QED BY <1>2, <1>3, <1>6, <1>7, <1>9, <1>10

-----------------------------------------------------------------------------
(* Theorems *)

\* The inductive invariant holds in every reachable state.
THEOREM Invariance == Spec => []IInv
<1>1. IInv /\ [Next]_vars => IInv'
  BY LookKeeps, StepKeeps, UnwindStepKeeps, LifecycleKeeps DEF Next, Loop
<1> QED BY Initially, <1>1, PTL DEF Spec

\* The variables keep their types.
THEOREM TypeCorrect == Spec => []TypeOK
BY Invariance, PTL DEF IInv

\* max_concurrent_steps bounds the agents at work for a workflow of any size.
THEOREM SemaphoreHolds == Spec => []ConcurrencyBounded
BY Invariance, PTL DEF IInv

\* Whatever the graph, the order of answers and the limit, a workflow nobody
\* cancelled ends with the verdict its steps deserve.
THEOREM VerdictCorrect == Spec => []VerdictIsDeserved
BY Invariance, PTL DEF IInv

\* What execute() answers is final and agrees with the workflow's status.
THEOREM AnswerCorrect == Spec => []AnswerIsFinal
BY Invariance, PTL DEF IInv

\* A step runs at most once, after all it depends on completed.
THEOREM StepsInOrder == Spec => StepsRunOnceInOrder
<1>1. IInv /\ [Next]_vars =>
        \A s \in Steps : step'[s] # step[s] =>
          \/ step[s] = "pending" /\ \A d \in deps[s] : DependencyMet(d)
          \/ step[s] = "running" /\ step'[s] \in {"completed", "failed"}
  <2> SUFFICES ASSUME IInv, [Next]_vars, NEW s \in Steps, step'[s] # step[s]
               PROVE  \/ step[s] = "pending" /\ \A d \in deps[s] : DependencyMet(d)
                      \/ step[s] = "running" /\ step'[s] \in {"completed", "failed"}
    OBVIOUS
  <2>1. PICK t \in Steps : BeginStep(t) \/ SkipStep(t) \/ EndStep(t)
    BY DEF Next, Loop, Execute, Look, UnwindRun, Return, UnwindStep, CancelWorkflow,
           CancelCaller, vars
  <2>2. s = t
    BY <2>1 DEF BeginStep, SkipStep, EndStep, IInv, TypeOK
  <2>3. CASE BeginStep(t) \/ SkipStep(t)
    BY <2>2, <2>3 DEF BeginStep, SkipStep, Admitted, Waiting, IInv, Round, Met
  <2>4. CASE EndStep(t)
    BY <2>2, <2>4 DEF EndStep, Inside, IInv, Round, TypeOK
  <2> QED BY <2>1, <2>3, <2>4
<1> QED BY Invariance, <1>1, PTL DEF Spec, StepsRunOnceInOrder

\* A cancelled workflow stays cancelled and its steps stay as they are.
THEOREM CancelIsFinal == Spec => CancelStopsIt
<1>1. IInv /\ [Next]_vars => (wf = "cancelled" => wf' = wf /\ step' = step)
  <2> SUFFICES ASSUME IInv, [Next]_vars, wf = "cancelled"
               PROVE  wf' = wf /\ step' = step
    OBVIOUS
  <2>1. run \in {"cancelling", "cancelled"}
    BY DEF IInv, Phases, TypeOK
  <2> QED BY <2>1 DEF Next, Loop, Execute, Look, BeginStep, SkipStep, EndStep, Admitted,
                  UnwindStep, UnwindRun, Return, CancelWorkflow, CancelCaller, vars
<1> QED BY Invariance, <1>1, PTL DEF Spec, CancelStopsIt
=============================================================================
