---------------------------- MODULE ModelGateway ----------------------------
(***************************************************************************)
(* How an agent's task reaches the model providers and comes back as a     *)
(* deliverable: the quality gate (services/agent_runtime.py) over the      *)
(* fallback chain, the retries and the circuit breaker of each provider    *)
(* (core/model_provider.py).  Tasks run concurrently and share the         *)
(* breakers; a step is what happens between two awaits.                    *)
(*                                                                         *)
(* Abstracted: prompts and texts, of which the model keeps which version   *)
(* is at hand and whether the reviewer passed it; PII masking and streams; *)
(* a provider that is not configured (it is skipped).  Agents whose calls  *)
(* go around the gate (quality_gate, evaluation_loop) are left out.        *)
(***************************************************************************)
EXTENDS Naturals, Sequences, FiniteSets

CONSTANTS
  AgentTasks,
  Providers,
  Primary,      \* the provider of the agent's own model
  Chain,        \* the fallback chain "gemini"
  Strict,       \* tasks of agents with strict evidence
  Threshold,    \* circuit_breaker_threshold
  Attempts      \* stop_after_attempt

ASSUME GatewayAssumption ==
  /\ Primary \in Providers /\ Chain \in Seq(Providers) \ {<<>>} /\ Strict \subseteq AgentTasks
  /\ Threshold \in Nat \ {0} /\ Attempts \in Nat \ {0} /\ IsFiniteSet(AgentTasks)

VARIABLES
  failures,  \* failure_count of each provider's breaker
  cooled,    \* recovery_timeout has passed since its last failure
  task,
  strikes    \* history: failures of a provider since it last answered or cooled down

gatewayVars == <<failures, cooled, task, strikes>>

\* What is asked of a model, one after the other: the draft from the agent's own model and,
\* failing that, from the chain; its review; a correction; in strict mode its review.
Purposes == {"draft", "review", "fix", "recheck"}
Texts == {"none", "draft", "fixed", "rewritten"}
Task == [pc : {"new", "ask", "call", "judge", "delivered", "failed"},
         purpose : Purposes,
         link : 0..Len(Chain),     \* position in the chain; 0: the agent's own model
         attempt : 0..Attempts,
         flawed : BOOLEAN,         \* deterministic_issues found some in the draft
         text : Texts,             \* the version at hand
         passed : SUBSET Texts]    \* the versions the reviewer answered PASS to
NewTask == [pc |-> "new", purpose |-> "draft", link |-> 0, attempt |-> 0, flawed |-> FALSE,
            text |-> "none", passed |-> {}]

GatewayTypeOK ==
  /\ failures \in [Providers -> Nat] /\ cooled \in [Providers -> BOOLEAN]
  /\ task \in [AgentTasks -> Task] /\ strikes \in [Providers -> Nat]

GatewayInit ==
  /\ failures = [p \in Providers |-> 0] /\ cooled = [p \in Providers |-> FALSE]
  /\ task = [t \in AgentTasks |-> NewTask] /\ strikes = [p \in Providers |-> 0]

Becomes(t, r) == task' = [task EXCEPT ![t] = r]
Doing(t, pc) == task[t].pc = pc
Provider(t) == IF task[t].link = 0 THEN Primary ELSE Chain[task[t].link]
breakers == <<failures, cooled, strikes>>

-----------------------------------------------------------------------------
(* CircuitBreaker and BaseModelClient.complete.                            *)

NeverOpen(p) == FALSE  \* mutant: the breaker does not open
IsOpen(p) == failures[p] >= Threshold /\ ~cooled[p]

RecordSuccess(p) ==
  /\ failures' = [failures EXCEPT ![p] = 0]
  /\ cooled' = [cooled EXCEPT ![p] = FALSE]
  /\ strikes' = [strikes EXCEPT ![p] = 0]

RecordFailure(p) ==
  /\ failures' = [failures EXCEPT ![p] = @ + 1]
  /\ cooled' = [cooled EXCEPT ![p] = FALSE]
  /\ strikes' = [strikes EXCEPT ![p] = @ + 1]

\* More than recovery_timeout since the last failure: open breakers let calls through again.
CoolDown(p) ==
  /\ failures[p] >= Threshold /\ ~cooled[p]
  /\ cooled' = [cooled EXCEPT ![p] = TRUE] /\ strikes' = [strikes EXCEPT ![p] = 0]
  /\ UNCHANGED <<failures, task>>

Asking(r, purpose) == [r EXCEPT !.pc = "ask", !.purpose = purpose, !.link = 1, !.attempt = 0]
Fails(r) == [r EXCEPT !.pc = "failed"]

\* The chain is exhausted.  Without a review a strict draft is corrected, another one only
\* if it is flawed; everything else that no model answers fails the task.
Unanswered(t, r) ==
  CASE r.purpose = "review" /\ (t \in Strict \/ r.flawed) -> Asking(r, "fix")
    [] r.purpose = "review" /\ t \notin Strict /\ ~r.flawed -> [r EXCEPT !.pc = "judge"]
    [] OTHER -> Fails(r)

\* The next provider of the chain; _complete turns to the chain when the agent's own fails.
NextLink(t, r) ==
  IF r.link < Len(Chain) THEN [r EXCEPT !.pc = "ask", !.link = @ + 1, !.attempt = 0]
  ELSE Unanswered(t, r)

Start(t) == Doing(t, "new") /\ Becomes(t, [task[t] EXCEPT !.pc = "ask"]) /\ UNCHANGED breakers

\* An open breaker fails fast, which is not retried.
Ask(t) ==
  /\ Doing(t, "ask")
  /\ Becomes(t, IF IsOpen(Provider(t)) THEN NextLink(t, task[t])
                ELSE [task[t] EXCEPT !.pc = "call", !.attempt = @ + 1])
  /\ UNCHANGED breakers

\* After the wait the same provider is asked again, three times in all.
CallFails(t) ==
  /\ Doing(t, "call") /\ RecordFailure(Provider(t))
  /\ Becomes(t, IF task[t].attempt < Attempts THEN [task[t] EXCEPT !.pc = "ask"]
                ELSE NextLink(t, task[t]))

-----------------------------------------------------------------------------
(* agent_runtime.execute.                                                  *)

AnyVerdict(t, r) == [r EXCEPT !.pc = "judge"]  \* mutant: a corrected draft is not reviewed again

\* A correction of a strict agent is reviewed again, another one is delivered.
Corrected(t, r) == IF t \in Strict THEN Asking(r, "recheck") ELSE [r EXCEPT !.pc = "judge"]

\* What the answer leads to: its content may be empty or flawed, a review may be PASS, RETURN
\* or not be a verdict at all (which counts as no review).
Outcomes(t, r) ==
  CASE r.purpose = "draft" ->
         {Fails(r)} \cup {Asking([r EXCEPT !.text = "draft", !.flawed = f], "review") : f \in BOOLEAN}
    [] r.purpose = "review" ->
         {Unanswered(t, r), Asking(r, "fix"),
          IF r.flawed THEN Asking([r EXCEPT !.passed = {"draft"}], "fix")
          ELSE [r EXCEPT !.passed = {"draft"}, !.pc = "judge"]}
    [] r.purpose = "fix" -> {Fails(r), Corrected(t, [r EXCEPT !.text = "fixed"])}
    [] r.purpose = "recheck" -> {Fails(r), [r EXCEPT !.passed = @ \cup {"fixed"}, !.pc = "judge"]}

CallAnswers(t) ==
  /\ Doing(t, "call") /\ RecordSuccess(Provider(t))
  /\ \E r \in Outcomes(t, task[t]) : Becomes(t, r)

\* The caller's time limit covers the draft only; the cancelled call counts as a failure.
TimeOut(t) ==
  /\ task[t].purpose = "draft" /\ task[t].pc \in {"ask", "call"}
  /\ IF Doing(t, "call") THEN RecordFailure(Provider(t)) ELSE UNCHANGED breakers
  /\ Becomes(t, Fails(task[t]))

\* The evaluation loop may still replace the text.
Deliver(t) ==
  /\ Doing(t, "judge")
  /\ \E text \in {task[t].text, "rewritten"} : Becomes(t, [task[t] EXCEPT !.pc = "delivered", !.text = text])
  /\ UNCHANGED breakers

GatewayNext ==
  \/ \E t \in AgentTasks : Start(t) \/ Ask(t) \/ CallFails(t) \/ CallAnswers(t) \/ TimeOut(t) \/ Deliver(t)
  \/ \E p \in Providers : CoolDown(p)

GatewaySpec == GatewayInit /\ [][GatewayNext]_gatewayVars

-----------------------------------------------------------------------------
\* What a strict agent delivers is what its reviewer passed, on every path of retries,
\* fallbacks, missing reviews and corrections ("strict evidence answer failed final Quality
\* Gate", agent_runtime.py:238), unless the evaluation loop rewrote it afterwards.
StrictIsReviewed ==
  \A t \in Strict : Doing(t, "delivered") => task[t].text \in task[t].passed \cup {"rewritten"}

\* A provider that fails is left alone: until it answers or its time is over it fails at most
\* as often as the breaker allows, and once more for each task that was already calling it.
FailsFast == \A p \in Providers : strikes[p] < Threshold + Cardinality(AgentTasks)

\* The hazards of the path to a provider together: an unreviewed deliverable (agent_runtime.py:
\* 238) and calls that keep hitting a provider that is down (model_provider.py:113).
GatewaySafe == StrictIsReviewed /\ FailsFast
=============================================================================
