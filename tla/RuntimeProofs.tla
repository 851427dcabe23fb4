---------------------------- MODULE RuntimeProofs ----------------------------
(***************************************************************************)
(* Proofs about the path to the model providers, for any number of tasks   *)
(* and providers, any chain, threshold and number of attempts.             *)
(*                                                                         *)
(* What bounds the failures of a provider is that every call under way was *)
(* let through: its failures and the calls under way together stay below   *)
(* the threshold and the number of tasks.                                  *)
(*                                                                         *)
(* And about the schedules, for any number of schedules and callers.  A    *)
(* job is only there with an active row because a row is activated before  *)
(* its job is added, and left active until its job is dropped.             *)
(***************************************************************************)
EXTENDS ModelGateway, Schedules, FiniteSetTheorems, TLAPS

(***************************************************************************)
(* The model providers.                                                    *)
(***************************************************************************)

\* Which version of the text a task holds while its review is asked for, and what it has
\* passed when it is judged.
Reviewed(t, r) ==
  /\ r \in Task
  /\ r.pc = "new" => r.purpose = "draft" /\ r.attempt = 0
  /\ r.pc = "ask" => r.attempt < Attempts
  /\ r.pc \in {"ask", "call"} => /\ r.purpose = "review" => r.text = "draft"
                                 /\ r.purpose = "recheck" => r.text = "fixed"
  /\ t \in Strict => /\ r.pc = "judge" => r.text \in r.passed
                     /\ r.pc = "delivered" => r.text \in r.passed \cup {"rewritten"}

Calling(p) == {t \in AgentTasks : Doing(t, "call") /\ Provider(t) = p}

Breakers ==
  /\ failures \in [Providers -> Nat] /\ cooled \in [Providers -> BOOLEAN]
  /\ strikes \in [Providers -> Nat]
  /\ \A p \in Providers : /\ strikes[p] <= failures[p]
                          /\ cooled[p] => strikes[p] = 0

CallsLetThrough ==
  \A p \in Providers : strikes[p] + Cardinality(Calling(p)) < Threshold + Cardinality(AgentTasks)

GatewayInv ==
  /\ task \in [AgentTasks -> Task] /\ \A t \in AgentTasks : Reviewed(t, task[t])
  /\ Breakers /\ CallsLetThrough

-----------------------------------------------------------------------------
(* What a task becomes.                                                    *)

LEMMA ChainHasLinks ==
  /\ Len(Chain) \in Nat /\ 1 <= Len(Chain) /\ \A i \in 1..Len(Chain) : Chain[i] \in Providers
  /\ Attempts \in Nat /\ 0 < Attempts
BY GatewayAssumption

LEMMA AskingFields ==
  ASSUME NEW r \in Task, NEW purpose \in Purposes
  PROVE  LET a == Asking(r, purpose)
         IN a \in Task /\ a.pc = "ask" /\ a.purpose = purpose /\ a.attempt = 0 /\ a.text = r.text
<1>1. Asking(r, purpose) \in Task
  <2>1. 1 \in 0..Len(Chain) /\ 0 \in 0..Attempts
    BY ChainHasLinks
  <2> QED BY <2>1 DEF Asking, Task
<1> QED BY <1>1 DEF Asking, Task

LEMMA AskingReviewed ==
  ASSUME NEW t, NEW r \in Task, NEW purpose \in Purposes,
         purpose = "review" => r.text = "draft", purpose = "recheck" => r.text = "fixed"
  PROVE  Reviewed(t, Asking(r, purpose)) /\ Asking(r, purpose).pc = "ask"
BY AskingFields, ChainHasLinks DEF Reviewed

LEMMA UnansweredReviewed ==
  ASSUME NEW t, NEW r, Reviewed(t, r), r.pc \in {"ask", "call"}
  PROVE  Reviewed(t, Unanswered(t, r)) /\ Unanswered(t, r).pc # "call"
<1>1. CASE r.purpose = "review" /\ (t \in Strict \/ r.flawed)
  BY <1>1, AskingReviewed DEF Unanswered, Reviewed, Purposes
<1>2. CASE r.purpose = "review" /\ t \notin Strict /\ ~r.flawed
  BY <1>2 DEF Unanswered, Reviewed, Task
<1>3. CASE r.purpose # "review"
  BY <1>3 DEF Unanswered, Reviewed, Task, Fails
<1> QED BY <1>1, <1>2, <1>3 DEF Reviewed, Task

LEMMA NextLinkReviewed ==
  ASSUME NEW t, NEW r, Reviewed(t, r), r.pc \in {"ask", "call"}
  PROVE  Reviewed(t, NextLink(t, r)) /\ NextLink(t, r).pc # "call"
<1>1. CASE r.link < Len(Chain)
  <2> DEFINE n == [r EXCEPT !.pc = "ask", !.link = @ + 1, !.attempt = 0]
  <2>1. r \in Task /\ r.link + 1 \in 0..Len(Chain) /\ 0 \in 0..Attempts
    BY <1>1, ChainHasLinks DEF Reviewed, Task
  <2>2. n \in Task /\ n.pc = "ask" /\ n.attempt = 0 /\ n.purpose = r.purpose /\ n.text = r.text
    BY <2>1 DEF Task
  <2>3. NextLink(t, r) = n
    BY <1>1 DEF NextLink
  <2> HIDE DEF n
  <2> QED BY <2>2, <2>3, ChainHasLinks DEF Reviewed
<1>2. CASE ~(r.link < Len(Chain))
  BY <1>2, UnansweredReviewed DEF NextLink
<1> QED BY <1>1, <1>2

LEMMA OutcomesReviewed ==
  ASSUME NEW t, NEW r, Reviewed(t, r), r.pc = "call", NEW o \in Outcomes(t, r)
  PROVE  Reviewed(t, o) /\ o.pc # "call"
<1>0. r \in Task
  BY DEF Reviewed
<1>1. CASE r.purpose = "draft"
  <2>1. CASE o = Fails(r)
    BY <1>0, <2>1 DEF Fails, Reviewed, Task
  <2>2. ASSUME NEW f \in BOOLEAN, o = Asking([r EXCEPT !.text = "draft", !.flawed = f], "review")
        PROVE  Reviewed(t, o) /\ o.pc # "call"
    <3>1. [r EXCEPT !.text = "draft", !.flawed = f] \in Task
          /\ [r EXCEPT !.text = "draft", !.flawed = f].text = "draft"
      BY <1>0 DEF Task, Texts
    <3> QED BY <2>2, <3>1, AskingReviewed DEF Purposes
  <2> QED BY <1>1, <2>1, <2>2 DEF Outcomes
<1>2. CASE r.purpose = "review"
  <2>1. Reviewed(t, Unanswered(t, r)) /\ Unanswered(t, r).pc # "call"
    BY UnansweredReviewed
  <2>2. CASE o = Asking(r, "fix")
    BY <1>0, <2>2, AskingReviewed DEF Purposes
  <2>3. CASE r.flawed /\ o = Asking([r EXCEPT !.passed = {"draft"}], "fix")
    <3>1. [r EXCEPT !.passed = {"draft"}] \in Task
      BY <1>0 DEF Task, Texts
    <3> QED BY <2>3, <3>1, AskingReviewed DEF Purposes
  <2>4. CASE ~r.flawed /\ o = [r EXCEPT !.passed = {"draft"}, !.pc = "judge"]
    <3>1. r.text = "draft"
      BY <1>2 DEF Reviewed
    <3>2. o \in Task /\ o.pc = "judge" /\ o.text = "draft" /\ o.passed = {"draft"}
      BY <1>0, <2>4, <3>1 DEF Task, Texts
    <3> QED BY <3>2 DEF Reviewed
  <2> QED BY <1>2, <2>1, <2>2, <2>3, <2>4 DEF Outcomes
<1>3. CASE r.purpose = "fix"
  <2> DEFINE f == [r EXCEPT !.text = "fixed"]
  <2>1. f \in Task /\ f.text = "fixed"
    BY <1>0 DEF Task, Texts
  <2>2. CASE o = Fails(r)
    BY <1>0, <2>2 DEF Fails, Reviewed, Task
  <2>3. CASE t \in Strict /\ o = Asking(f, "recheck")
    BY <2>1, <2>3, AskingReviewed DEF Purposes
  <2>4. CASE t \notin Strict /\ o = [f EXCEPT !.pc = "judge"]
    BY <2>1, <2>4 DEF Reviewed, Task
  <2> QED BY <1>3, <2>2, <2>3, <2>4 DEF Outcomes, Corrected
<1>4. CASE r.purpose = "recheck"
  <2> DEFINE j == [r EXCEPT !.passed = @ \cup {"fixed"}, !.pc = "judge"]
  <2>1. CASE o = Fails(r)
    BY <1>0, <2>1 DEF Fails, Reviewed, Task
  <2>2. CASE o = j
    <3>1. r.text = "fixed" /\ r.passed \cup {"fixed"} \in SUBSET Texts
      BY <1>0, <1>4 DEF Reviewed, Task, Texts
    <3>2. j \in Task /\ j.pc = "judge" /\ j.text = "fixed" /\ "fixed" \in j.passed
      BY <1>0, <3>1 DEF Task
    <3> HIDE DEF j
    <3> QED BY <2>2, <3>2 DEF Reviewed
  <2> QED BY <1>4, <2>1, <2>2 DEF Outcomes
<1> QED BY <1>0, <1>1, <1>2, <1>3, <1>4 DEF Task, Purposes

-----------------------------------------------------------------------------
(* What a step does.                                                       *)

LEMMA ProviderType ==
  ASSUME NEW t \in AgentTasks, task[t] \in Task
  PROVE  Provider(t) \in Providers
BY ChainHasLinks, GatewayAssumption DEF Provider, Task

\* A step of a task changes that task alone, and it has been reviewed as far as it has to be.
LEMMA TasksKept ==
  ASSUME GatewayInv, NEW t \in AgentTasks,
         Start(t) \/ Ask(t) \/ CallFails(t) \/ CallAnswers(t) \/ TimeOut(t) \/ Deliver(t)
  PROVE  \E o : /\ Becomes(t, o) /\ Reviewed(t, o)
                /\ o.pc = "call" => Ask(t) /\ ~IsOpen(Provider(t)) /\ o.link = task[t].link
<1> DEFINE r == task[t]
<1>0. Reviewed(t, r) /\ r \in Task
  BY DEF GatewayInv
<1>1. CASE Start(t)
  <2>1. Reviewed(t, [r EXCEPT !.pc = "ask"]) /\ [r EXCEPT !.pc = "ask"].pc = "ask"
    BY <1>0, <1>1, ChainHasLinks DEF Start, Doing, Reviewed, Task
  <2> QED BY <1>1, <2>1 DEF Start
<1>2. CASE Ask(t)
  <2>1. CASE IsOpen(Provider(t))
    BY <1>0, <1>2, <2>1, NextLinkReviewed DEF Ask, Doing
  <2>2. CASE ~IsOpen(Provider(t))
    <3> DEFINE c == [r EXCEPT !.pc = "call", !.attempt = @ + 1]
    <3>1. r.pc = "ask" /\ r.attempt + 1 \in 0..Attempts
      BY <1>0, <1>2, ChainHasLinks DEF Ask, Doing, Reviewed, Task
    <3>2. c \in Task /\ c.pc = "call" /\ c.purpose = r.purpose /\ c.text = r.text /\ c.link = r.link
      BY <1>0, <3>1 DEF Task
    <3>3. Becomes(t, c)
      BY <1>2, <2>2 DEF Ask
    <3> HIDE DEF c
    <3>4. Reviewed(t, c)
      BY <1>0, <3>1, <3>2 DEF Reviewed
    <3> QED BY <1>2, <2>2, <3>2, <3>3, <3>4
  <2> QED BY <2>1, <2>2
<1>3. CASE CallFails(t)
  <2>1. CASE r.attempt < Attempts
    BY <1>0, <1>3, <2>1 DEF CallFails, Doing, Reviewed, Task
  <2>2. CASE ~(r.attempt < Attempts)
    BY <1>0, <1>3, <2>2, NextLinkReviewed DEF CallFails, Doing
  <2> QED BY <2>1, <2>2
<1>4. CASE CallAnswers(t)
  BY <1>0, <1>4, OutcomesReviewed DEF CallAnswers, Doing
<1>5. CASE TimeOut(t)
  BY <1>0, <1>5 DEF TimeOut, Fails, Reviewed, Task
<1>6. CASE Deliver(t)
  <2>1. PICK text \in {r.text, "rewritten"} : Becomes(t, [r EXCEPT !.pc = "delivered", !.text = text])
    BY <1>6 DEF Deliver
  <2> DEFINE d == [r EXCEPT !.pc = "delivered", !.text = text]
  <2>2. d \in Task /\ d.pc = "delivered" /\ d.text = text /\ d.passed = r.passed
    BY <1>0, <2>1 DEF Task, Texts
  <2>3. Becomes(t, d)
    BY <2>1
  <2> HIDE DEF d
  <2>4. Reviewed(t, d)
    BY <1>0, <1>6, <2>1, <2>2 DEF Deliver, Doing, Reviewed
  <2> QED BY <2>2, <2>3, <2>4
<1> QED BY <1>1, <1>2, <1>3, <1>4, <1>5, <1>6

-----------------------------------------------------------------------------
(* The breakers and the calls under way.                                   *)

LEMMA CallingCounts ==
  ASSUME NEW p
  PROVE  /\ IsFiniteSet(Calling(p)) /\ Cardinality(Calling(p)) \in Nat
         /\ Cardinality(AgentTasks) \in Nat /\ Cardinality(Calling(p)) <= Cardinality(AgentTasks)
<1>1. Calling(p) \subseteq AgentTasks
  BY DEF Calling
<1> QED BY <1>1, GatewayAssumption, FS_Subset, FS_CardinalityType

\* A task that is not let through to a provider leaves the calls under way if it was there.
LEMMA CallingKept ==
  ASSUME NEW t \in AgentTasks, NEW p, NEW o, task \in [AgentTasks -> Task], Becomes(t, o),
         ~(o.pc = "call" /\ o.link = task[t].link /\ Provider(t) = p),
         o.pc = "call" => o.link = task[t].link
  PROVE  Calling(p)' = Calling(p) \ {t}
<1>1. \A u \in AgentTasks \ {t} : task'[u] = task[u]
  BY DEF Becomes
<1>2. task'[t] = o
  BY DEF Becomes
<1>3. \A u \in AgentTasks \ {t} : u \in Calling(p)' <=> u \in Calling(p)
  BY <1>1 DEF Calling, Doing, Provider
<1>4. t \notin Calling(p)'
  BY <1>2 DEF Calling, Doing, Provider
<1> QED BY <1>3, <1>4 DEF Calling

LEMMA CallingFewer ==
  ASSUME NEW t \in AgentTasks, NEW p, Calling(p)' = Calling(p) \ {t}
  PROVE  /\ Cardinality(Calling(p))' \in Nat
         /\ Cardinality(Calling(p))' <= Cardinality(Calling(p))
         /\ t \in Calling(p) => Cardinality(Calling(p))' = Cardinality(Calling(p)) - 1
<1> DEFINE C == Calling(p)
           D == C \ {t}
<1>1. Cardinality(C)' = Cardinality(D)
  OBVIOUS
<1>2. IsFiniteSet(C) /\ Cardinality(C) \in Nat
  BY CallingCounts
<1> HIDE DEF C
<1>3. IsFiniteSet(D) /\ Cardinality(D) = IF t \in C THEN Cardinality(C) - 1 ELSE Cardinality(C)
  BY <1>2, FS_RemoveElement
<1>4. Cardinality(D) \in Nat
  BY <1>3, FS_CardinalityType
<1>5. /\ Cardinality(D) <= Cardinality(C)
      /\ t \in C => Cardinality(D) = Cardinality(C) - 1
  BY <1>2, <1>3
<1> QED BY <1>1, <1>4, <1>5 DEF C

LEMMA TaskStep ==
  ASSUME GatewayInv, NEW t \in AgentTasks,
         Start(t) \/ Ask(t) \/ CallFails(t) \/ CallAnswers(t) \/ TimeOut(t) \/ Deliver(t)
  PROVE  GatewayInv'
<1>1. PICK o : /\ Becomes(t, o) /\ Reviewed(t, o)
               /\ o.pc = "call" => Ask(t) /\ ~IsOpen(Provider(t)) /\ o.link = task[t].link
  BY TasksKept
<1>2. task' \in [AgentTasks -> Task] /\ \A u \in AgentTasks : Reviewed(u, task'[u])
  <2>1. o \in Task
    BY <1>1 DEF Reviewed
  <2> QED BY <1>1, <2>1 DEF GatewayInv, Becomes
<1> DEFINE q == Provider(t)
<1>3. q \in Providers
  BY ProviderType DEF GatewayInv
<1>4. \/ UNCHANGED breakers
      \/ RecordFailure(q) /\ Doing(t, "call")
      \/ RecordSuccess(q)
  BY DEF Start, Ask, CallFails, CallAnswers, TimeOut, Deliver
<1>5. Breakers'
  <2>1. CASE UNCHANGED breakers
    BY <2>1 DEF breakers, GatewayInv, Breakers
  <2>2. CASE RecordFailure(q)
    <3> HIDE DEF q
    <3> QED BY <1>3, <2>2 DEF RecordFailure, GatewayInv, Breakers
  <2>3. CASE RecordSuccess(q)
    <3> HIDE DEF q
    <3> QED BY <1>3, <2>3 DEF RecordSuccess, GatewayInv, Breakers
  <2> QED BY <1>4, <2>1, <2>2, <2>3
<1>6. ASSUME NEW p \in Providers
      PROVE  strikes'[p] + Cardinality(Calling(p))' < Threshold + Cardinality(AgentTasks)
  <2>0. /\ strikes[p] \in Nat /\ failures[p] \in Nat /\ strikes[p] <= failures[p]
        /\ cooled[p] => strikes[p] = 0
        /\ strikes[p] + Cardinality(Calling(p)) < Threshold + Cardinality(AgentTasks)
        /\ Threshold \in Nat /\ 1 <= Threshold
    BY GatewayAssumption DEF GatewayInv, Breakers, CallsLetThrough
  <2>1. CASE o.pc = "call" /\ q = p
    <3>1. UNCHANGED breakers /\ ~IsOpen(p)
      BY <1>1, <2>1 DEF Ask
    <3>2. strikes'[p] = strikes[p] /\ strikes[p] < Threshold
      BY <2>0, <3>1 DEF breakers, IsOpen
    <3>3. Cardinality(Calling(p))' \in Nat /\ Cardinality(Calling(p))' <= Cardinality(AgentTasks)
      <4>1. Calling(p)' \subseteq AgentTasks
        BY DEF Calling
      <4> QED BY <4>1, GatewayAssumption, FS_Subset, FS_CardinalityType
    <3> QED BY <2>0, <3>2, <3>3, CallingCounts
  <2>2. CASE ~(o.pc = "call" /\ q = p)
    <3>1. Calling(p)' = Calling(p) \ {t}
      BY <1>1, <2>2, CallingKept DEF GatewayInv
    <3>2. /\ Cardinality(Calling(p))' \in Nat /\ Cardinality(Calling(p)) \in Nat
          /\ Cardinality(Calling(p))' <= Cardinality(Calling(p))
          /\ t \in Calling(p) => Cardinality(Calling(p))' = Cardinality(Calling(p)) - 1
      BY <3>1, CallingFewer, CallingCounts
    <3>3. Cardinality(Calling(p)) <= Cardinality(AgentTasks) /\ Cardinality(AgentTasks) \in Nat
      BY CallingCounts
    <3>4. CASE UNCHANGED breakers
      BY <2>0, <3>2, <3>3, <3>4 DEF breakers
    <3>5. CASE RecordFailure(q) /\ Doing(t, "call")
      <4>1. CASE q = p
        <5>1. t \in Calling(p) /\ strikes'[p] = strikes[p] + 1
          BY <3>5, <4>1 DEF Calling, RecordFailure, GatewayInv, Breakers
        <5> QED BY <2>0, <3>2, <3>3, <5>1
      <4>2. CASE q # p
        <5>1. strikes'[p] = strikes[p]
          BY <3>5, <4>2 DEF RecordFailure, GatewayInv, Breakers
        <5> QED BY <2>0, <3>2, <3>3, <5>1
      <4> QED BY <4>1, <4>2
    <3>6. CASE RecordSuccess(q)
      <4>1. strikes'[p] \in {0, strikes[p]}
        BY <3>6 DEF RecordSuccess, GatewayInv, Breakers
      <4> QED BY <2>0, <3>2, <3>3, <4>1
    <3> QED BY <1>4, <3>4, <3>5, <3>6
  <2> QED BY <2>1, <2>2
<1> QED BY <1>2, <1>5, <1>6 DEF GatewayInv, CallsLetThrough

LEMMA CoolDownStep ==
  ASSUME GatewayInv, NEW q \in Providers, CoolDown(q)
  PROVE  GatewayInv'
<1>1. Breakers'
  BY DEF CoolDown, GatewayInv, Breakers
<1>2. ASSUME NEW p \in Providers
      PROVE  strikes'[p] + Cardinality(Calling(p))' < Threshold + Cardinality(AgentTasks)
  <2>1. Cardinality(Calling(p))' = Cardinality(Calling(p))
    BY DEF CoolDown, Calling, Doing, Provider
  <2>2. strikes'[p] \in {0, strikes[p]} /\ strikes[p] \in Nat
    BY DEF CoolDown, GatewayInv, Breakers
  <2>3. strikes[p] + Cardinality(Calling(p)) < Threshold + Cardinality(AgentTasks)
    BY DEF GatewayInv, CallsLetThrough
  <2> QED BY <2>1, <2>2, <2>3, CallingCounts, GatewayAssumption
<1> QED BY <1>1, <1>2 DEF CoolDown, GatewayInv, CallsLetThrough

LEMMA GatewayInvariant == GatewaySpec => []GatewayInv
<1>1. GatewayInit => GatewayInv
  <2> SUFFICES ASSUME GatewayInit PROVE GatewayInv
    OBVIOUS
  <2>1. NewTask \in Task /\ \A t \in AgentTasks : Reviewed(t, NewTask)
    BY ChainHasLinks DEF NewTask, Task, Purposes, Texts, Reviewed
  <2>2. \A p \in Providers : Calling(p) = {}
    BY DEF GatewayInit, Calling, Doing, NewTask
  <2>3. CallsLetThrough
    BY <2>2, CallingCounts, FS_EmptySet, GatewayAssumption DEF GatewayInit, CallsLetThrough
  <2> QED BY <2>1, <2>3 DEF GatewayInit, GatewayInv, Breakers
<1>2. GatewayInv /\ [GatewayNext]_gatewayVars => GatewayInv'
  <2> SUFFICES ASSUME GatewayInv, [GatewayNext]_gatewayVars PROVE GatewayInv'
    OBVIOUS
  <2>1. CASE UNCHANGED gatewayVars
    BY <2>1 DEF gatewayVars, GatewayInv, Breakers, CallsLetThrough, Calling, Doing, Provider
  <2> QED BY <2>1, TaskStep, CoolDownStep DEF GatewayNext
<1> QED BY <1>1, <1>2, PTL DEF GatewaySpec

\* The type invariant of the model of the path to the providers (model_provider.py:60,
\* agent_runtime.py:150).
THEOREM GatewayTypeCorrect == GatewaySpec => []GatewayTypeOK
<1>1. GatewayInv => GatewayTypeOK
  BY DEF GatewayInv, Breakers, GatewayTypeOK
<1> QED BY <1>1, GatewayInvariant, PTL

\* A strict agent delivers what its reviewer passed, and a failing provider is asked no more
\* often than its breaker and the calls under way allow (agent_runtime.py:238,
\* model_provider.py:113).
THEOREM GatewayCorrect == GatewaySpec => []GatewaySafe
<1>1. GatewayInv => StrictIsReviewed
  BY GatewayAssumption DEF GatewayInv, Reviewed, StrictIsReviewed, Doing
<1>2. GatewayInv => FailsFast
  <2> SUFFICES ASSUME GatewayInv, NEW p \in Providers
               PROVE  strikes[p] < Threshold + Cardinality(AgentTasks)
    BY DEF FailsFast
  <2> QED BY CallingCounts, GatewayAssumption DEF GatewayInv, Breakers, CallsLetThrough
<1> QED BY <1>1, <1>2, GatewayInvariant, PTL DEF GatewaySafe

-----------------------------------------------------------------------------
(***************************************************************************)
(* The schedules.                                                          *)
(***************************************************************************)

\* Whoever is at a schedule found its row; a registration at rest is at none.
AtRows ==
  /\ \A c \in Callers : /\ caller[c].todo = "nothing" => caller[c].ids = {}
                        /\ \A i \in caller[c].ids : plan[i] # "none"
  /\ \A i \in boot.todo : plan[i] # "none"
  /\ boot.pc \in {"load", "done"} => boot.todo = {}
  /\ boot.pc = "ensure" => \A i, k \in boot.todo : i = k

\* No two are at schedule i.
OneAt(i) ==
  /\ \A c, d \in Callers : i \in caller[c].ids /\ i \in caller[d].ids => c = d
  /\ \A c \in Callers : i \in caller[c].ids => i \notin boot.todo

\* The order of the two writes: a job is only there with an active row, since a row is
\* activated before its job is added and left active until its job is dropped.
RowFirst(i) ==
  /\ i \in jobs => plan[i] = "active"
  /\ i \in boot.todo => plan[i] = "active"
  /\ \A c \in Callers : i \in caller[c].ids =>
       /\ caller[c].todo = "add" => plan[i] = "active"
       /\ caller[c].todo \in {"delete", "deactivate"} => i \notin jobs

\* A restart may leave an active row without its job, until the rows are loaded.
JobAdded(i) == boot.pc # "load" /\ plan[i] = "active" /\ ~AtWork(i) => i \in jobs

Matched(i) == OneAt(i) /\ RowFirst(i) /\ JobAdded(i)

\* The inductive invariant: of the schedules no two calls met at, and no failure hit, jobs and
\* rows match.
SchedulesInv == SchedulesTypeOK /\ AtRows /\ \A i \in Schedules \ (crossed \cup refused) : Matched(i)

\* It holds with no schedule at all.
LEMMA SchedulesInitially == SchedulesInit => SchedulesInv
BY SchedulesAssumption DEF SchedulesInit, SchedulesInv, SchedulesTypeOK, AtRows, Matched, OneAt, RowFirst, JobAdded,
   AtWork, IdleCaller, Caller, Rows

\* The variables keep their types.
LEMMA SchedulesTyped ==
  ASSUME SchedulesTypeOK, [SchedulesNext]_scheduleVars PROVE SchedulesTypeOK'
<1> USE SchedulesAssumption DEF SchedulesTypeOK, Caller, IdleCaller, Rows
<1>1. ASSUME NEW c \in Callers, NEW i \in Schedules, CreateSchedule(c, i) \/ EnableSchedule(c, i) \/ DropSchedule(c, i)
      PROVE  SchedulesTypeOK'
  BY <1>1 DEF CreateSchedule, EnableSchedule, DropSchedule, Calls, Meets, DropJob
<1>2. ASSUME NEW c \in Callers, AddJob(c) \/ WriteRow(c) PROVE SchedulesTypeOK'
  BY <1>2 DEF AddJob, WriteRow, Returns
<1>3. ASSUME NEW i \in Schedules, LoadJob(i) \/ EnsureJob(i) PROVE SchedulesTypeOK'
  BY <1>3 DEF LoadJob, EnsureJob
<1>4. ASSUME LoadSchedules \/ LoadFails \/ Loaded \/ Ensure \/ EnsureFails \/ Reboot
      PROVE  SchedulesTypeOK'
  BY <1>4 DEF LoadSchedules, LoadFails, Loaded, Ensure, EnsureFails, Reboot
<1>5. CASE UNCHANGED scheduleVars
  BY <1>5 DEF scheduleVars
<1> QED BY <1>1, <1>2, <1>3, <1>4, <1>5 DEF SchedulesNext

\* Whoever is at a schedule finds its row for as long as it is.
LEMMA RowsStay ==
  ASSUME SchedulesTypeOK, AtRows, [SchedulesNext]_scheduleVars PROVE AtRows'
<1> USE DEF SchedulesTypeOK, Caller, IdleCaller, Rows, AtRows
<1>1. ASSUME NEW c \in Callers, NEW i \in Schedules, CreateSchedule(c, i) \/ EnableSchedule(c, i) \/ DropSchedule(c, i)
      PROVE  AtRows'
  BY <1>1 DEF CreateSchedule, EnableSchedule, DropSchedule, Calls, Exists
<1>2. ASSUME NEW c \in Callers, AddJob(c) \/ WriteRow(c) PROVE AtRows'
  BY <1>2 DEF AddJob, WriteRow, Returns
<1>3. ASSUME NEW i \in Schedules, LoadJob(i) \/ EnsureJob(i) PROVE AtRows'
  BY <1>3 DEF LoadJob, EnsureJob
<1>4. ASSUME LoadSchedules \/ LoadFails \/ Loaded \/ Ensure \/ EnsureFails \/ Reboot PROVE AtRows'
  BY <1>4 DEF LoadSchedules, LoadFails, Loaded, Ensure, EnsureFails, Reboot, ToLoad
<1>5. CASE UNCHANGED scheduleVars
  BY <1>5 DEF scheduleVars
<1> QED BY <1>1, <1>2, <1>3, <1>4, <1>5 DEF SchedulesNext

\* Every write of a call, of the registration after a boot and a restart keeps it.
LEMMA SchedulesStep ==
  ASSUME SchedulesInv, [SchedulesNext]_scheduleVars PROVE SchedulesInv'
<1> USE DEF SchedulesInv
<1> SUFFICES ASSUME NEW j \in Schedules, j \notin (crossed \cup refused)' PROVE Matched(j)'
  BY SchedulesTyped, RowsStay
<1>0. \/ j \notin crossed \cup refused /\ Matched(j)
      \/ LoadSchedules
  <2>1. ASSUME ~LoadSchedules PROVE crossed \subseteq crossed' /\ refused \subseteq refused'
    BY <2>1 DEF SchedulesNext, CreateSchedule, EnableSchedule, DropSchedule, AddJob, WriteRow, LoadJob, EnsureJob,
       LoadFails, Loaded, Ensure, EnsureFails, Reboot, scheduleVars, Meets
  <2> QED BY <2>1
<1> USE DEF SchedulesTypeOK, Caller, IdleCaller, Matched, OneAt, RowFirst, JobAdded, AtWork
<1>1. ASSUME NEW c \in Callers, NEW i \in Schedules, CreateSchedule(c, i), ~LoadSchedules PROVE Matched(j)'
  BY <1>0, <1>1 DEF CreateSchedule, Calls, AtRows, Idle
<1>2. ASSUME NEW c \in Callers, NEW i \in Schedules, EnableSchedule(c, i), ~LoadSchedules PROVE Matched(j)'
  BY <1>0, <1>2 DEF EnableSchedule, Calls, Meets, AtRows, Idle
<1>3. ASSUME NEW c \in Callers, NEW i \in Schedules, DropSchedule(c, i), ~LoadSchedules PROVE Matched(j)'
  BY <1>0, <1>3 DEF DropSchedule, Calls, Meets, AtRows, Idle, DropJob
<1>4. ASSUME NEW c \in Callers, AddJob(c), ~LoadSchedules PROVE Matched(j)'
  BY <1>0, <1>4 DEF AddJob, Returns
<1>5. ASSUME NEW c \in Callers, WriteRow(c), ~LoadSchedules PROVE Matched(j)'
  BY <1>0, <1>5 DEF WriteRow, Returns, Exists
<1>6. ASSUME NEW i \in Schedules, LoadJob(i) \/ EnsureJob(i), ~LoadSchedules PROVE Matched(j)'
  BY <1>0, <1>6 DEF LoadJob, EnsureJob, AtRows
<1>7. CASE LoadSchedules
  BY <1>7 DEF LoadSchedules, ToLoad, AtRows
<1>8. CASE (Loaded \/ Ensure \/ EnsureFails) /\ ~LoadSchedules
  BY <1>0, <1>8 DEF Loaded, Ensure, EnsureFails, AtRows
<1>9. CASE Reboot /\ ~LoadSchedules
  BY <1>0, <1>9 DEF Reboot
<1>10. CASE LoadFails /\ ~LoadSchedules
  BY <1>0, <1>10 DEF LoadFails, ToLoad, AtRows
<1>11. CASE UNCHANGED scheduleVars /\ ~LoadSchedules
  BY <1>0, <1>11 DEF scheduleVars
<1> QED BY <1>1, <1>2, <1>3, <1>4, <1>5, <1>6, <1>7, <1>8, <1>9, <1>10, <1>11 DEF SchedulesNext

\* The variables keep their types (scheduler.py, main.py).
THEOREM SchedulesTypeCorrect == SchedulesSpec => []SchedulesTypeOK
<1>1. SchedulesInv => SchedulesTypeOK
  BY DEF SchedulesInv
<1> QED BY <1>1, SchedulesInitially, SchedulesStep, PTL DEF SchedulesSpec

\* Once the registration after a boot is done, the jobs are those of the active schedules, but for
\* calls in progress and where two met or the job store, the load or the row's write failed
\* (scheduler.py:65, 99, 113, 180, 217).
THEOREM SchedulesCorrect == SchedulesSpec => []JobsMatchSchedules
<1>1. SchedulesInv => JobsMatchSchedules
  BY DEF SchedulesInv, JobsMatchSchedules, Matched, RowFirst, JobAdded
<1> QED BY <1>1, SchedulesInitially, SchedulesStep, PTL DEF SchedulesSpec
=============================================================================
