----------------------------- MODULE SalesProofs -----------------------------
(***************************************************************************)
(* Proofs about the sales conversations, for any number of leads,          *)
(* messages, handlers, drafts and restarts; about leads and campaigns, for *)
(* any number of companies and desks; and about LeadMerge, for every       *)
(* workbook.                                                               *)
(*                                                                         *)
(* Conversations.  Each action is first shown to be one of a dozen moves   *)
(* of its handler (OneMoves), which name what it does to the drafts, the   *)
(* rows and the history; each invariant then goes through the moves.  A    *)
(* draft is posted once because whoever decides it is alone with it and    *)
(* its verdict says what it posted.  A message is answered once because    *)
(* recording it is the ticket to answering.  Follow-ups are bounded        *)
(* because a pass that has written one has counted it, and commits both    *)
(* together.                                                               *)
(*                                                                         *)
(* Leads.  Four invariants, each with its history: who imports or builds   *)
(* meets nobody or is a twin, only the owner makes a lead NEW again, and a *)
(* lead no two desks were at is as its desk loaded it.                     *)
(*                                                                         *)
(* Workbooks.  The loops of merge_records compute the connected components *)
(* of what identifies records.                                             *)
(***************************************************************************)
EXTENDS SalesChat, Leads, LeadMerge, FiniteSetTheorems, WellFoundedInduction, TLAPS

(***************************************************************************)
(* Conversations.                                                          *)
(***************************************************************************)

\* What a request may make of a pipeline row: a paid one stays paid, and the count stands or
\* starts again.
Eases(p, q) == (p.stage = "paid" => q.stage = "paid") /\ q.followups \in {p.followups, 0}
\* What a pass may make of one without a follow-up.
Keeps(p, q) == (p.stage = "paid" => q.stage = "paid") /\ q.followups = p.followups
\* And with one.
Counts(p, q) == (p.stage = "paid" => q.stage = "paid") /\ q.followups = p.followups + 1

\* set_stage leaves a row of its kind.
LEMMA Moving ==
  ASSUME NEW p \in Pipe, NEW stage \in Stages, NEW final \in BOOLEAN
  PROVE  /\ SetStage(p, stage, final) \in Pipe /\ Eases(p, SetStage(p, stage, final))
         /\ stage \notin FollowupStages => Keeps(p, SetStage(p, stage, final))
         /\ SetStage(p, stage, final).plan = p.plan
<1> DEFINE q == Moved(p, stage, final)
<1>1. /\ p.stage \in Stages /\ p.final \in BOOLEAN /\ p.next \in {"never", "later", "due"}
      /\ p.followups \in 0..MaxFollowups /\ p.plan \in BOOLEAN /\ p.pay \in 0..MaxInvoices /\ p.link \in BOOLEAN
  BY DEF Pipe
<1>2. /\ q.stage = stage /\ q.final = (IF stage = "lost" THEN final ELSE p.final)
      /\ q.followups = (IF stage \in FollowupStages THEN 0 ELSE p.followups)
      /\ q.next = (CASE stage \in FollowupStages -> "later" [] stage \in {"paid", "lost"} -> "never" [] OTHER -> p.next)
      /\ q.plan = p.plan /\ q.pay = p.pay /\ q.link = p.link
      /\ q = [stage |-> q.stage, final |-> q.final, next |-> q.next, followups |-> q.followups, plan |-> q.plan, pay |-> q.pay,
            link |-> q.link]
  <2>1. q = [p EXCEPT !.stage = stage, !.followups = q.followups, !.next = q.next, !.final = q.final]
    BY DEF Moved, Pipe
  <2>2. /\ q.stage = stage /\ q.final = (IF stage = "lost" THEN final ELSE p.final)
        /\ q.followups = (IF stage \in FollowupStages THEN 0 ELSE p.followups)
        /\ q.plan = p.plan /\ q.pay = p.pay /\ q.link = p.link
    BY DEF Moved, Pipe
  <2>3. q.next = (CASE stage \in FollowupStages -> "later" [] stage \in {"paid", "lost"} -> "never" [] OTHER -> p.next)
    BY DEF Moved, Pipe
  <2> HIDE DEF q
  <2>4. q = [stage |-> q.stage, final |-> q.final, next |-> q.next, followups |-> q.followups, plan |-> q.plan, pay |-> q.pay,
            link |-> q.link]
    BY <2>1, <2>2 DEF Pipe
  <2> QED BY <2>2, <2>3, <2>4
<1>3. 0 \in 0..MaxFollowups
  BY SalesAssumption
<1>4. q.next \in {"never", "later", "due"}
  <2>1. CASE stage \in FollowupStages
    BY <1>2, <2>1 DEF FollowupStages
  <2>2. CASE stage \notin FollowupStages
    BY <1>1, <1>2, <2>2
  <2> QED BY <2>1, <2>2
<1> HIDE DEF q
<1>5. q \in Pipe
  <2>1. q.stage \in Stages /\ q.final \in BOOLEAN /\ q.followups \in 0..MaxFollowups /\ q.plan \in BOOLEAN
       /\ q.pay \in 0..MaxInvoices /\ q.link \in BOOLEAN
    BY <1>1, <1>2, <1>3
  <2> QED BY <1>2, <1>4, <2>1 DEF Pipe
<1>6. SetStage(p, stage, final) = p \/ (p.stage # "paid" /\ SetStage(p, stage, final) = q)
  BY DEF SetStage, q
<1> QED BY <1>2, <1>5, <1>6 DEF Eases, Keeps

\* on_inbound does.
LEMMA Inbound ==
  ASSUME NEW p \in Pipe PROVE OnInbound(p) \in Pipe /\ Eases(p, OnInbound(p))
<1>1. Revived(p) \in Pipe /\ Eases(p, Revived(p))
  <2>1. "qualified" \in Stages /\ "new" \in Stages
    BY DEF Stages
  <2>2. Revived(p) \in {p, SetStage(p, "qualified", FALSE), SetStage(p, "new", FALSE)}
    BY DEF Revived
  <2> QED BY <2>1, <2>2, Moving DEF Eases
<1>2. ASSUME NEW q \in Pipe PROVE [q EXCEPT !.followups = 0, !.next = "later"] \in Pipe
                                  /\ Eases(q, [q EXCEPT !.followups = 0, !.next = "later"])
  <2>1. 0 \in 0..MaxFollowups
    BY SalesAssumption
  <2> QED BY <2>1 DEF Pipe, Eases
<1>3. OnInbound(p) = Revived(p) \/ OnInbound(p) = [Revived(p) EXCEPT !.followups = 0, !.next = "later"]
  BY DEF OnInbound
<1> QED BY <1>1, <1>2, <1>3 DEF Eases

\* on_draft_sent does, and nothing at all after a follow-up.
LEMMA DraftSent ==
  ASSUME NEW p \in Pipe, NEW d \in Draft
  PROVE  OnDraftSent(p, d) \in Pipe /\ Eases(p, OnDraftSent(p, d)) /\ (d.kind = "followup" => OnDraftSent(p, d) = p)
<1>1. "payment_link_sent" \in Stages /\ "offer_sent" \in Stages
  BY DEF Stages
<1>2. OnDraftSent(p, d) \in {p, SetStage(p, "payment_link_sent", FALSE), SetStage(p, "offer_sent", FALSE)}
  BY DEF OnDraftSent
<1>3. d.kind = "followup" => OnDraftSent(p, d) = p
  BY DEF OnDraftSent
<1> QED BY <1>1, <1>2, <1>3, Moving DEF Eases

\* run_followups does: it counts a follow-up, and otherwise leaves the count.
LEMMA Passing ==
  ASSUME NEW l \in Leads, NEW p \in Pipe
  PROVE  /\ ~Chaseable(l, p) => Passed(l, p) \in Pipe /\ Keeps(p, Passed(l, p))
         /\ Chaseable(l, p) => Counted(p) \in Pipe /\ Counts(p, Counted(p)) /\ Counted(p).plan = p.plan
<1>1. "paid" \in Stages /\ "lost" \in Stages /\ "paid" \notin FollowupStages /\ "lost" \notin FollowupStages
  BY DEF Stages, FollowupStages
<1>2. [p EXCEPT !.next = "later"] \in Pipe /\ Keeps(p, [p EXCEPT !.next = "later"])
  BY DEF Pipe, Keeps
<1>3. Passed(l, p) \in {p, SetStage(p, "paid", FALSE), SetStage(p, "lost", FALSE), [p EXCEPT !.next = "later"]}
  BY DEF Passed
<1>4. ~Chaseable(l, p) => Passed(l, p) \in Pipe /\ Keeps(p, Passed(l, p))
  <2>1. SetStage(p, "paid", FALSE) \in Pipe /\ Keeps(p, SetStage(p, "paid", FALSE))
    BY <1>1, Moving
  <2>2. SetStage(p, "lost", FALSE) \in Pipe /\ Keeps(p, SetStage(p, "lost", FALSE))
    BY <1>1, Moving
  <2>3. Keeps(p, p)
    BY DEF Keeps
  <2> QED BY <1>2, <1>3, <2>1, <2>2, <2>3
<1>5. ASSUME Chaseable(l, p) PROVE Counted(p) \in Pipe /\ Counts(p, Counted(p)) /\ Counted(p).plan = p.plan
  <2>1. p.followups \in 0..MaxFollowups /\ p.followups < MaxFollowups /\ MaxFollowups \in Nat
    BY <1>5, SalesAssumption DEF Chaseable, Pipe
  <2>2. p.followups + 1 \in 0..MaxFollowups
    BY <2>1
  <2> QED BY <2>2 DEF Counted, Counts, Pipe
<1> QED BY <1>4, <1>5

\* A commit writes the columns that were changed, and leaves the others.
LEMMA Writing ==
  ASSUME NEW row \in Pipe, NEW was \in Pipe, NEW now \in Pipe
  PROVE  LET w == Written(row, was, now)
         IN /\ w \in Pipe /\ w.stage = (IF now.stage = was.stage THEN row.stage ELSE now.stage)
            /\ w.followups = (IF now.followups = was.followups THEN row.followups ELSE now.followups)
<1> DEFINE w == Written(row, was, now)
<1>1. DOMAIN row = {"stage", "final", "next", "followups", "plan", "pay", "link"}
  BY DEF Pipe
<1>2. w = [c \in {"stage", "final", "next", "followups", "plan", "pay", "link"} |-> IF now[c] = was[c] THEN row[c] ELSE now[c]]
  BY <1>1 DEF Written
<1>3. /\ w.stage = (IF now.stage = was.stage THEN row.stage ELSE now.stage)
      /\ w.final = (IF now.final = was.final THEN row.final ELSE now.final)
      /\ w.next = (IF now.next = was.next THEN row.next ELSE now.next)
      /\ w.followups = (IF now.followups = was.followups THEN row.followups ELSE now.followups)
      /\ w.plan = (IF now.plan = was.plan THEN row.plan ELSE now.plan)
      /\ w.pay = (IF now.pay = was.pay THEN row.pay ELSE now.pay)
      /\ w.link = (IF now.link = was.link THEN row.link ELSE now.link)
  BY <1>2
<1>4. w = [stage |-> w.stage, final |-> w.final, next |-> w.next, followups |-> w.followups, plan |-> w.plan, pay |-> w.pay,
            link |-> w.link]
  BY <1>2
<1> HIDE DEF w
<1>5. w \in Pipe
  BY <1>3, <1>4 DEF Pipe
<1> QED BY <1>3, <1>5 DEF w

-----------------------------------------------------------------------------
Nothing == [d \in Drafts |-> "no"]
Pass(x) == x.job = "followups"
Decides(x, d) == x.draft = d \/ x.wrote[d] # "no"

\* What a handler holds is fit for its step; only a pass writes several drafts.
HandlerOK(x) ==
  /\ x \in Handler
  /\ x.pc = "idle" => x = Idle
  /\ x.pc \in {"record", "load", "queue"} => x.draft = 0 /\ x.wrote = Nothing /\ x.lead \in Leads
  /\ x.pc \in {"record", "load"} => x.job = "message" /\ x.msg \in Messages
  /\ x.pc = "queue" => x.job = "link" \/ (x.job = "message" /\ x.msg \in Messages)
  /\ x.pc \in {"invoice", "post"} => x.draft \in Drafts /\ x.lead \in Leads /\ x.wrote[x.draft] \in {"no", "pending"}
  /\ x.pc = "invoice" => ~Pass(x)
  /\ x.pc = "scan" => Pass(x)
  /\ Pass(x) => x.pc \in {"scan", "post"}
  /\ \A d \in Drafts : IF Pass(x) THEN x.draft = d => x.wrote[d] # "no" ELSE x.wrote[d] # "no" => x.draft = d
  /\ \A l \in Leads : /\ x.was[l].stage = "paid" => x.now[l].stage = "paid"
                      /\ ~Pass(x) => Eases(x.was[l], x.now[l])

\* Its drafts have been written, follow-ups by a pass and nobody else; it knows of the opt-outs
\* that were there when it began, and will not post to the lead it sends to if it was one.
Tied(x, drafts, outs) ==
  /\ \A d \in Drafts : Decides(x, d) => drafts[d].status # "none"
  /\ x.pc \in {"invoice", "post"} => drafts[x.draft].lead = x.lead
  /\ \A d \in Drafts : Decides(x, d) => IF Pass(x) THEN drafts[d].kind = "followup"
                                          ELSE drafts[d].kind # "followup" \/ drafts[d].status # "open"
  /\ x.began \subseteq outs
  /\ x.pc \in {"queue", "invoice", "post"} /\ x.knows /\ x.lead \in x.began => x.stop

ChatShape ==
  /\ TypeOK
  /\ \A d \in Drafts : draft[d].status # "none" => draft[d].lead \in Leads
  /\ \A h \in Handlers : HandlerOK(handler[h]) /\ Tied(handler[h], draft, optOut)

\* Drafts and invoices are numbered from one; zero is none of them.
LEMMA Bounds ==
  /\ 0 \in 0..MaxDrafts /\ 0 \notin Drafts /\ Drafts \subseteq 0..MaxDrafts
  /\ 0 \in 0..MaxInvoices /\ 0 \notin Invoices /\ Invoices \subseteq 0..MaxInvoices
  /\ 0 \in 0..MaxFollowups /\ 0 \in 0..MaxDeliveries /\ 0 \in 0..MaxRequests /\ 0 \in 0..MaxRestarts
  /\ IsFiniteSet(Drafts)
<1>1. IsFiniteSet(1..MaxDrafts)
  BY FS_Interval, SalesAssumption
<1> QED BY <1>1, SalesAssumption DEF Drafts, Invoices

\* A lead without a row has no follow-ups.
LEMMA NoPipeOK == NoPipe \in Pipe /\ NoPipe.stage = "none" /\ NoPipe.followups = 0
BY Bounds DEF NoPipe, Pipe, Stages

\* What is left alone is fit for everything.
LEMMA Unmoved == \A p : Eases(p, p) /\ Keeps(p, p)
BY DEF Eases, Keeps

\* Whoever rests has written nothing.
LEMMA IdleFields ==
  /\ Idle \in Handler /\ Idle.job = None /\ Idle.pc = "idle" /\ Idle.lead = None /\ Idle.msg = None
  /\ Idle.draft = 0 /\ Idle.wrote = Nothing /\ Idle.knows = FALSE /\ Idle.stop = FALSE /\ Idle.began = {}
  /\ Idle.was = [l \in Leads |-> NoPipe] /\ Idle.now = [l \in Leads |-> NoPipe] /\ Idle.todo = {}
  /\ Idle.seen = FALSE
<1>1. Nothing \in [Drafts -> {"no", "pending", "sent", "failed", "rejected"}] /\ [l \in Leads |-> NoPipe] \in [Leads -> Pipe]
  BY NoPipeOK DEF Nothing
<1>2. /\ Idle.job = None /\ Idle.pc = "idle" /\ Idle.lead = None /\ Idle.msg = None
      /\ Idle.draft = 0 /\ Idle.wrote = Nothing /\ Idle.knows = FALSE /\ Idle.stop = FALSE /\ Idle.began = {}
      /\ Idle.was = [l \in Leads |-> NoPipe] /\ Idle.now = [l \in Leads |-> NoPipe] /\ Idle.todo = {}
      /\ Idle.seen = FALSE
  BY DEF Idle, Nothing
<1>3. Idle \in Handler
  BY <1>1, Bounds DEF Idle, Handler, Steps, Nothing
<1> QED BY <1>2, <1>3

\* So it is fit for its step whatever the rows are.
LEMMA IdleOK == HandlerOK(Idle) /\ \A drafts, outs : Tied(Idle, drafts, outs)
<1>1. None # "followups"
  BY SalesAssumption DEF AllJobs
<1> QED BY <1>1, IdleFields, Bounds, Unmoved DEF HandlerOK, Tied, Pass, Decides, Nothing

\* The fields of a handler.
LEMMA HandlerFields ==
  ASSUME NEW x \in Handler
  PROVE  /\ x.job \in AllJobs \cup {None} /\ x.pc \in Steps /\ x.lead \in Leads \cup {None}
         /\ x.msg \in Messages \cup {None} /\ x.seen \in BOOLEAN /\ x.began \subseteq Leads /\ x.stop \in BOOLEAN /\ x.knows \in BOOLEAN
         /\ x.was \in [Leads -> Pipe] /\ x.now \in [Leads -> Pipe] /\ x.draft \in 0..MaxDrafts
         /\ x.wrote \in [Drafts -> {"no", "pending", "sent", "failed", "rejected"}] /\ x.todo \subseteq Leads
BY DEF Handler

-----------------------------------------------------------------------------
(* What each step makes of the handler that takes it.                      *)

\* A request or pass begins, with nothing written.
Begins(h, x) ==
  /\ handler[h] = Idle /\ x.draft = 0 /\ x.wrote = Nothing /\ x.began = optOut
  /\ x.pc \in {"record", "queue", "commit", "scan"} /\ (x.pc = "queue" => x.msg = None)
  /\ UNCHANGED <<optOut, pipe, draft, posted, deaf, contested, chased, twice>>
  /\ \A m \in Messages : message'[m].recorded = message[m].recorded
  /\ IF Pass(x) THEN /\ x.now = x.was /\ overlapped' = (overlapped \/ \E k \in Handlers : Pass(handler[k]))
                     /\ x.todo = {l \in Leads : pipe[l].stage \in FollowupStages}
                     /\ \A l \in Leads : x.was[l] = IF l \in x.todo THEN pipe[l] ELSE NoPipe
     ELSE overlapped' = overlapped

\* It takes a draft to decide.
Takes(h, x, d) ==
  /\ handler[h] = Idle /\ x.draft = d /\ x.began = optOut /\ ~Pass(x) /\ Pending(d) /\ Contest(d)
  /\ x.wrote \in {Nothing, [Nothing EXCEPT ![d] = "rejected"]} /\ x.pc \in {"invoice", "post", "commit"}
  /\ UNCHANGED <<optOut, pipe, draft, message, posted, deaf, chased, twice, overlapped>>

\* A request begins with those known that opted out before.
LEMMA Starting ==
  ASSUME NEW job \in AllJobs, NEW h \in Handlers
  PROVE  /\ Start(h, job) = [Idle EXCEPT !.job = job, !.began = optOut]
         /\ Start(h, job).job = job /\ Start(h, job).began = optOut
BY IdleFields DEF Start, Handler

\* The webhook begins.
LEMMA DeliverMove ==
  ASSUME ChatShape, NEW h \in Handlers, NEW m \in Messages, Deliver(h, m)
  PROVE  \E x : Go(h, x) /\ HandlerOK(x) /\ Tied(x, draft, optOut) /\ Begins(h, x)
<1> DEFINE x == [Start(h, "message") EXCEPT !.pc = "record", !.msg = m, !.lead = SenderOf[m], !.seen = message[m].recorded]
<1>0. optOut \subseteq Leads /\ message \in [Messages -> [recorded : BOOLEAN, deliveries : 0..MaxDeliveries]] /\ SenderOf[m] \in Leads
  BY SalesAssumption DEF ChatShape, TypeOK
<1>1. handler[h] = Idle /\ Go(h, x)
  BY DEF ChatShape, HandlerOK, Deliver, Begin, At
<1>2. /\ x.job = "message" /\ x.pc = "record" /\ x.msg = m /\ x.lead = SenderOf[m] /\ x.began = optOut
      /\ x.draft = 0 /\ x.wrote = Nothing /\ x.knows = FALSE /\ x.was = [l \in Leads |-> NoPipe] /\ x.now = x.was
      /\ x \in Handler
  BY <1>0, IdleFields DEF Start, Handler, AllJobs, Steps
<1>3. /\ UNCHANGED <<optOut, pipe, draft, posted, deaf, contested, chased, twice, overlapped>>
      /\ \A k \in Messages : message'[k].recorded = message[k].recorded
  BY <1>0 DEF Deliver, history
<1> HIDE DEF x
<1>4. HandlerOK(x) /\ Tied(x, draft, optOut)
  BY <1>0, <1>2, Bounds, Unmoved DEF HandlerOK, Tied, Pass, Decides, Nothing
<1> QED BY <1>1, <1>2, <1>3, <1>4 DEF Begins, Pass

\* approve and reject begin.
LEMMA DecideMove ==
  ASSUME ChatShape, NEW h \in Handlers, NEW d \in Drafts, Approve(h, d) \/ Reject(h, d)
  PROVE  \E x : Go(h, x) /\ HandlerOK(x) /\ Tied(x, draft, optOut) /\ Takes(h, x, d)
<1> DEFINE l == draft[d].lead
           r == [Start(h, "approve") EXCEPT !.lead = l, !.draft = d, !.pc = "post"]
           s(pc) == [r EXCEPT !.was[l] = pipe[l], !.now[l] = pipe[l], !.pc = pc]
           t == [Start(h, "reject") EXCEPT !.pc = "commit", !.draft = d, !.wrote[d] = "rejected"]
<1>0. /\ optOut \subseteq Leads /\ draft[d].status = "pending" /\ l \in Leads /\ pipe \in [Leads -> Pipe] /\ handler[h] = Idle
      /\ d \in 0..MaxDrafts /\ d # 0
  <2>1. draft[d].status = "pending" /\ handler[h].pc = "idle"
    BY DEF Approve, Reject, Begin, At, Pending
  <2>2. optOut \subseteq Leads /\ pipe \in [Leads -> Pipe] /\ HandlerOK(handler[h])
    BY DEF ChatShape, TypeOK
  <2>3. l \in Leads
    BY <2>1 DEF ChatShape
  <2>4. handler[h] = Idle
    BY <2>1, <2>2 DEF HandlerOK
  <2> HIDE DEF l
  <2> QED BY <2>1, <2>2, <2>3, <2>4, Bounds
<1>1. Takes(h, r, d) /\ (\A pc \in {"invoice", "post"} : Takes(h, s(pc), d)) /\ Takes(h, t, d)
      /\ HandlerOK(r) /\ (\A pc \in {"invoice", "post"} : HandlerOK(s(pc))) /\ HandlerOK(t)
      /\ Tied(r, draft, optOut) /\ (\A pc \in {"invoice", "post"} : Tied(s(pc), draft, optOut)) /\ Tied(t, draft, optOut)
  <2>a. UNCHANGED <<optOut, pipe, draft, message, posted, deaf, chased, twice, overlapped>> /\ Pending(d) /\ Contest(d)
    BY DEF Approve, Reject, rows
  <2>b. None \notin AllJobs
    BY SalesAssumption
  <2>1. /\ r \in Handler /\ r.job = "approve" /\ r.pc = "post" /\ r.lead = l /\ r.draft = d /\ r.began = optOut
        /\ r.wrote = Nothing /\ r.knows = FALSE /\ r.was = [k \in Leads |-> NoPipe] /\ r.now = r.was
    BY <1>0, IdleFields DEF Start, Handler, AllJobs, Steps
  <2>2. ASSUME NEW pc \in {"invoice", "post"}
        PROVE  /\ s(pc) \in Handler /\ s(pc).job = "approve" /\ s(pc).pc = pc /\ s(pc).lead = l /\ s(pc).draft = d
               /\ s(pc).began = optOut /\ s(pc).wrote = Nothing /\ s(pc).knows = FALSE /\ s(pc).now = s(pc).was
    <3> HIDE DEF r
    <3>1. pipe[l] \in Pipe /\ pc \in Steps
      BY <1>0 DEF Steps
    <3>2. /\ s(pc).job = r.job /\ s(pc).pc = pc /\ s(pc).lead = r.lead /\ s(pc).draft = r.draft
          /\ s(pc).began = r.began /\ s(pc).wrote = r.wrote /\ s(pc).knows = r.knows
          /\ s(pc).was = [r.was EXCEPT ![l] = pipe[l]] /\ s(pc).now = [r.now EXCEPT ![l] = pipe[l]]
      BY <2>1 DEF Handler
    <3>3. s(pc) \in Handler
      BY <1>0, <2>1, <3>1 DEF Handler
    <3> HIDE DEF s
    <3> QED BY <2>1, <3>2, <3>3
  <2>3. /\ t \in Handler /\ t.job = "reject" /\ t.pc = "commit" /\ t.draft = d /\ t.began = optOut
        /\ t.wrote = [Nothing EXCEPT ![d] = "rejected"] /\ t.knows = FALSE /\ t.was = [k \in Leads |-> NoPipe] /\ t.now = t.was
    BY <1>0, IdleFields DEF Start, Handler, AllJobs, Steps
  <2> HIDE DEF r, s, t
  <2>4. Takes(h, r, d) /\ (\A pc \in {"invoice", "post"} : Takes(h, s(pc), d)) /\ Takes(h, t, d)
    BY <1>0, <2>a, <2>1, <2>2, <2>3 DEF Takes, Pass
  <2>5. HandlerOK(r) /\ (\A pc \in {"invoice", "post"} : HandlerOK(s(pc))) /\ HandlerOK(t)
    BY <1>0, <2>1, <2>2, <2>3, Unmoved DEF HandlerOK, Pass, Nothing
  <2>6. Tied(r, draft, optOut) /\ (\A pc \in {"invoice", "post"} : Tied(s(pc), draft, optOut)) /\ Tied(t, draft, optOut)
    <3>1. ASSUME NEW y, y.draft = d, y.wrote = Nothing \/ y.wrote = [Nothing EXCEPT ![d] = "rejected"], y.began = optOut, y.knows = FALSE,
                 y.lead = l \/ y.pc = "commit", y.job # "followups"
          PROVE  Tied(y, draft, optOut)
      BY <1>0, <3>1 DEF Tied, Decides, Nothing, Pass
    <3> QED BY <2>1, <2>2, <2>3, <3>1
  <2> QED BY <2>4, <2>5, <2>6
<1>2. Go(h, r) \/ (\E pc \in {"invoice", "post"} : Go(h, s(pc))) \/ Go(h, t)
  BY DEF Approve, Reject
<1> HIDE DEF r, s, t
<1> QED BY <1>1, <1>2

\* set_pipeline_stage, request_payment_link and a pass begin.
LEMMA BeginMove ==
  ASSUME ChatShape, NEW h \in Handlers,
         \/ \E l \in Leads : RequestLink(h, l) \/ \E s \in OwnerStages : MoveStage(h, l, s)
         \/ StartPass(h)
  PROVE  \E x : Go(h, x) /\ HandlerOK(x) /\ Tied(x, draft, optOut) /\ Begins(h, x)
<1>0. optOut \subseteq Leads /\ pipe \in [Leads -> Pipe] /\ handler[h] = Idle /\ None \notin AllJobs
  BY SalesAssumption DEF ChatShape, TypeOK, HandlerOK, RequestLink, MoveStage, StartPass, Begin, At
<1>1. /\ UNCHANGED <<optOut, pipe, draft, message, posted, deaf, contested, chased, twice>>
      /\ overlapped' = overlapped \/ StartPass(h)
  BY DEF RequestLink, MoveStage, StartPass, rows, history
\* A request that begins with one row of the pipeline.
<1>2. ASSUME NEW job \in {"stage", "link"}, NEW pc \in {"queue", "commit"}, NEW l \in Leads, NEW q \in Pipe, Eases(pipe[l], q),
             Go(h, [Start(h, job) EXCEPT !.pc = pc, !.lead = l, !.was[l] = pipe[l], !.now[l] = q]),
             pc = "queue" => job = "link", overlapped' = overlapped
      PROVE  \E x : Go(h, x) /\ HandlerOK(x) /\ Tied(x, draft, optOut) /\ Begins(h, x)
  <2> DEFINE x == [Start(h, job) EXCEPT !.pc = pc, !.lead = l, !.was[l] = pipe[l], !.now[l] = q]
  <2>0. pipe[l] \in Pipe /\ pc \in Steps /\ job \in AllJobs
    BY <1>0 DEF Steps, AllJobs
  <2>1. /\ x \in Handler /\ x.job = job /\ x.pc = pc /\ x.lead = l /\ x.draft = 0 /\ x.began = optOut /\ x.msg = None
        /\ x.wrote = Nothing /\ x.knows = FALSE /\ x.was = [[k \in Leads |-> NoPipe] EXCEPT ![l] = pipe[l]]
        /\ x.now = [[k \in Leads |-> NoPipe] EXCEPT ![l] = q]
    BY <1>0, <2>0, IdleFields DEF Start, Handler
  <2>2. Go(h, x)
    BY <1>2
  <2> HIDE DEF x
  <2>3. \A k \in Leads : Eases(x.was[k], x.now[k])
    BY <1>2, <2>1, Unmoved
  <2>4. HandlerOK(x)
    BY <1>2, <2>1, <2>3, Bounds DEF HandlerOK, Pass, Nothing, Eases
  <2>5. Tied(x, draft, optOut)
    BY <1>2, <2>1, Bounds DEF Tied, Decides, Nothing
  <2>6. Begins(h, x)
    BY <1>0, <1>1, <1>2, <2>1 DEF Begins, Pass
  <2> QED BY <2>2, <2>4, <2>5, <2>6
<1>3. ASSUME NEW l \in Leads, RequestLink(h, l)
      PROVE  \E x : Go(h, x) /\ HandlerOK(x) /\ Tied(x, draft, optOut) /\ Begins(h, x)
  <2>1. PICK other \in BOOLEAN :
          Go(h, [Start(h, "link") EXCEPT !.pc = "queue", !.lead = l, !.was[l] = pipe[l],
                   !.now[l] = [pipe[l] EXCEPT !.plan = TRUE, !.link = @ /\ ~other]])
    BY <1>3 DEF RequestLink
  <2> DEFINE q == [pipe[l] EXCEPT !.plan = TRUE, !.link = @ /\ ~other]
  <2>2. pipe[l] \in Pipe
    BY <1>0
  <2>3. q \in Pipe /\ Eases(pipe[l], q)
    BY <2>2, Bounds DEF Pipe, Eases
  <2>4. overlapped' = overlapped
    BY <1>3 DEF RequestLink, history
  <2>5. Go(h, [Start(h, "link") EXCEPT !.pc = "queue", !.lead = l, !.was[l] = pipe[l], !.now[l] = q])
    BY <2>1
  <2> HIDE DEF q
  <2> QED BY <1>2, <2>3, <2>4, <2>5
<1>4. ASSUME NEW l \in Leads, NEW s \in OwnerStages, MoveStage(h, l, s)
      PROVE  \E x : Go(h, x) /\ HandlerOK(x) /\ Tied(x, draft, optOut) /\ Begins(h, x)
  <2>1. pipe[l] \in Pipe /\ s \in Stages
    BY <1>0, SalesAssumption
  <2>2. SetStage(pipe[l], s, FALSE) \in Pipe /\ Eases(pipe[l], SetStage(pipe[l], s, FALSE))
    BY <2>1, Moving
  <2>3. overlapped' = overlapped
    BY <1>4 DEF MoveStage, history
  <2>4. Go(h, [Start(h, "stage") EXCEPT !.pc = "commit", !.lead = l, !.was[l] = pipe[l], !.now[l] = SetStage(pipe[l], s, FALSE)])
    BY <1>4 DEF MoveStage
  <2> QED BY <1>2, <2>2, <2>3, <2>4
<1>5. CASE StartPass(h)
  <2> DEFINE due == {l \in Leads : pipe[l].stage \in FollowupStages}
             rowsOf == [l \in Leads |-> IF l \in due THEN pipe[l] ELSE NoPipe]
             x == [Start(h, "followups") EXCEPT !.pc = "scan", !.todo = due, !.was = rowsOf, !.now = rowsOf]
  <2>1. Go(h, x) /\ overlapped' = (overlapped \/ \E k \in Handlers : Pass(handler[k]))
    BY <1>5 DEF StartPass, Pass
  <2>2. rowsOf \in [Leads -> Pipe] /\ due \subseteq Leads
    BY <1>0, NoPipeOK
  <2>3. \A l \in Leads : rowsOf[l] = IF l \in due THEN pipe[l] ELSE NoPipe
    OBVIOUS
  <2> HIDE DEF rowsOf
  <2>4. /\ x \in Handler /\ x.job = "followups" /\ x.pc = "scan" /\ x.draft = 0 /\ x.began = optOut
        /\ x.wrote = Nothing /\ x.knows = FALSE /\ x.was = rowsOf /\ x.now = rowsOf /\ x.todo = due
    <3> HIDE DEF due
    <3> QED BY <1>0, <2>2, IdleFields DEF Start, Handler, AllJobs, Steps
  <2> HIDE DEF x
  <2>5. HandlerOK(x)
    BY <2>4, Bounds DEF HandlerOK, Pass, Nothing
  <2>6. Tied(x, draft, optOut)
    BY <2>4, Bounds DEF Tied, Decides, Nothing, Pass
  <2>7. Begins(h, x)
    BY <1>0, <1>1, <2>1, <2>3, <2>4 DEF Begins, Pass
  <2> QED BY <2>1, <2>5, <2>6, <2>7
<1> QED BY <1>3, <1>4, <1>5

-----------------------------------------------------------------------------
\* A message is recorded, found recorded already, or dropped, and its lead is loaded.

Goes(h, x) == x.draft = handler[h].draft /\ x.wrote = handler[h].wrote /\ ~Pass(x) /\ ~Pass(handler[h])
              /\ UNCHANGED <<pipe, draft, posted, deaf, contested, chased, overlapped>>

Records(h, x) ==
  LET m == handler[h].msg
  IN /\ handler[h].pc = "record" /\ m \in Messages /\ x.msg = m /\ Goes(h, x) /\ twice' = twice
     /\ ~message[m].recorded /\ message' = [message EXCEPT ![m].recorded = TRUE]
Repeats(h, x) ==
  LET m == handler[h].msg
  IN /\ handler[h].pc = "record" /\ m \in Messages /\ x.msg = m /\ Goes(h, x) /\ twice' = twice \cup {m} /\ message' = message
Drops(h, x) == handler[h].pc \in {"record", "load"} /\ x = Idle /\ Goes(h, x) /\ message' = message /\ twice \subseteq twice'
Holds(h, x) == handler[h].pc = "load" /\ x.msg = handler[h].msg /\ Goes(h, x) /\ UNCHANGED <<message, twice>>

\* The webhook records, and loads the lead.
LEMMA HearMove ==
  ASSUME ChatShape, NEW h \in Handlers,
         Record(h) \/ RecordDuplicate(h) \/ RecordFails(h) \/ Load(h) \/ LoadFails(h)
  PROVE  \E x : /\ Go(h, x) /\ HandlerOK(x) /\ Tied(x, draft, optOut') /\ optOut \subseteq optOut' /\ optOut' \subseteq Leads
                /\ Records(h, x) \/ Repeats(h, x) \/ Drops(h, x) \/ Holds(h, x)
<1> DEFINE r == handler[h]
<1>0. /\ optOut \subseteq Leads /\ pipe \in [Leads -> Pipe] /\ HandlerOK(r) /\ Tied(r, draft, optOut) /\ r \in Handler
      /\ r.pc \in {"record", "load"} /\ r.job = "message" /\ r.msg \in Messages /\ r.lead \in Leads /\ r.draft = 0 /\ r.wrote = Nothing
  BY DEF ChatShape, TypeOK, HandlerOK, Record, RecordDuplicate, RecordFails, Load, LoadFails, At
<1>1. /\ r.was \in [Leads -> Pipe] /\ r.now \in [Leads -> Pipe] /\ \A l \in Leads : Eases(r.was[l], r.now[l])
  BY <1>0, HandlerFields DEF HandlerOK, Pass
<1>2. Idle.job # "followups" /\ r.job # "followups" /\ Idle.draft = r.draft /\ Idle.wrote = r.wrote
  BY <1>0, IdleFields, SalesAssumption DEF AllJobs
<1>3. UNCHANGED <<pipe, draft, posted, deaf, contested, chased, overlapped>>
  BY DEF Record, RecordDuplicate, RecordFails, Load, LoadFails, rows, history
<1> HIDE DEF r
\* The handler goes on to its next step.
<1>4. ASSUME NEW x \in Handler, NEW outs, x.job = "message", x.msg = r.msg, x.lead = r.lead, x.draft = r.draft, x.wrote = r.wrote,
             x.pc \in {"load", "queue"}, x.began \subseteq outs, \A l \in Leads : Eases(x.was[l], x.now[l]),
             x.pc = "queue" => (x.lead \in x.began => x.stop)
      PROVE  HandlerOK(x) /\ Tied(x, draft, outs)
  BY <1>0, <1>4, Bounds DEF HandlerOK, Tied, Pass, Decides, Nothing, Eases
<1>5. CASE Record(h)
  <2> DEFINE x == [r EXCEPT !.pc = "load", !.began = optOut']
  <2>1. /\ Go(h, x) /\ r.pc = "record" /\ ~message[r.msg].recorded /\ message' = [message EXCEPT ![r.msg].recorded = TRUE]
        /\ optOut \subseteq optOut' /\ optOut' \subseteq Leads /\ twice' = twice
    BY <1>0, <1>5 DEF Record, Promote, At, history, r
  <2>2. /\ x \in Handler /\ x.job = "message" /\ x.msg = r.msg /\ x.lead = r.lead /\ x.draft = r.draft /\ x.wrote = r.wrote
        /\ x.pc = "load" /\ x.began = optOut' /\ x.was = r.was /\ x.now = r.now
    BY <1>0, <2>1 DEF Handler, Steps
  <2> HIDE DEF x
  <2>3. HandlerOK(x) /\ Tied(x, draft, optOut')
    BY <1>1, <1>4, <2>2
  <2>4. Records(h, x)
    BY <1>0, <1>2, <1>3, <2>1, <2>2 DEF Records, Goes, Pass, r
  <2> QED BY <2>1, <2>3, <2>4
<1>6. CASE RecordDuplicate(h) \/ RecordFails(h) \/ LoadFails(h) \/ (Load(h) /\ mode = "off")
  <2> DEFINE x == [r EXCEPT !.pc = "load"]
  <2>1. optOut' = optOut /\ message' = message /\ twice \subseteq twice'
    BY <1>6 DEF RecordDuplicate, RecordFails, Load, LoadFails, rows, history
  <2>2. Go(h, Idle) \/ (RecordDuplicate(h) /\ ~r.seen /\ Go(h, x))
    BY <1>6 DEF RecordDuplicate, RecordFails, Load, LoadFails, Seen, r
  <2>3. CASE Go(h, Idle)
    <3>1. Drops(h, Idle)
      BY <1>0, <1>2, <1>3, <2>1 DEF Drops, Goes, Pass, r
    <3> QED BY <1>0, <2>1, <2>3, <3>1, IdleOK
  <2>4. CASE RecordDuplicate(h) /\ ~r.seen /\ Go(h, x)
    <3>1. /\ x \in Handler /\ x.job = "message" /\ x.msg = r.msg /\ x.lead = r.lead /\ x.draft = r.draft /\ x.wrote = r.wrote
          /\ x.pc = "load" /\ x.began = r.began /\ x.was = r.was /\ x.now = r.now
      BY <1>0 DEF Handler, Steps
    <3> HIDE DEF x
    <3>2. r.pc = "record" /\ twice' = twice \cup {r.msg} /\ r.began \subseteq optOut
      BY <1>0, <2>4 DEF RecordDuplicate, At, Tied, r
    <3>3. HandlerOK(x) /\ Tied(x, draft, optOut')
      BY <1>1, <1>4, <2>1, <3>1, <3>2
    <3>4. Repeats(h, x)
      BY <1>0, <1>2, <1>3, <2>1, <3>1, <3>2 DEF Repeats, Goes, Pass, r
    <3> QED BY <1>0, <2>1, <2>4, <3>3, <3>4
  <2> QED BY <2>2, <2>3, <2>4
<1>7. CASE Load(h) /\ mode # "off"
  <2> DEFINE l == r.lead
             y == [r EXCEPT !.was[l] = pipe[l], !.now[l] = pipe[l]]
             stop == l \in optOut
             x == [y EXCEPT !.pc = "queue", !.stop = stop, !.knows = TRUE]
             z == [x EXCEPT !.now[l].stage = "new"]
  <2>1. /\ Go(h, IF pipe[l].stage = "none" THEN z ELSE x) /\ r.pc = "load" /\ optOut' = optOut /\ message' = message /\ twice' = twice
    BY <1>7 DEF Load, At, Holding, rows, history, r
  <2>a. pipe[l] \in Pipe
    BY <1>0
  <2>2. /\ y \in Handler /\ y.job = "message" /\ y.msg = r.msg /\ y.lead = l /\ y.draft = r.draft /\ y.wrote = r.wrote
        /\ y.began = r.began /\ y.was = [r.was EXCEPT ![l] = pipe[l]] /\ y.now = [r.now EXCEPT ![l] = pipe[l]]
    BY <1>0, <2>a DEF Handler
  <2> HIDE DEF y
  <2>3. /\ x \in Handler /\ x.job = "message" /\ x.msg = r.msg /\ x.lead = l /\ x.draft = r.draft /\ x.wrote = r.wrote
        /\ x.began = r.began /\ x.was = y.was /\ x.now = y.now /\ x.pc = "queue" /\ x.stop = stop
    <3>1. stop \in BOOLEAN
      OBVIOUS
    <3> HIDE DEF stop
    <3> QED BY <2>2, <3>1 DEF Handler, Steps
  <2> HIDE DEF x
  <2>4. [pipe[l] EXCEPT !.stage = "new"] \in Pipe /\ (pipe[l].stage = "none" => Eases(pipe[l], [pipe[l] EXCEPT !.stage = "new"]))
    BY <2>a DEF Pipe, Stages, Eases
  <2>5. x.now[l] = pipe[l]
    BY <1>0, <1>1, <2>2, <2>3
  <2>6. /\ z \in Handler /\ z.job = "message" /\ z.msg = r.msg /\ z.lead = l /\ z.draft = r.draft /\ z.wrote = r.wrote
        /\ z.began = r.began /\ z.was = y.was /\ z.now = [y.now EXCEPT ![l] = [pipe[l] EXCEPT !.stage = "new"]]
        /\ z.pc = "queue" /\ z.stop = stop
    <3>1. z = [x EXCEPT !.now = [x.now EXCEPT ![l] = [pipe[l] EXCEPT !.stage = "new"]]]
      <4>1. z = [x EXCEPT !.now = [x.now EXCEPT ![l] = [x.now[l] EXCEPT !.stage = "new"]]]
        BY <2>3 DEF Handler
      <4> QED BY <2>5, <4>1
    <3>2. [x.now EXCEPT ![l] = [pipe[l] EXCEPT !.stage = "new"]] \in [Leads -> Pipe]
      BY <1>0, <1>1, <2>2, <2>3, <2>4
    <3> HIDE DEF z
    <3> QED BY <2>3, <3>1, <3>2 DEF Handler
  <2> HIDE DEF z
  <2>7. \A k \in Leads : Eases(x.was[k], x.now[k])
    BY <1>0, <1>1, <2>2, <2>3, Unmoved
  <2>8. pipe[l].stage = "none" => \A k \in Leads : Eases(z.was[k], z.now[k])
    BY <1>0, <1>1, <2>2, <2>4, <2>6
  <2>9. r.began \subseteq optOut
    BY <1>0 DEF Tied
  <2>10. HandlerOK(x) /\ Tied(x, draft, optOut) /\ (pipe[l].stage = "none" => HandlerOK(z) /\ Tied(z, draft, optOut))
    BY <1>4, <2>3, <2>6, <2>7, <2>8, <2>9
  <2>11. Holds(h, x) /\ Holds(h, z)
    BY <1>2, <1>3, <2>1, <2>3, <2>6 DEF Holds, Goes, Pass, r
  <2> HIDE DEF l
  <2> QED BY <1>0, <2>1, <2>10, <2>11
<1> QED BY <1>5, <1>6, <1>7

-----------------------------------------------------------------------------
\* A draft is written into the first free row.

Lasts(d) ==
  draft[d].status # "none" =>
    /\ draft'[d].status # "none" /\ (draft'[d].status = "open" => draft[d].status = "open")
    /\ draft'[d].lead = draft[d].lead /\ draft'[d].kind = draft[d].kind /\ draft'[d].msg = draft[d].msg
DraftsLast ==
  /\ draft' \in [Drafts -> Draft] /\ \A d \in Drafts : Lasts(d)
  /\ \A d \in Drafts : draft'[d].status # "none" => draft'[d].lead \in Leads

\* The handler writes a draft of its own.
Writes(h, x) ==
  /\ handler[h].pc \in {"queue", "scan"} /\ x.job = handler[h].job /\ x.draft \in Drafts
  /\ x.wrote = [handler[h].wrote EXCEPT ![x.draft] = "pending"]
  /\ draft[x.draft].status = "none" /\ draft'[x.draft].status = "open"
  /\ draft'[x.draft].lead = x.lead /\ (draft'[x.draft].kind = "followup" <=> Pass(x))
  /\ draft'[x.draft].msg \in {None} \cup {m \in {handler[h].msg} : ~Pass(x)}
  /\ \A d \in Drafts : d # x.draft => draft'[d] = draft[d]
  /\ x.pc \in {"commit", "scan", "invoice", "post"}
  /\ UNCHANGED <<optOut, pipe, message, posted, deaf, contested, chased, twice, overlapped>>

\* What queue_or_send makes of the handler.
QueuedAs(h, r, l, kind, msg, x) ==
  /\ Go(h, x) /\ x.job = r.job /\ x.draft \in Drafts /\ x.wrote = [r.wrote EXCEPT ![x.draft] = "pending"]
  /\ x.lead = l /\ x.began = r.began /\ x.was = r.was /\ x.now = r.now /\ x.todo = r.todo
  /\ x.stop = r.stop /\ x.knows = r.knows
  /\ x.pc \in {"post", "invoice", Decided(h)} /\ (x.pc = "invoice" => kind = "payment_link")
  /\ draft[x.draft].status = "none" /\ draft'[x.draft].status = "open" /\ draft'[x.draft].lead = l
  /\ draft'[x.draft].kind = kind /\ draft'[x.draft].msg = msg
  /\ \A e \in Drafts : e # x.draft => draft'[e] = draft[e]

\* queue_or_send takes the first free row.
LEMMA Queued ==
  ASSUME ChatShape, NEW h \in Handlers, NEW r \in Handler, NEW l \in Leads, NEW kind \in Kinds, NEW plan \in BOOLEAN,
         NEW msg \in Messages \cup {None}, QueueOrSend(h, r, l, kind, plan, msg)
  PROVE  DraftsLast /\ \E x \in Handler : QueuedAs(h, r, l, kind, msg, x)
<1> DEFINE new == [status |-> "open", lead |-> l, kind |-> kind, plan |-> plan, msg |-> msg]
<1>1. PICK d \in Drafts, flagged \in BOOLEAN :
        /\ draft[d].status = "none"
        /\ draft' = [draft EXCEPT ![d] = new]
        /\ Go(h, [r EXCEPT !.draft = d, !.wrote[d] = "pending", !.lead = l,
                    !.pc = IF mode # "auto" \/ flagged THEN Decided(h)
                           ELSE IF kind = "payment_link" /\ ~r.now[l].link THEN "invoice" ELSE "post"])
  BY DEF QueueOrSend
<1> DEFINE pc == IF mode # "auto" \/ flagged THEN Decided(h)
                 ELSE IF kind = "payment_link" /\ ~r.now[l].link THEN "invoice" ELSE "post"
           x == [r EXCEPT !.draft = d, !.wrote[d] = "pending", !.lead = l, !.pc = pc]
<1>2. new \in Draft /\ new.status = "open" /\ new.lead = l /\ new.kind = kind /\ new.msg = msg
  BY DEF Draft
<1>3. pc \in {"post", "invoice", Decided(h)} /\ (pc = "invoice" => kind = "payment_link") /\ pc \in Steps
  BY DEF Decided, Steps
<1>4. Go(h, x)
  BY <1>1
<1> HIDE DEF new, pc
<1>5. /\ x \in Handler /\ x.job = r.job /\ x.draft = d /\ x.wrote = [r.wrote EXCEPT ![d] = "pending"]
      /\ x.lead = l /\ x.began = r.began /\ x.was = r.was /\ x.now = r.now /\ x.todo = r.todo
      /\ x.stop = r.stop /\ x.knows = r.knows /\ x.pc = pc
  BY <1>3, Bounds DEF Handler
<1> HIDE DEF x
<1>6. draft \in [Drafts -> Draft] /\ \A e \in Drafts : draft[e].status # "none" => draft[e].lead \in Leads
  BY DEF ChatShape, TypeOK
<1>7. draft'[d] = new /\ (\A e \in Drafts : e # d => draft'[e] = draft[e]) /\ DraftsLast
  BY <1>1, <1>2, <1>6 DEF DraftsLast, Lasts
<1>8. QueuedAs(h, r, l, kind, msg, x)
  BY <1>1, <1>2, <1>3, <1>4, <1>5, <1>7 DEF QueuedAs
<1> QED BY <1>5, <1>7, <1>8

\* Every answer is to the row as on_inbound left it.
LEMMA Replying ==
  ASSUME NEW h \in Handlers, Held(h) \in Pipe, NEW a \in Answers(h)
  PROVE  /\ a.now \in Pipe /\ Eases(Held(h), a.now) /\ a.kind \in {"reply", "payment_link", "none"} /\ a.plan \in BOOLEAN
<1> DEFINE p == OnInbound(Held(h))
           q == [p EXCEPT !.plan = TRUE]
           Reply(s) == [now |-> s, kind |-> "reply", plan |-> s.plan]
           Silent == [now |-> p, kind |-> "none", plan |-> FALSE]
<1>1. p \in Pipe /\ Eases(Held(h), p)
  BY Inbound
<1>2. q \in Pipe /\ Eases(p, q)
  BY <1>1 DEF Pipe, Eases
<1>3. "lost" \in Stages /\ "qualified" \in Stages
  BY DEF Stages
<1>4. SetStage(p, "lost", TRUE) \in Pipe /\ Eases(p, SetStage(p, "lost", TRUE))
  BY <1>1, <1>3, Moving
<1>5. SetStage(q, "qualified", FALSE) \in Pipe /\ Eases(q, SetStage(q, "qualified", FALSE))
  BY <1>2, <1>3, Moving
<1>6. a \in {Silent, Reply(SetStage(p, "lost", TRUE)), [now |-> p, kind |-> "payment_link", plan |-> TRUE],
             Reply(SetStage(q, "qualified", FALSE)), Reply(p)}
  BY DEF Answers
<1> HIDE DEF p, q
<1>7. \A s \in Pipe : s.plan \in BOOLEAN
  BY DEF Pipe
<1>8. \A s \in Pipe : Reply(s).now = s /\ Reply(s).kind = "reply" /\ Reply(s).plan \in BOOLEAN
  BY <1>7
<1>9. Eases(Held(h), SetStage(p, "lost", TRUE)) /\ Eases(Held(h), SetStage(q, "qualified", FALSE))
  BY <1>1, <1>2, <1>4, <1>5 DEF Eases
<1>10. CASE a \in {Silent, [now |-> p, kind |-> "payment_link", plan |-> TRUE]}
  <2>1. CASE a = [now |-> p, kind |-> "none", plan |-> FALSE]
    BY <1>1, <2>1
  <2>2. CASE a = [now |-> p, kind |-> "payment_link", plan |-> TRUE]
    BY <1>1, <2>2
  <2> QED BY <1>10, <2>1, <2>2
<1>11. ASSUME NEW s \in Pipe, Eases(Held(h), s), a = Reply(s)
       PROVE  a.now \in Pipe /\ Eases(Held(h), a.now) /\ a.kind \in {"reply", "payment_link", "none"} /\ a.plan \in BOOLEAN
  BY <1>8, <1>11
<1> HIDE DEF Reply, Silent
<1> QED BY <1>1, <1>4, <1>5, <1>6, <1>9, <1>10, <1>11

\* The conversation's answer: no draft, or one.
Stills(h, x) == handler[h].pc = "queue" /\ x.pc = "commit" /\ Goes(h, x) /\ UNCHANGED <<message, twice>>

\* handle_inbound and request_payment_link queue a draft, or none.
LEMMA QueueMove ==
  ASSUME ChatShape, NEW h \in Handlers, Queue(h)
  PROVE  \E x : /\ Go(h, x) /\ HandlerOK(x) /\ Tied(x, draft', optOut) /\ optOut' = optOut /\ DraftsLast
                /\ Stills(h, x) \/ (Writes(h, x) /\ ~Pass(x))
<1> DEFINE r == handler[h]
           l == r.lead
<1>0. /\ HandlerOK(r) /\ Tied(r, draft, optOut) /\ r \in Handler /\ r.pc = "queue" /\ r.job \in {"message", "link"} /\ l \in Leads
      /\ r.draft = 0 /\ r.wrote = Nothing /\ r.job # "followups"
  BY DEF ChatShape, HandlerOK, Queue, At
<1>1. /\ r.was \in [Leads -> Pipe] /\ r.now \in [Leads -> Pipe] /\ r.msg \in Messages \cup {None} /\ r.began \subseteq optOut
      /\ \A k \in Leads : Eases(r.was[k], r.now[k])
  BY <1>0, HandlerFields DEF HandlerOK, Tied, Pass
<1>2. Held(h) = r.now[l] /\ Held(h) \in Pipe
  BY <1>0, <1>1 DEF Held
<1>3. UNCHANGED <<optOut, pipe, message, posted, deaf, contested, chased, twice, overlapped>>
  BY DEF Queue, history
<1>4. PICK a \in (IF r.job = "link" THEN {[now |-> Held(h), kind |-> "payment_link", plan |-> TRUE]} ELSE Answers(h)) :
        IF a.kind = "none" THEN draft' = draft /\ Go(h, [r EXCEPT !.now[l] = a.now, !.pc = "commit"])
        ELSE QueueOrSend(h, [r EXCEPT !.now[l] = a.now], l, a.kind, a.plan, r.msg)
  <2>1. PICK a \in (IF r.job = "link" THEN {[now |-> Held(h), kind |-> "payment_link", plan |-> TRUE]} ELSE Answers(h)) :
          LET s == [r EXCEPT !.now[l] = a.now]
          IN IF a.kind = "none" THEN draft' = draft /\ Go(h, [s EXCEPT !.pc = "commit"])
             ELSE QueueOrSend(h, s, s.lead, a.kind, a.plan, s.msg)
    BY DEF Queue
  <2>2. [r EXCEPT !.now[l] = a.now].lead = l /\ [r EXCEPT !.now[l] = a.now].msg = r.msg
        /\ [[r EXCEPT !.now[l] = a.now] EXCEPT !.pc = "commit"] = [r EXCEPT !.now[l] = a.now, !.pc = "commit"]
    BY <1>0 DEF Handler
  <2> HIDE DEF r, l
  <2> QED BY <2>1, <2>2
<1>5. a.now \in Pipe /\ Eases(r.now[l], a.now) /\ a.kind \in {"reply", "payment_link", "none"} /\ a.plan \in BOOLEAN
  <2>1. CASE r.job = "link"
    <3>1. a = [now |-> Held(h), kind |-> "payment_link", plan |-> TRUE]
      BY <1>4, <2>1
    <3> QED BY <1>2, <3>1, Unmoved
  <2>2. CASE r.job # "link"
    <3>1. a \in Answers(h)
      BY <1>4, <2>2
    <3> QED BY <1>2, <3>1, Replying
  <2> QED BY <2>1, <2>2
<1> DEFINE s == [r EXCEPT !.now[l] = a.now]
           x == [r EXCEPT !.now[l] = a.now, !.pc = "commit"]
<1> HIDE DEF r, l
<1>6. /\ s \in Handler /\ s.job = r.job /\ s.wrote = Nothing /\ s.lead = l /\ s.began = r.began /\ s.msg = r.msg /\ s.draft = 0
      /\ s.was = r.was /\ s.now = [r.now EXCEPT ![l] = a.now] /\ s.pc = "queue" /\ s.stop = r.stop /\ s.knows = r.knows
  BY <1>0, <1>1, <1>5 DEF Handler, l
<1>7. /\ x \in Handler /\ x.job = r.job /\ x.wrote = Nothing /\ x.lead = l /\ x.began = r.began /\ x.msg = r.msg /\ x.draft = 0
      /\ x.was = r.was /\ x.now = [r.now EXCEPT ![l] = a.now] /\ x.pc = "commit"
  BY <1>0, <1>1, <1>5 DEF Handler, Steps, l
<1> HIDE DEF s, x
<1>8. \A k \in Leads : Eases(r.was[k], [r.now EXCEPT ![l] = a.now][k])
  <2>1. Eases(r.was[l], a.now)
    BY <1>0, <1>1, <1>5 DEF Eases
  <2> QED BY <1>0, <1>1, <2>1
<1>9. CASE a.kind = "none"
  <2>1. Go(h, x) /\ draft' = draft
    BY <1>4, <1>9 DEF x
  <2>2. HandlerOK(x)
    BY <1>0, <1>7, <1>8, Bounds DEF HandlerOK, Pass, Nothing, Eases
  <2>3. Tied(x, draft', optOut)
    BY <1>1, <1>7, <2>1, Bounds DEF Tied, Decides, Nothing
  <2>4. DraftsLast
    BY <2>1 DEF DraftsLast, Lasts, ChatShape, TypeOK
  <2>5. Stills(h, x)
    BY <1>0, <1>3, <1>7, <2>1 DEF Stills, Goes, Pass, r
  <2> QED BY <1>3, <2>1, <2>2, <2>3, <2>4, <2>5
<1>10. CASE a.kind # "none"
  <2>1. QueueOrSend(h, s, l, a.kind, a.plan, r.msg) /\ a.kind \in Kinds /\ a.kind # "followup"
    BY <1>4, <1>5, <1>10 DEF s, Kinds
  <2>2. s.job = handler[h].job /\ s.wrote = handler[h].wrote
    BY <1>0, <1>6 DEF r
  <2>3. DraftsLast /\ \E y \in Handler : QueuedAs(h, s, l, a.kind, r.msg, y)
    <3>1. r.msg \in Messages \cup {None} /\ l \in Leads /\ a.plan \in BOOLEAN /\ s \in Handler /\ a.kind \in Kinds
      BY <1>0, <1>1, <1>5, <1>6, <2>1
    <3>2. QueueOrSend(h, s, l, a.kind, a.plan, r.msg)
      BY <2>1
    <3> QED BY <2>2, <3>1, <3>2, Queued
  <2>a. PICK y \in Handler : QueuedAs(h, s, l, a.kind, r.msg, y)
    BY <2>3
  <2>4. Decided(h) = "commit"
    BY <1>0 DEF Decided, r
  <2>5. y.wrote[y.draft] = "pending" /\ \A d \in Drafts : y.wrote[d] # "no" => d = y.draft
    BY <1>6, <2>a DEF Nothing, QueuedAs
  <2>6. HandlerOK(y)
    BY <1>0, <1>6, <1>8, <2>a, <2>4, <2>5, Bounds DEF HandlerOK, Pass, Eases, QueuedAs
  <2>7. Tied(y, draft', optOut)
    <3>1. y.knows /\ y.lead \in y.began => y.stop
      BY <1>0, <1>6, <2>a DEF Tied, r, l, QueuedAs
    <3> QED BY <1>0, <1>1, <1>6, <2>1, <2>a, <2>5, <3>1 DEF Tied, Decides, QueuedAs, Pass
  <2>8. Writes(h, y) /\ ~Pass(y)
    BY <1>0, <1>3, <1>6, <2>1, <2>a, <2>4 DEF Writes, Pass, r, QueuedAs
  <2> QED BY <1>3, <2>3, <2>a, <2>6, <2>7, <2>8 DEF QueuedAs
<1> QED BY <1>9, <1>10

\* A pass looks at a lead: it leaves the count alone, or counts a follow-up, written now or before.
Chases(h, x, l) ==
  /\ handler[h].pc = "scan" /\ Pass(handler[h]) /\ Pass(x) /\ l \in handler[h].todo /\ x.todo = handler[h].todo \ {l}
  /\ x.was = handler[h].was /\ x.lead = l
  /\ \E q \in Pipe : /\ x.now = [handler[h].now EXCEPT ![l] = q]
                     /\ \/ Counts(handler[h].now[l], q)
                        \/ Keeps(handler[h].now[l], q) /\ x.wrote = handler[h].wrote
  /\ \/ Writes(h, x)
     \/ /\ x.draft = handler[h].draft /\ x.wrote = handler[h].wrote /\ x.pc = "scan"
        /\ UNCHANGED <<optOut, pipe, draft, message, posted, deaf, contested, chased, twice, overlapped>>

\* run_followups looks at the next lead.
LEMMA ChaseMove ==
  ASSUME ChatShape, NEW h \in Handlers, NEW l \in Leads, Chase(h, l)
  PROVE  \E x : Go(h, x) /\ HandlerOK(x) /\ Tied(x, draft', optOut) /\ optOut' = optOut /\ DraftsLast /\ Chases(h, x, l)
<1> DEFINE o == handler[h]
           p == o.now[l]
           r == [o EXCEPT !.todo = @ \ {l}, !.lead = l, !.stop = FALSE, !.knows = TRUE]
           s(q) == [r EXCEPT !.now[l] = q]
<1>0. /\ HandlerOK(o) /\ Tied(o, draft, optOut) /\ o \in Handler /\ o.pc = "scan" /\ o.job = "followups" /\ l \in o.todo
  BY DEF ChatShape, HandlerOK, Chase, At, Pass
<1>1. /\ o.was \in [Leads -> Pipe] /\ o.now \in [Leads -> Pipe] /\ o.began \subseteq optOut /\ p \in Pipe /\ o.todo \subseteq Leads
      /\ o.wrote \in [Drafts -> {"no", "pending", "sent", "failed", "rejected"}]
      /\ \A k \in Leads : o.was[k].stage = "paid" => o.now[k].stage = "paid"
  BY <1>0, HandlerFields DEF HandlerOK, Tied
<1>2. UNCHANGED <<optOut, pipe, message, posted, deaf, contested, chased, twice, overlapped>>
  BY DEF Chase, history
<1>3. \/ ~Chaseable(l, p) /\ draft' = draft /\ Go(h, s(Passed(l, p)))
      \/ Chaseable(l, p) /\ draft' = draft /\ Go(h, s(Counted(p)))
      \/ Chaseable(l, p) /\ QueueOrSend(h, s(Counted(p)), l, "followup", p.plan, None)
  BY DEF Chase
<1>4. (~Chaseable(l, p) => Passed(l, p) \in Pipe /\ Keeps(p, Passed(l, p))) /\ (Chaseable(l, p) => Counted(p) \in Pipe /\ Counts(p, Counted(p)))
  BY <1>1, Passing
<1> HIDE DEF o, p
<1>5. /\ r \in Handler /\ r.job = "followups" /\ r.pc = "scan" /\ r.todo = o.todo \ {l} /\ r.lead = l /\ r.knows = TRUE
      /\ r.was = o.was /\ r.now = o.now /\ r.began = o.began /\ r.draft = o.draft /\ r.wrote = o.wrote
  BY <1>0 DEF Handler
<1> HIDE DEF r
<1>6. ASSUME NEW q \in Pipe
      PROVE  /\ s(q) \in Handler /\ s(q).job = "followups" /\ s(q).pc = "scan" /\ s(q).todo = o.todo \ {l} /\ s(q).lead = l
             /\ s(q).was = o.was /\ s(q).now = [o.now EXCEPT ![l] = q] /\ s(q).began = o.began /\ s(q).draft = o.draft
             /\ s(q).wrote = o.wrote
  BY <1>1, <1>5 DEF Handler
<1> HIDE DEF s
<1>7. ASSUME NEW q \in Pipe, Keeps(p, q) \/ Counts(p, q)
      PROVE  \A k \in Leads : o.was[k].stage = "paid" => [o.now EXCEPT ![l] = q][k].stage = "paid"
  BY <1>1, <1>7 DEF Keeps, Counts, p
<1>8. ASSUME NEW q \in Pipe, Keeps(p, q) \/ Counts(p, q), draft' = draft, Go(h, s(q))
      PROVE  \E x : Go(h, x) /\ HandlerOK(x) /\ Tied(x, draft', optOut) /\ DraftsLast /\ Chases(h, x, l)
  <2> DEFINE x == s(q)
  <2>1. /\ x \in Handler /\ x.job = "followups" /\ x.pc = "scan" /\ x.todo = o.todo \ {l} /\ x.lead = l
        /\ x.was = o.was /\ x.now = [o.now EXCEPT ![l] = q] /\ x.began = o.began /\ x.draft = o.draft
        /\ x.wrote = o.wrote
    BY <1>6
  <2> HIDE DEF x
  <2>2. \A k \in Leads : x.was[k].stage = "paid" => x.now[k].stage = "paid"
    BY <1>7, <1>8, <2>1
  <2>3. HandlerOK(x)
    BY <1>0, <2>1, <2>2 DEF HandlerOK, Pass
  <2>4. Tied(x, draft', optOut)
    BY <1>0, <1>8, <2>1 DEF Tied, Decides, Pass
  <2>5. DraftsLast
    BY <1>8 DEF DraftsLast, Lasts, ChatShape, TypeOK
  <2>6. Chases(h, x, l)
    BY <1>0, <1>2, <1>8, <2>1 DEF Chases, Pass, o, p
  <2> QED BY <1>8, <2>3, <2>4, <2>5, <2>6 DEF x
<1>9. ASSUME Chaseable(l, p), QueueOrSend(h, s(Counted(p)), l, "followup", p.plan, None)
      PROVE  \E x : Go(h, x) /\ HandlerOK(x) /\ Tied(x, draft', optOut) /\ DraftsLast /\ Chases(h, x, l)
  <2> DEFINE q == Counted(p)
             y == s(q)
  <2>1. q \in Pipe /\ Counts(p, q) /\ p.plan \in BOOLEAN /\ "followup" \in Kinds /\ l \notin optOut
    BY <1>1, <1>4, <1>9 DEF Pipe, Kinds, Chaseable
  <2>2. QueueOrSend(h, y, l, "followup", p.plan, None)
    BY <1>9
  <2> HIDE DEF q
  <2>3. /\ y \in Handler /\ y.job = "followups" /\ y.todo = o.todo \ {l}
        /\ y.was = o.was /\ y.now = [o.now EXCEPT ![l] = q] /\ y.began = o.began /\ y.wrote = o.wrote
    BY <1>6, <2>1
  <2> HIDE DEF y
  <2>4. DraftsLast /\ \E x \in Handler : QueuedAs(h, y, l, "followup", None, x)
    <3>1. None \in Messages \cup {None}
      OBVIOUS
    <3> QED BY <2>1, <2>2, <2>3, <3>1, Queued
  <2>5. PICK x \in Handler : QueuedAs(h, y, l, "followup", None, x)
    BY <2>4
  <2>6. Decided(h) = "scan"
    BY <1>0 DEF Decided, o
  <2>7. /\ Go(h, x) /\ x.job = "followups" /\ x.draft \in Drafts /\ x.wrote = [o.wrote EXCEPT ![x.draft] = "pending"]
        /\ x.lead = l /\ x.began = o.began /\ x.was = o.was /\ x.now = [o.now EXCEPT ![l] = q] /\ x.todo = o.todo \ {l}
        /\ x.pc \in {"post", "scan"}
        /\ draft[x.draft].status = "none" /\ draft'[x.draft].status = "open" /\ draft'[x.draft].lead = l
        /\ draft'[x.draft].kind = "followup" /\ draft'[x.draft].msg = None
        /\ \A e \in Drafts : e # x.draft => draft'[e] = draft[e]
    BY <2>3, <2>5, <2>6 DEF QueuedAs
  <2>8. \A k \in Leads : x.was[k].stage = "paid" => x.now[k].stage = "paid"
    BY <1>7, <2>1, <2>7
  <2>9. x.wrote[x.draft] = "pending" /\ \A d \in Drafts : x.wrote[d] # "no" => d = x.draft \/ o.wrote[d] # "no"
    BY <1>1, <2>7
  <2>10. HandlerOK(x)
    BY <1>0, <2>7, <2>8, <2>9, Bounds DEF HandlerOK, Pass
  <2>11. Tied(x, draft', optOut)
    BY <1>0, <1>1, <2>1, <2>7, <2>9 DEF Tied, Decides, Pass
  <2>12. Writes(h, x)
    BY <1>0, <1>2, <2>7 DEF Writes, Pass, o
  <2>13. Chases(h, x, l)
    BY <1>0, <2>1, <2>7, <2>12 DEF Chases, Pass, o, p
  <2> QED BY <2>4, <2>7, <2>10, <2>11, <2>13
<1> QED BY <1>2, <1>3, <1>4, <1>8, <1>9

-----------------------------------------------------------------------------
\* What a commit makes of the rows.
LEMMA Settled ==
  ASSUME ChatShape, NEW h \in Handlers, Committing(h)
  PROVE  /\ DraftsLast /\ pipe' \in [Leads -> Pipe] /\ chased' \in [Leads -> Nat]
         /\ \A d \in Drafts : /\ draft'[d].status = (IF handler[h].wrote[d] = "no" THEN draft[d].status ELSE handler[h].wrote[d])
                              /\ draft'[d].lead = draft[d].lead /\ draft'[d].kind = draft[d].kind /\ draft'[d].msg = draft[d].msg
         /\ \A l \in Leads :
              LET was == handler[h].was[l]
                  now == handler[h].now[l]
              IN /\ pipe'[l].stage = (IF now.stage = was.stage THEN pipe[l].stage ELSE now.stage)
                 /\ pipe'[l].followups = (IF now.followups = was.followups THEN pipe[l].followups ELSE now.followups)
         /\ \A l \in Leads : /\ chased'[l] = (IF Resets(h, l) THEN 0 ELSE chased[l] + Cardinality(NewFollowups(h, l)))
                             /\ Cardinality(NewFollowups(h, l)) \in Nat
<1>0. /\ draft \in [Drafts -> Draft] /\ pipe \in [Leads -> Pipe] /\ chased \in [Leads -> Nat] /\ HandlerOK(handler[h])
      /\ Tied(handler[h], draft, optOut) /\ handler[h] \in Handler /\ \A d \in Drafts : draft[d].status # "none" => draft[d].lead \in Leads
  BY DEF ChatShape, TypeOK, HandlerOK
<1>1. /\ handler[h].was \in [Leads -> Pipe] /\ handler[h].now \in [Leads -> Pipe]
      /\ handler[h].wrote \in [Drafts -> {"no", "pending", "sent", "failed", "rejected"}]
  BY <1>0, HandlerFields
<1> DEFINE w == handler[h].wrote
<1>2. draft' = [d \in Drafts |-> IF w[d] = "no" THEN draft[d] ELSE [draft[d] EXCEPT !.status = w[d]]]
  BY DEF Committing, CommittedDrafts
<1>3. ASSUME NEW d \in Drafts
      PROVE  /\ draft'[d] \in Draft /\ draft'[d].status = (IF w[d] = "no" THEN draft[d].status ELSE w[d])
             /\ draft'[d].lead = draft[d].lead /\ draft'[d].kind = draft[d].kind /\ draft'[d].msg = draft[d].msg
             /\ (w[d] # "no" => draft[d].status # "none") /\ w[d] \in {"no", "pending", "sent", "failed", "rejected"}
  <2>1. draft[d] \in Draft /\ w[d] \in {"no", "pending", "sent", "failed", "rejected"}
    BY <1>0, <1>1
  <2>2. draft'[d] = IF w[d] = "no" THEN draft[d] ELSE [draft[d] EXCEPT !.status = w[d]]
    BY <1>2
  <2>3. w[d] # "no" => draft[d].status # "none"
    BY <1>0 DEF Tied, Decides
  <2> HIDE DEF w
  <2> QED BY <2>1, <2>2, <2>3 DEF Draft
<1>4. DraftsLast
  <2>1. draft' \in [Drafts -> Draft]
    BY <1>2, <1>3
  <2>2. \A d \in Drafts : Lasts(d) /\ (draft'[d].status # "none" => draft'[d].lead \in Leads)
    BY <1>0, <1>3 DEF Lasts
  <2> QED BY <2>1, <2>2 DEF DraftsLast
<1>5. pipe' = [l \in Leads |-> Written(pipe[l], handler[h].was[l], handler[h].now[l])]
  BY DEF Committing, CommittedPipes
<1>6. ASSUME NEW l \in Leads
      PROVE  LET was == handler[h].was[l]
                 now == handler[h].now[l]
             IN /\ pipe'[l] \in Pipe /\ pipe'[l].stage = (IF now.stage = was.stage THEN pipe[l].stage ELSE now.stage)
                /\ pipe'[l].followups = (IF now.followups = was.followups THEN pipe[l].followups ELSE now.followups)
  <2>1. pipe[l] \in Pipe /\ handler[h].was[l] \in Pipe /\ handler[h].now[l] \in Pipe
    BY <1>0, <1>1
  <2>2. pipe'[l] = Written(pipe[l], handler[h].was[l], handler[h].now[l])
    BY <1>5
  <2> QED BY <2>1, <2>2, Writing
<1>7. pipe' \in [Leads -> Pipe]
  BY <1>5, <1>6
<1>8. ASSUME NEW l \in Leads PROVE Cardinality(NewFollowups(h, l)) \in Nat
  <2>1. NewFollowups(h, l) \subseteq Drafts
    BY DEF NewFollowups
  <2> QED BY <2>1, Bounds, FS_Subset, FS_CardinalityType
<1>9. chased' = [l \in Leads |-> IF Resets(h, l) THEN 0 ELSE chased[l] + Cardinality(NewFollowups(h, l))]
  BY DEF Committing
<1>10. chased' \in [Leads -> Nat]
  <2>1. ASSUME NEW l \in Leads PROVE (IF Resets(h, l) THEN 0 ELSE chased[l] + Cardinality(NewFollowups(h, l))) \in Nat
    BY <1>0, <1>8
  <2> QED BY <1>9, <2>1
<1> QED BY <1>3, <1>4, <1>6, <1>7, <1>8, <1>9, <1>10

\* The invoice's own commit makes the draft pending.
Invoiced(h, x) ==
  /\ handler[h].pc = "invoice" /\ x.pc = "post" /\ x.draft = handler[h].draft /\ x.wrote = handler[h].wrote
  /\ ~Pass(x) /\ ~Pass(handler[h]) /\ Committing(h)
  /\ UNCHANGED <<optOut, message, posted, deaf, contested, twice, overlapped>>
\* The draft fails, or is sent, or is posted without an answer.
Judges(h, x) ==
  LET d == handler[h].draft
  IN /\ handler[h].pc \in {"invoice", "post"} /\ d \in Drafts /\ x.draft = d /\ x.job = handler[h].job
     /\ x.pc \in {"scan", "commit"} /\ (x.pc = "scan" <=> Pass(x))
     /\ Pass(x) => x.was = handler[h].was /\ x.now = handler[h].now /\ x.todo = handler[h].todo
     /\ \/ x.wrote = [handler[h].wrote EXCEPT ![d] = "failed"] /\ posted' \in {posted, [posted EXCEPT ![d] = @ + 1]}
        \/ x.wrote = [handler[h].wrote EXCEPT ![d] = "sent"] /\ posted' = [posted EXCEPT ![d] = @ + 1]
     /\ UNCHANGED <<optOut, pipe, draft, message, deaf, contested, chased, twice, overlapped>>
Finishes(h, x) ==
  /\ handler[h].pc \in {"commit", "scan"} /\ (Pass(handler[h]) => handler[h].todo = {}) /\ x = Idle /\ Committing(h)
  /\ UNCHANGED <<optOut, message, posted, deaf, contested, twice, overlapped>>

\* ensure_payment_link commits and goes on.
LEMMA InvoiceMove ==
  ASSUME ChatShape, NEW h \in Handlers, CreateInvoice(h)
  PROVE  \E x : Go(h, x) /\ HandlerOK(x) /\ Tied(x, draft', optOut) /\ optOut' = optOut /\ DraftsLast /\ Invoiced(h, x)
<1> DEFINE o == handler[h]
           l == o.lead
<1>0. /\ HandlerOK(o) /\ Tied(o, draft, optOut) /\ o \in Handler /\ o.pc = "invoice" /\ l \in Leads /\ ~Pass(o) /\ Committing(h)
      /\ UNCHANGED <<optOut, message, posted, deaf, contested, twice, overlapped>>
  BY DEF ChatShape, HandlerOK, CreateInvoice, At
<1>1. o.was \in [Leads -> Pipe] /\ o.now \in [Leads -> Pipe] /\ o.now[l] \in Pipe
      /\ o.wrote \in [Drafts -> {"no", "pending", "sent", "failed", "rejected"}]
  BY <1>0, HandlerFields
<1>2. PICK i \in Invoices : Go(h, [o EXCEPT !.pc = "post", !.was = o.now, !.now[l] = [o.now[l] EXCEPT !.pay = i, !.link = TRUE, !.plan = TRUE]])
  BY ZenonT(60) DEF CreateInvoice
<1> DEFINE q == [o.now[l] EXCEPT !.pay = i, !.link = TRUE, !.plan = TRUE]
           x == [o EXCEPT !.pc = "post", !.was = o.now, !.now = [o.now EXCEPT ![l] = q]]
<1>3. q \in Pipe /\ Eases(o.now[l], q)
  BY <1>1, Bounds DEF Pipe, Eases
<1>4. [o EXCEPT !.pc = "post", !.was = o.now, !.now[l] = [o.now[l] EXCEPT !.pay = i, !.link = TRUE, !.plan = TRUE]] = x
  <2> HIDE DEF l
  <2> QED BY <1>0, <1>1 DEF Handler, Pipe
<1> HIDE DEF q, l
<1>5. /\ x \in Handler /\ x.job = o.job /\ x.pc = "post" /\ x.draft = o.draft /\ x.wrote = o.wrote /\ x.lead = o.lead
      /\ x.began = o.began /\ x.stop = o.stop /\ x.knows = o.knows /\ x.was = o.now /\ x.now = [o.now EXCEPT ![l] = q]
  BY <1>0, <1>1, <1>3 DEF Handler, Steps
<1>a. Go(h, x)
  BY <1>2, <1>4
<1> HIDE DEF x, o
<1>6. \A k \in Leads : Eases(x.was[k], x.now[k])
  BY <1>0, <1>1, <1>3, <1>5, Unmoved
<1>7. HandlerOK(x)
  BY <1>0, <1>5, <1>6 DEF HandlerOK, Pass, Eases
<1>8. DraftsLast /\ \A d \in Drafts : /\ draft'[d].status = (IF o.wrote[d] = "no" THEN draft[d].status ELSE o.wrote[d])
                                      /\ draft'[d].lead = draft[d].lead /\ draft'[d].kind = draft[d].kind
  BY <1>0, Settled DEF o
<1>9. Tied(x, draft', optOut)
  <2>1. o.draft \in Drafts /\ draft'[o.draft].lead = o.lead
    BY <1>0, <1>8 DEF HandlerOK, Tied
  <2>2. \A d \in Drafts : o.wrote[d] # "no" => draft'[d].status # "open" /\ draft'[d].status # "none"
    BY <1>1, <1>8
  <2>3. \A d \in Drafts : Decides(x, d) => draft'[d].status # "none"
    BY <1>0, <1>5, <1>8, <2>2 DEF Tied, Decides
  <2>4. \A d \in Drafts : Decides(x, d) => draft'[d].kind # "followup" \/ draft'[d].status # "open"
    BY <1>0, <1>5, <1>8, <2>2 DEF Tied, Decides, Pass
  <2>5. ~Pass(x)
    BY <1>0, <1>5 DEF Pass
  <2> QED BY <1>0, <1>5, <2>1, <2>3, <2>4, <2>5 DEF Tied
<1>10. Invoiced(h, x)
  BY <1>0, <1>5 DEF Invoiced, Pass, o
<1> QED BY <1>0, <1>7, <1>8, <1>9, <1>10, <1>a

\* A handler with a verdict on its draft is fit for its step.
LEMMA Judged ==
  ASSUME ChatShape, NEW h \in Handlers, handler[h].pc \in {"invoice", "post"}, NEW verdict \in {"sent", "failed"},
         NEW x \in Handler, x.job = handler[h].job, x.pc = Decided(h), x.draft = handler[h].draft,
         x.wrote = [handler[h].wrote EXCEPT ![handler[h].draft] = verdict], x.began = handler[h].began,
         x.todo = handler[h].todo,
         \A l \in Leads : x.was[l].stage = "paid" => x.now[l].stage = "paid",
         IF Pass(handler[h]) THEN x.was = handler[h].was /\ x.now = handler[h].now
         ELSE \A l \in Leads : Eases(x.was[l], x.now[l]),
         draft' = draft
  PROVE  /\ HandlerOK(x) /\ Tied(x, draft', optOut) /\ handler[h].draft \in Drafts /\ DraftsLast
         /\ x.pc \in {"scan", "commit"} /\ (x.pc = "scan" <=> Pass(x))
<1> DEFINE o == handler[h]
           d == o.draft
<1>0. HandlerOK(o) /\ Tied(o, draft, optOut) /\ o \in Handler /\ d \in Drafts
  BY DEF ChatShape, HandlerOK
<1>1. o.wrote \in [Drafts -> {"no", "pending", "sent", "failed", "rejected"}]
  BY <1>0, HandlerFields
<1>2. Decided(h) \in {"scan", "commit"} /\ (Decided(h) = "scan" <=> Pass(o))
  BY DEF Decided, Pass
<1>3. x.job = o.job /\ x.draft = d /\ x.wrote = [o.wrote EXCEPT ![d] = verdict] /\ x.began = o.began
  OBVIOUS
<1> HIDE DEF o, d
<1>4. \A e \in Drafts : x.wrote[e] # "no" <=> o.wrote[e] # "no" \/ e = d
  BY <1>0, <1>1, <1>3
<1>5. HandlerOK(x)
  <2>1. Pass(x) <=> Pass(o)
    BY <1>3 DEF Pass
  <2>2. \A e \in Drafts : IF Pass(x) THEN x.draft = e => x.wrote[e] # "no" ELSE x.wrote[e] # "no" => x.draft = e
    BY <1>0, <1>3, <1>4, <2>1 DEF HandlerOK, d
  <2>3. \A l \in Leads : /\ x.was[l].stage = "paid" => x.now[l].stage = "paid"
                         /\ ~Pass(x) => Eases(x.was[l], x.now[l])
    BY <2>1 DEF o
  <2> QED BY <1>2, <1>3, <2>1, <2>2, <2>3 DEF HandlerOK
<1>6. Tied(x, draft', optOut)
  <2>1. \A e \in Drafts : Decides(x, e) => draft[e].status # "none"
    BY <1>0, <1>3, <1>4 DEF Tied, Decides, d
  <2>2. ASSUME NEW e \in Drafts, Decides(x, e)
        PROVE  IF Pass(x) THEN draft[e].kind = "followup" ELSE draft[e].kind # "followup" \/ draft[e].status # "open"
    <3>1. Decides(o, e)
      BY <1>3, <1>4, <2>2 DEF Decides, d
    <3> QED BY <1>0, <1>3, <3>1 DEF Tied, Pass
  <2> QED BY <1>0, <1>2, <1>3, <2>1, <2>2 DEF Tied
<1>7. DraftsLast
  BY DEF DraftsLast, Lasts, ChatShape, TypeOK
<1> QED BY <1>0, <1>2, <1>5, <1>6, <1>7 DEF o, d, Pass

\* A draft fails, is posted with no answer, or is sent; whoever opted out before it began gets no text.
LEMMA JudgeMove ==
  ASSUME ChatShape, NEW h \in Handlers, InvoiceFails(h) \/ Post(h) \/ PostFails(h)
  PROVE  \E x : Go(h, x) /\ HandlerOK(x) /\ Tied(x, draft', optOut) /\ optOut' = optOut /\ DraftsLast /\ Judges(h, x)
<1> DEFINE o == handler[h]
           d == o.draft
           l == draft[d].lead
           f == [o EXCEPT !.pc = Decided(h), !.wrote[d] = "failed"]
           r == IF o.job = "approve" /\ o.now[l] = o.was[l] THEN Holding(h, l) ELSE o
           n == OnDraftSent(r.now[l], draft[d])
           s == [r EXCEPT !.now[l] = n, !.wrote[d] = "sent", !.pc = Decided(h)]
<1>0. /\ HandlerOK(o) /\ Tied(o, draft, optOut) /\ o \in Handler /\ o.pc \in {"invoice", "post"} /\ d \in Drafts
      /\ l = o.lead /\ l \in Leads /\ draft[d] \in Draft /\ pipe \in [Leads -> Pipe]
  <2>1. HandlerOK(o) /\ Tied(o, draft, optOut) /\ o.pc \in {"invoice", "post"} /\ draft \in [Drafts -> Draft] /\ pipe \in [Leads -> Pipe]
    BY DEF ChatShape, TypeOK, InvoiceFails, Post, PostFails, At
  <2> HIDE DEF o
  <2> QED BY <2>1 DEF HandlerOK, Tied
<1>1. /\ o.was \in [Leads -> Pipe] /\ o.now \in [Leads -> Pipe] /\ o.began \subseteq optOut
      /\ o.wrote \in [Drafts -> {"no", "pending", "sent", "failed", "rejected"}]
      /\ \A k \in Leads : /\ o.was[k].stage = "paid" => o.now[k].stage = "paid"
                          /\ ~Pass(o) => Eases(o.was[k], o.now[k])
  BY <1>0, HandlerFields DEF HandlerOK, Tied
<1>2. UNCHANGED <<optOut, pipe, draft, message, contested, chased, twice, overlapped>>
  BY DEF InvoiceFails, Post, PostFails, rows, history
<1>3. deaf' = deaf
  <2>1. CASE Post(h)
    <3>1. IF NeedsTemplate(d) THEN Approved ELSE Allowed(h, d)
      BY <2>1 DEF Post
    <3>2. deaf' = deaf \cup {e \in {d} : ~NeedsTemplate(d) /\ l \in o.began}
      BY <2>1 DEF Post
    <3>3. ASSUME ~NeedsTemplate(d), l \in o.began PROVE FALSE
      <4>1. Allowed(h, d) /\ o.pc = "post"
        BY <2>1, <3>1, <3>3 DEF Post, At
      <4>2. IF o.knows THEN ~o.stop ELSE l \notin optOut
        BY <4>1 DEF Allowed
      <4>3. o.knows /\ l \in o.began => o.stop
        BY <1>0, <4>1 DEF Tied
      <4> HIDE DEF o, l
      <4> QED BY <1>1, <3>3, <4>2, <4>3
    <3> QED BY <3>2, <3>3
  <2>2. CASE InvoiceFails(h) \/ PostFails(h)
    BY <2>2 DEF InvoiceFails, PostFails, history
  <2> QED BY <2>1, <2>2
<1>4. \/ Go(h, f) /\ posted' \in {posted, [posted EXCEPT ![d] = @ + 1]}
      \/ Go(h, s) /\ posted' = [posted EXCEPT ![d] = @ + 1]
  <2>1. CASE Post(h)
    BY <2>1 DEF Post, AfterPost
  <2>2. CASE InvoiceFails(h) \/ PostFails(h)
    BY <2>2 DEF InvoiceFails, PostFails, history
  <2> QED BY <2>1, <2>2
<1>5. Decided(h) \in {"scan", "commit"} /\ Decided(h) \in Steps
  BY DEF Decided, Steps
<1>6. /\ r \in Handler /\ r.job = o.job /\ r.draft = d /\ r.wrote = o.wrote /\ r.began = o.began /\ r.todo = o.todo
      /\ r.was \in [Leads -> Pipe] /\ r.now \in [Leads -> Pipe] /\ (Pass(o) => r.was = o.was /\ r.now = o.now)
      /\ \A k \in Leads : /\ r.was[k].stage = "paid" => r.now[k].stage = "paid"
                          /\ ~Pass(o) => Eases(r.was[k], r.now[k])
  <2>1. pipe[l] \in Pipe
    BY <1>0
  <2> DEFINE y == [o EXCEPT !.was[l] = pipe[l], !.now[l] = pipe[l]]
  <2>2. r = o \/ (o.job # "followups" /\ r = y)
    BY DEF Holding
  <2> HIDE DEF o, l, r
  <2>3. /\ y \in Handler /\ y.job = o.job /\ y.draft = o.draft /\ y.wrote = o.wrote /\ y.began = o.began /\ y.todo = o.todo
        /\ y.was = [o.was EXCEPT ![l] = pipe[l]] /\ y.now = [o.now EXCEPT ![l] = pipe[l]]
    BY <1>0, <2>1 DEF Handler
  <2> HIDE DEF y
  <2>4. /\ y.was \in [Leads -> Pipe] /\ y.now \in [Leads -> Pipe]
        /\ \A k \in Leads : /\ y.was[k].stage = "paid" => y.now[k].stage = "paid"
                            /\ ~Pass(o) => Eases(y.was[k], y.now[k])
    BY <1>1, <2>1, <2>3, Unmoved
  <2> QED BY <1>0, <1>1, <2>2, <2>3, <2>4 DEF Pass
<1>7. n \in Pipe /\ Eases(r.now[l], n) /\ (draft[d].kind = "followup" => n = r.now[l])
  <2> HIDE DEF r, l
  <2>1. r.now[l] \in Pipe /\ draft[d] \in Draft
    BY <1>0, <1>6
  <2> QED BY <2>1, DraftSent
<1>8. Pass(o) => draft[d].kind = "followup"
  BY <1>0 DEF Tied, Decides
<1> HIDE DEF o, d, l, r, n
<1>9. /\ f \in Handler /\ f.job = o.job /\ f.pc = Decided(h) /\ f.draft = d /\ f.wrote = [o.wrote EXCEPT ![d] = "failed"]
      /\ f.began = o.began /\ f.todo = o.todo /\ f.was = o.was /\ f.now = o.now
  <2> DEFINE pc == Decided(h)
             g == [o EXCEPT !.pc = pc, !.wrote[d] = "failed"]
  <2>1. pc \in Steps /\ f = g
    BY <1>5
  <2> HIDE DEF pc, f
  <2>2. /\ g \in Handler /\ g.job = o.job /\ g.pc = pc /\ g.draft = d /\ g.wrote = [o.wrote EXCEPT ![d] = "failed"]
        /\ g.began = o.began /\ g.todo = o.todo /\ g.was = o.was /\ g.now = o.now
    BY <1>0, <2>1 DEF Handler, d
  <2> HIDE DEF g
  <2> QED BY <2>1, <2>2 DEF pc
<1>10. /\ s \in Handler /\ s.job = o.job /\ s.pc = Decided(h) /\ s.draft = d /\ s.wrote = [o.wrote EXCEPT ![d] = "sent"]
       /\ s.began = o.began /\ s.todo = o.todo /\ s.was = r.was /\ s.now = [r.now EXCEPT ![l] = n]
  <2> DEFINE pc == Decided(h)
             g == [r EXCEPT !.now[l] = n, !.wrote[d] = "sent", !.pc = pc]
  <2>1. pc \in Steps /\ s = g
    BY <1>5
  <2> HIDE DEF pc, s
  <2>2. /\ g \in Handler /\ g.job = r.job /\ g.pc = pc /\ g.draft = r.draft /\ g.wrote = [r.wrote EXCEPT ![d] = "sent"]
        /\ g.began = r.began /\ g.todo = r.todo /\ g.was = r.was /\ g.now = [r.now EXCEPT ![l] = n]
    BY <1>0, <1>6, <1>7, <2>1 DEF Handler
  <2> HIDE DEF g
  <2> QED BY <1>6, <2>1, <2>2 DEF pc
<1> HIDE DEF f, s
<1>11. /\ Pass(o) => [r.now EXCEPT ![l] = n] = o.now
       /\ \A k \in Leads : /\ s.was[k].stage = "paid" => s.now[k].stage = "paid"
                           /\ ~Pass(o) => Eases(s.was[k], s.now[k])
  <2>1. Pass(o) => [r.now EXCEPT ![l] = n] = o.now
    BY <1>1, <1>6, <1>7, <1>8
  <2>2. s.was[l].stage = "paid" => n.stage = "paid"
    BY <1>0, <1>6, <1>7, <1>10 DEF Eases
  <2>3. ~Pass(o) => Eases(s.was[l], n)
    BY <1>0, <1>6, <1>7, <1>10 DEF Eases
  <2> QED BY <1>0, <1>6, <1>10, <2>1, <2>2, <2>3
<1>12. HandlerOK(f) /\ Tied(f, draft', optOut) /\ DraftsLast /\ (f.pc = "scan" <=> Pass(f)) /\ f.pc \in {"scan", "commit"}
  <2>1. \A k \in Leads : f.was[k].stage = "paid" => f.now[k].stage = "paid"
    BY <1>1, <1>9
  <2>2. IF Pass(o) THEN f.was = o.was /\ f.now = o.now ELSE \A k \in Leads : Eases(f.was[k], f.now[k])
    BY <1>1, <1>9
  <2> QED BY <1>0, <1>2, <1>9, <2>1, <2>2, Judged DEF o, d
<1>13. HandlerOK(s) /\ Tied(s, draft', optOut) /\ (s.pc = "scan" <=> Pass(s)) /\ s.pc \in {"scan", "commit"}
  <2>1. IF Pass(o) THEN s.was = o.was /\ s.now = o.now ELSE \A k \in Leads : Eases(s.was[k], s.now[k])
    BY <1>6, <1>10, <1>11
  <2> QED BY <1>0, <1>2, <1>10, <1>11, <2>1, Judged DEF o, d
<1>14. CASE Go(h, f) /\ posted' \in {posted, [posted EXCEPT ![d] = @ + 1]}
  <2>1. Judges(h, f)
    BY <1>0, <1>2, <1>3, <1>9, <1>12, <1>14 DEF Judges, o, d
  <2> QED BY <1>2, <1>12, <1>14, <2>1
<1>15. CASE Go(h, s) /\ posted' = [posted EXCEPT ![d] = @ + 1]
  <2>1. Pass(s) => s.was = o.was /\ s.now = o.now /\ s.todo = o.todo
    BY <1>6, <1>10, <1>11 DEF Pass
  <2>2. Judges(h, s)
    BY <1>0, <1>2, <1>3, <1>10, <1>13, <1>15, <2>1 DEF Judges, o, d
  <2> QED BY <1>2, <1>12, <1>13, <1>15, <2>2
<1> QED BY <1>4, <1>14, <1>15

\* A commit ends the request.
LEMMA CommitMove ==
  ASSUME ChatShape, NEW h \in Handlers, Commit(h)
  PROVE  \E x : Go(h, x) /\ HandlerOK(x) /\ Tied(x, draft', optOut) /\ optOut' = optOut /\ DraftsLast /\ Finishes(h, x)
<1>1. Committing(h) /\ Go(h, Idle) /\ UNCHANGED <<optOut, message, posted, deaf, contested, twice, overlapped>>
  BY DEF Commit
<1>2. HandlerOK(handler[h]) /\ handler[h].pc \in {"commit", "scan"} /\ (handler[h].pc = "scan" => handler[h].todo = {})
  BY DEF Commit, At, ChatShape
<1>3. Pass(handler[h]) => handler[h].todo = {}
  BY <1>2 DEF HandlerOK
<1>4. Finishes(h, Idle)
  BY <1>1, <1>2, <1>3 DEF Finishes
<1>5. DraftsLast
  BY <1>1, Settled
<1> QED BY <1>1, <1>4, <1>5, IdleOK

-----------------------------------------------------------------------------
(* Every step is the move of one handler, time passing, or a restart.      *)

Moves(h, x) ==
  /\ Go(h, x) /\ HandlerOK(x) /\ Tied(x, draft', optOut') /\ optOut \subseteq optOut' /\ optOut' \subseteq Leads /\ DraftsLast
  /\ \/ Begins(h, x) \/ (\E d \in Drafts : Takes(h, x, d))
     \/ Records(h, x) \/ Repeats(h, x) \/ Drops(h, x) \/ Holds(h, x)
     \/ Stills(h, x) \/ (Writes(h, x) /\ ~Pass(x)) \/ (\E l \in Leads : Chases(h, x, l))
     \/ Invoiced(h, x) \/ Judges(h, x) \/ Finishes(h, x)

Waits ==
  /\ UNCHANGED <<optOut, draft, message, handler, posted, deaf, contested, chased, twice, overlapped>>
  /\ \A l \in Leads : pipe'[l].stage = pipe[l].stage /\ pipe'[l].followups = pipe[l].followups

\* Drafts that are left alone stay what they are.
LEMMA Unwritten ==
  ASSUME ChatShape, draft' = draft PROVE DraftsLast
BY DEF DraftsLast, Lasts, ChatShape, TypeOK

\* Every action of a handler is one of these moves.
LEMMA OneMoves ==
  ASSUME ChatShape, NEW h \in Handlers, Answering(h) \/ Sending(h) \/ Owner(h) \/ Chasing(h)
  PROVE  \E x : Moves(h, x)
<1>0. optOut \subseteq Leads
  BY DEF ChatShape, TypeOK
<1>1. CASE \E m \in Messages : Deliver(h, m)
  <2>1. PICK x : Go(h, x) /\ HandlerOK(x) /\ Tied(x, draft, optOut) /\ Begins(h, x)
    BY <1>1, DeliverMove
  <2>2. draft' = draft /\ optOut' = optOut
    BY <2>1 DEF Begins
  <2> QED BY <1>0, <2>1, <2>2, Unwritten DEF Moves
<1>2. CASE Record(h) \/ RecordDuplicate(h) \/ RecordFails(h) \/ Load(h) \/ LoadFails(h)
  <2>1. PICK x : /\ Go(h, x) /\ HandlerOK(x) /\ Tied(x, draft, optOut') /\ optOut \subseteq optOut' /\ optOut' \subseteq Leads
                 /\ Records(h, x) \/ Repeats(h, x) \/ Drops(h, x) \/ Holds(h, x)
    BY <1>2, HearMove
  <2>2. draft' = draft
    BY <2>1 DEF Records, Repeats, Drops, Holds, Goes
  <2> QED BY <2>1, <2>2, Unwritten DEF Moves
<1>3. CASE Queue(h)
  <2>1. PICK x : /\ Go(h, x) /\ HandlerOK(x) /\ Tied(x, draft', optOut) /\ optOut' = optOut /\ DraftsLast
                 /\ Stills(h, x) \/ (Writes(h, x) /\ ~Pass(x))
    BY <1>3, QueueMove
  <2> QED BY <1>0, <2>1 DEF Moves
<1>4. CASE CreateInvoice(h)
  <2>1. PICK x : Go(h, x) /\ HandlerOK(x) /\ Tied(x, draft', optOut) /\ optOut' = optOut /\ DraftsLast /\ Invoiced(h, x)
    BY <1>4, InvoiceMove
  <2> QED BY <1>0, <2>1 DEF Moves
<1>5. CASE InvoiceFails(h) \/ Post(h) \/ PostFails(h)
  <2>1. PICK x : Go(h, x) /\ HandlerOK(x) /\ Tied(x, draft', optOut) /\ optOut' = optOut /\ DraftsLast /\ Judges(h, x)
    BY <1>5, JudgeMove
  <2> QED BY <1>0, <2>1 DEF Moves
<1>6. CASE Commit(h)
  <2>1. PICK x : Go(h, x) /\ HandlerOK(x) /\ Tied(x, draft', optOut) /\ optOut' = optOut /\ DraftsLast /\ Finishes(h, x)
    BY <1>6, CommitMove
  <2> QED BY <1>0, <2>1 DEF Moves
<1>7. CASE \E d \in Drafts : Approve(h, d) \/ Reject(h, d)
  <2>1. PICK d \in Drafts : Approve(h, d) \/ Reject(h, d)
    BY <1>7
  <2>2. PICK x : Go(h, x) /\ HandlerOK(x) /\ Tied(x, draft, optOut) /\ Takes(h, x, d)
    BY <2>1, DecideMove
  <2>3. draft' = draft /\ optOut' = optOut
    BY <2>2 DEF Takes
  <2> QED BY <1>0, <2>2, <2>3, Unwritten DEF Moves
<1>8. CASE (\E l \in Leads : RequestLink(h, l) \/ \E s \in OwnerStages : MoveStage(h, l, s)) \/ StartPass(h)
  <2>1. PICK x : Go(h, x) /\ HandlerOK(x) /\ Tied(x, draft, optOut) /\ Begins(h, x)
    BY <1>8, BeginMove
  <2>2. draft' = draft /\ optOut' = optOut
    BY <2>1 DEF Begins
  <2> QED BY <1>0, <2>1, <2>2, Unwritten DEF Moves
<1>9. CASE \E l \in Leads : Chase(h, l)
  <2>1. PICK l \in Leads : Chase(h, l)
    BY <1>9
  <2>2. PICK x : Go(h, x) /\ HandlerOK(x) /\ Tied(x, draft', optOut) /\ optOut' = optOut /\ DraftsLast /\ Chases(h, x, l)
    BY <2>1, ChaseMove
  <2> QED BY <1>0, <2>2 DEF Moves
<1> QED BY <1>1, <1>2, <1>3, <1>4, <1>5, <1>6, <1>7, <1>8, <1>9 DEF Answering, Sending, Owner, Chasing

\* Every step is.
LEMMA EveryMove ==
  ASSUME ChatShape, [Next]_vars
  PROVE  (\E h \in Handlers : \E x : Moves(h, x)) \/ Waits \/ Restart
<1>1. CASE \E h \in Handlers : Answering(h) \/ Sending(h) \/ Owner(h) \/ Chasing(h)
  BY <1>1, OneMoves
<1>2. CASE UNCHANGED vars \/ (\E m \in OwnerModes : SetMode(m)) \/ (\E i \in Invoices : PayInvoice(i)) \/ (\E l \in Leads : WindowCloses(l))
  BY <1>2 DEF Waits, vars, SetMode, PayInvoice, WindowCloses, rows, history
<1>3. CASE \E l \in Leads : FollowupDue(l)
  <2>1. PICK l \in Leads : FollowupDue(l)
    BY <1>3
  <2>2. pipe' = [pipe EXCEPT ![l].next = "due"] /\ UNCHANGED <<optOut, draft, message, handler, posted, deaf, contested, chased, twice, overlapped>>
    BY <2>1 DEF FollowupDue, history
  <2>3. pipe \in [Leads -> Pipe] /\ pipe[l] \in Pipe
    BY DEF ChatShape, TypeOK
  <2>4. [pipe[l] EXCEPT !.next = "due"].stage = pipe[l].stage /\ [pipe[l] EXCEPT !.next = "due"].followups = pipe[l].followups
    BY <2>3 DEF Pipe
  <2> QED BY <2>2, <2>3, <2>4 DEF Waits
<1> QED BY <1>1, <1>2, <1>3 DEF Next

\* What others do to the drafts does not concern a handler.
LEMMA Stays ==
  ASSUME NEW x, HandlerOK(x), Tied(x, draft, optOut), DraftsLast, optOut \subseteq optOut'
  PROVE  Tied(x, draft', optOut')
<1>1. \A d \in Drafts : Decides(x, d) => /\ draft'[d].status # "none" /\ (draft'[d].status = "open" => draft[d].status = "open")
                                          /\ draft'[d].lead = draft[d].lead /\ draft'[d].kind = draft[d].kind
  BY DEF Tied, DraftsLast, Lasts
<1>2. x.pc \in {"invoice", "post"} => x.draft \in Drafts /\ Decides(x, x.draft)
  BY DEF HandlerOK, Decides
<1> QED BY <1>1, <1>2 DEF Tied

\* The rows no handler's record speaks of keep their types.
RowsOK ==
  /\ window \subseteq Leads /\ pipe \in [Leads -> Pipe] /\ invoice \in [Invoices -> {"none", "open", "paid"}]
  /\ message \in [Messages -> [recorded : BOOLEAN, deliveries : 0..MaxDeliveries]] /\ mode \in Modes
  /\ requests \in 0..MaxRequests /\ restarts \in 0..MaxRestarts
  /\ posted \in [Drafts -> Nat] /\ deaf \subseteq Drafts /\ contested \subseteq Drafts
  /\ chased \in [Leads -> Nat] /\ twice \subseteq Messages /\ overlapped \in BOOLEAN

\* Every action leaves them so.
LEMMA RowsTyped ==
  ASSUME ChatShape, [Next]_vars
  PROVE  RowsOK'
<1>0. RowsOK /\ MaxRequests \in Nat /\ MaxRestarts \in Nat
  BY SalesAssumption DEF ChatShape, TypeOK, RowsOK
<1>1. ASSUME NEW h \in Handlers, \E m \in Messages : Deliver(h, m) PROVE RowsOK'
  <2>0. PICK m \in Messages : Deliver(h, m)
    BY <1>1
  <2>1. message[m] \in [recorded : BOOLEAN, deliveries : 0..MaxDeliveries] /\ message[m].deliveries < MaxDeliveries /\ MaxDeliveries \in Nat
    BY <1>0, <2>0, SalesAssumption DEF RowsOK, Deliver
  <2>2. [message[m] EXCEPT !.deliveries = @ + 1] \in [recorded : BOOLEAN, deliveries : 0..MaxDeliveries]
    BY <2>1
  <2>3. message' = [message EXCEPT ![m] = [message[m] EXCEPT !.deliveries = @ + 1]] /\ requests < MaxRequests /\ requests' = requests + 1
    BY <1>0, <2>0 DEF Deliver, Begin, RowsOK
  <2> QED BY <1>0, <2>0, <2>2, <2>3 DEF RowsOK, Deliver, history
<1>2. ASSUME NEW h \in Handlers, Record(h) PROVE RowsOK'
  <2>1. handler[h].msg \in Messages /\ handler[h].lead \in Leads
    BY <1>2 DEF ChatShape, HandlerOK, Record, At
  <2>2. message[handler[h].msg] \in [recorded : BOOLEAN, deliveries : 0..MaxDeliveries]
    BY <1>0, <2>1 DEF RowsOK
  <2>3. message' = [message EXCEPT ![handler[h].msg] = [message[handler[h].msg] EXCEPT !.recorded = TRUE]]
    BY <1>0, <1>2 DEF Record, RowsOK
  <2>4. [message[handler[h].msg] EXCEPT !.recorded = TRUE] \in [recorded : BOOLEAN, deliveries : 0..MaxDeliveries]
    BY <2>2
  <2> QED BY <1>0, <1>2, <2>1, <2>3, <2>4 DEF RowsOK, Record, Promote, history
<1>3. ASSUME NEW h \in Handlers, RecordDuplicate(h) PROVE RowsOK'
  <2>1. handler[h].msg \in Messages
    BY <1>3 DEF ChatShape, HandlerOK, RecordDuplicate, At
  <2> QED BY <1>0, <1>3, <2>1 DEF RowsOK, RecordDuplicate, rows
<1>4. ASSUME NEW h \in Handlers,
             RecordFails(h) \/ Load(h) \/ LoadFails(h) \/ Queue(h) \/ InvoiceFails(h) \/ PostFails(h) \/ \E l \in Leads : Chase(h, l)
      PROVE  RowsOK'
  BY <1>0, <1>4 DEF RowsOK, RecordFails, Load, LoadFails, Queue, InvoiceFails, PostFails, Chase, rows, history
<1>5. ASSUME NEW h \in Handlers, CreateInvoice(h) \/ Commit(h) PROVE RowsOK'
  <2>1. pipe' \in [Leads -> Pipe] /\ chased' \in [Leads -> Nat]
    BY <1>5, Settled DEF CreateInvoice, Commit
  <2>2. invoice' \in [Invoices -> {"none", "open", "paid"}]
    BY <1>0, <1>5 DEF RowsOK, CreateInvoice, Commit
  <2> QED BY <1>0, <1>5, <2>1, <2>2 DEF RowsOK, CreateInvoice, Commit
<1>6. ASSUME NEW h \in Handlers, Post(h) PROVE RowsOK'
  <2>1. handler[h].draft \in Drafts
    BY <1>6 DEF ChatShape, HandlerOK, Post, At
  <2>2. posted' = [posted EXCEPT ![handler[h].draft] = @ + 1] /\ deaf' \subseteq deaf \cup {handler[h].draft}
    BY <1>6 DEF Post
  <2>3. posted' \in [Drafts -> Nat] /\ deaf' \subseteq Drafts
    BY <1>0, <2>1, <2>2 DEF RowsOK
  <2> QED BY <1>0, <1>6, <2>3 DEF RowsOK, Post, rows
<1>7. ASSUME NEW h \in Handlers, Owner(h) \/ StartPass(h) PROVE RowsOK'
  <2>1. requests < MaxRequests /\ requests' = requests + 1
    BY <1>7 DEF Owner, Approve, Reject, RequestLink, MoveStage, StartPass, Begin
  <2>2. requests' \in 0..MaxRequests
    BY <1>0, <2>1 DEF RowsOK
  <2>3. CASE \E d \in Drafts : Approve(h, d) \/ Reject(h, d)
    BY <1>0, <2>2, <2>3 DEF RowsOK, Approve, Reject, Contest, rows
  <2>4. CASE \E l \in Leads : RequestLink(h, l) \/ \E s \in OwnerStages : MoveStage(h, l, s)
    BY <1>0, <2>2, <2>4 DEF RowsOK, RequestLink, MoveStage, rows, history
  <2>5. CASE StartPass(h)
    BY <1>0, <2>2, <2>5 DEF RowsOK, StartPass, rows
  <2> QED BY <1>7, <2>3, <2>4, <2>5 DEF Owner
<1>8. CASE \/ UNCHANGED vars \/ (\E m \in OwnerModes : SetMode(m)) \/ (\E i \in Invoices : PayInvoice(i))
           \/ (\E l \in Leads : WindowCloses(l)) \/ Restart
  <2>1. CASE UNCHANGED vars
    BY <1>0, <2>1 DEF RowsOK, vars
  <2>2. CASE \E m \in OwnerModes : SetMode(m)
    BY <1>0, <2>2, SalesAssumption DEF RowsOK, SetMode, rows, history
  <2>3. CASE \E i \in Invoices : PayInvoice(i)
    BY <1>0, <2>3 DEF RowsOK, PayInvoice, history
  <2>4. CASE \E l \in Leads : WindowCloses(l)
    BY <1>0, <2>4 DEF RowsOK, WindowCloses, history
  <2>5. CASE Restart
    <3>1. restarts' \in 0..MaxRestarts
      BY <1>0, <2>5 DEF RowsOK, Restart
    <3>2. \A l \in Leads : Severed(l) \in SUBSET Drafts
      BY DEF Severed, NewFollowups
    <3>3. \A S \in SUBSET Drafts : Cardinality(S) \in Nat
      BY Bounds, FS_Subset, FS_CardinalityType
    <3>4. \A l \in Leads : chased[l] + Cardinality(Severed(l)) \in Nat
      BY <1>0, <3>2, <3>3 DEF RowsOK
    <3>5. chased' \in [Leads -> Nat]
      BY <2>5, <3>4 DEF Restart
    <3> QED BY <1>0, <2>5, <3>1, <3>5 DEF RowsOK, Restart
  <2> QED BY <1>8, <2>1, <2>2, <2>3, <2>4, <2>5
<1>9. CASE \E l \in Leads : FollowupDue(l)
  <2>1. PICK l \in Leads : FollowupDue(l)
    BY <1>9
  <2>2. pipe[l] \in Pipe /\ pipe' = [pipe EXCEPT ![l] = [pipe[l] EXCEPT !.next = "due"]]
    BY <1>0, <2>1 DEF RowsOK, FollowupDue
  <2>3. [pipe[l] EXCEPT !.next = "due"] \in Pipe
    BY <2>2 DEF Pipe
  <2> QED BY <1>0, <2>1, <2>2, <2>3 DEF RowsOK, FollowupDue, history
<1> QED BY <1>1, <1>2, <1>3, <1>4, <1>5, <1>6, <1>7, <1>8, <1>9 DEF Next, Answering, Sending, Chasing

\* At the start nobody does anything.
LEMMA ChatShapeInit == Init => ChatShape
<1> SUFFICES ASSUME Init PROVE ChatShape
  OBVIOUS
<1>1. NoDraft \in Draft /\ NoDraft.status = "none"
  BY DEF NoDraft, Draft, Kinds
<1>2. [recorded |-> FALSE, deliveries |-> 0] \in [recorded : BOOLEAN, deliveries : 0..MaxDeliveries]
  BY Bounds
<1>3. handler = [h \in Handlers |-> Idle] /\ Idle \in Handler
  BY IdleFields DEF Init
<1>4. pipe \in [Leads -> Pipe] /\ draft \in [Drafts -> Draft] /\ (\A d \in Drafts : draft[d].status = "none")
  BY <1>1, NoPipeOK DEF Init
<1>5. TypeOK
  BY <1>2, <1>3, <1>4, Bounds DEF Init, TypeOK, Modes
<1> QED BY <1>3, <1>4, <1>5, IdleOK DEF ChatShape

\* A restart makes everybody idle and undoes what was open.
LEMMA RestartMove ==
  ASSUME ChatShape, Restart
  PROVE  /\ handler' = [h \in Handlers |-> Idle] /\ DraftsLast /\ optOut' = optOut
         /\ UNCHANGED <<pipe, message, posted, deaf, twice, overlapped>>
         /\ contested' = contested \cup {d \in Drafts : \E h \in Handlers : handler[h].wrote[d] \in {"sent", "failed"}}
         /\ \A d \in Drafts : /\ draft'[d].status = (IF draft[d].status = "open" THEN "undone" ELSE draft[d].status)
                              /\ draft'[d].msg = draft[d].msg
<1>0. draft \in [Drafts -> Draft] /\ \A d \in Drafts : draft[d].status # "none" => draft[d].lead \in Leads
  BY DEF ChatShape, TypeOK
<1>1. draft' = [d \in Drafts |-> IF draft[d].status = "open" THEN [draft[d] EXCEPT !.status = "undone"] ELSE draft[d]]
  BY DEF Restart
<1>2. ASSUME NEW d \in Drafts
      PROVE  /\ draft'[d] \in Draft /\ draft'[d].status = (IF draft[d].status = "open" THEN "undone" ELSE draft[d].status)
             /\ draft'[d].lead = draft[d].lead /\ draft'[d].kind = draft[d].kind /\ draft'[d].msg = draft[d].msg
  <2>1. draft[d] \in Draft /\ draft'[d] = IF draft[d].status = "open" THEN [draft[d] EXCEPT !.status = "undone"] ELSE draft[d]
    BY <1>0, <1>1
  <2> QED BY <2>1 DEF Draft
<1>3. draft' \in [Drafts -> Draft]
  BY <1>1, <1>2
<1>4. DraftsLast
  BY <1>0, <1>2, <1>3 DEF DraftsLast, Lasts
<1> QED BY <1>2, <1>4 DEF Restart

\* The shape lasts through every step.
LEMMA ChatShapeStep ==
  ASSUME ChatShape, [Next]_vars PROVE ChatShape'
<1>0. handler \in [Handlers -> Handler] /\ optOut \subseteq Leads /\ \A h \in Handlers : HandlerOK(handler[h]) /\ Tied(handler[h], draft, optOut)
  BY DEF ChatShape, TypeOK
<1>1. ASSUME handler' \in [Handlers -> Handler], optOut' \subseteq Leads, DraftsLast,
             \A h \in Handlers : HandlerOK(handler'[h]) /\ Tied(handler'[h], draft', optOut')
      PROVE  ChatShape'
  <2>1. TypeOK'
    BY <1>1, RowsTyped DEF TypeOK, RowsOK, DraftsLast
  <2>2. \A d \in Drafts : draft'[d].status # "none" => draft'[d].lead \in Leads
    BY <1>1 DEF DraftsLast
  <2> QED BY <1>1, <2>1, <2>2 DEF ChatShape
<1>2. CASE \E h \in Handlers : \E x : Moves(h, x)
  <2>1. PICK h \in Handlers : \E x : Moves(h, x)
    BY <1>2
  <2>2. PICK x : Moves(h, x)
    BY <2>1
  <2>3. /\ handler' = [handler EXCEPT ![h] = x] /\ HandlerOK(x) /\ Tied(x, draft', optOut')
        /\ optOut \subseteq optOut' /\ optOut' \subseteq Leads /\ DraftsLast /\ x \in Handler
    BY <2>2 DEF Moves, Go, HandlerOK
  <2>4. \A k \in Handlers : handler'[k] = IF k = h THEN x ELSE handler[k]
    BY <1>0, <2>3
  <2>5. \A k \in Handlers : HandlerOK(handler'[k]) /\ Tied(handler'[k], draft', optOut')
    <3>1. \A k \in Handlers : Tied(handler[k], draft', optOut')
      BY <1>0, <2>3, Stays
    <3> QED BY <1>0, <2>3, <2>4, <3>1
  <2> QED BY <1>0, <1>1, <2>3, <2>5
<1>3. CASE Waits
  <2>1. handler' = handler /\ draft' = draft /\ optOut' = optOut
    BY <1>3 DEF Waits
  <2> QED BY <1>0, <1>1, <2>1, Unwritten
<1>4. CASE Restart
  <2>1. handler' = [h \in Handlers |-> Idle] /\ DraftsLast /\ optOut' = optOut
    BY <1>4, RestartMove
  <2> QED BY <1>0, <1>1, <2>1, IdleOK, IdleFields
<1> QED BY <1>2, <1>3, <1>4, EveryMove

\* And therefore always.
LEMMA ChatShaped == Spec => []ChatShape
<1>1. ChatShape /\ [Next]_vars => ChatShape'
  BY ChatShapeStep
<1> QED BY <1>1, ChatShapeInit, PTL DEF Spec

\* The variables keep their types (smart_reply.py, lead_pipeline.py).
THEOREM ChatTypeCorrect == Spec => []TypeOK
<1>1. ChatShape => TypeOK
  BY DEF ChatShape
<1> QED BY <1>1, ChatShaped, PTL

-----------------------------------------------------------------------------
\* No step posts a text to a lead that had opted out before the request began.
LEMMA DeafStep ==
  ASSUME ChatShape, [Next]_vars PROVE deaf' = deaf
<1>1. ASSUME NEW h \in Handlers, NEW x, Moves(h, x) PROVE deaf' = deaf
  BY <1>1 DEF Moves, Begins, Takes, Records, Repeats, Drops, Holds, Goes, Stills, Writes, Chases, Invoiced, Judges, Finishes
<1>2. Waits => deaf' = deaf
  BY DEF Waits
<1>3. Restart => deaf' = deaf
  BY DEF Restart
<1> QED BY <1>1, <1>2, <1>3, EveryMove

\* A handler that begins after a lead opted out sends it no text (whatsapp_sender.py:13), for any
\* number of handlers, drafts and restarts.
THEOREM OptOutCorrect == Spec => []OptOutHonoured
<1>1. Init => OptOutHonoured
  BY DEF Init, OptOutHonoured
<1>2. OptOutHonoured /\ ChatShape /\ [Next]_vars => OptOutHonoured'
  BY DeafStep DEF OptOutHonoured
<1> QED BY <1>1, <1>2, ChatShaped, PTL DEF Spec

-----------------------------------------------------------------------------
\* A row stops being paid only by the commit of a handler that read it before.
LEMMA PaidStep ==
  ASSUME ChatShape, [Next]_vars, NEW l \in Leads, pipe[l].stage = "paid", pipe'[l].stage # "paid"
  PROVE  \E h \in Handlers : handler[h].was[l].stage # "paid" /\ handler[h].now[l].stage = pipe'[l].stage
<1>1. ASSUME NEW h \in Handlers, NEW x, Moves(h, x)
      PROVE  handler[h].was[l].stage # "paid" /\ handler[h].now[l].stage = pipe'[l].stage
  <2>1. Committing(h)
    BY <1>1 DEF Moves, Begins, Takes, Records, Repeats, Drops, Holds, Goes, Stills, Writes, Chases, Invoiced, Judges, Finishes
  <2>2. pipe'[l].stage = (IF handler[h].now[l].stage = handler[h].was[l].stage THEN pipe[l].stage ELSE handler[h].now[l].stage)
    BY <2>1, Settled
  <2>3. handler[h].was[l].stage = "paid" => handler[h].now[l].stage = "paid"
    BY DEF ChatShape, HandlerOK
  <2> QED BY <2>2, <2>3
<1>2. ~Waits
  BY DEF Waits
<1>3. ~Restart
  BY DEF Restart
<1> QED BY <1>1, <1>2, <1>3, EveryMove

\* "a paid customer never drops back" (set_stage, lead_pipeline.py:65), except by the commit of a
\* handler that had loaded the row before it was paid.
THEOREM PaidCorrect == Spec => PaidStaysPaid
<1>1. ChatShape /\ [Next]_vars =>
        [\A l \in Leads : pipe[l].stage = "paid" /\ pipe'[l].stage # "paid"
           => \E h \in Handlers : handler[h].was[l].stage # "paid" /\ handler[h].now[l].stage = pipe'[l].stage]_vars
  BY PaidStep
<1> QED BY <1>1, ChatShaped, PTL DEF Spec, PaidStaysPaid

-----------------------------------------------------------------------------
(* DecidedOnce: one handler decides a draft, and what it wrote of it agrees *)
(* with what the customer got.                                             *)

Deals(x, d, status, count) ==
  /\ status \in {"open", "pending"} /\ (Pass(x) => status = "open")
  /\ x.wrote[d] \in {"no", "pending", "rejected"} => count = 0
  /\ x.wrote[d] = "sent" => count = 1

DraftOK(d) ==
  /\ \A h, k \in Handlers : Decides(handler[h], d) /\ Decides(handler[k], d) => h = k
  /\ \A h \in Handlers : Decides(handler[h], d) => Deals(handler[h], d, draft[d].status, posted[d])
  /\ posted[d] <= 1 /\ (draft[d].status = "sent" => posted[d] = 1) /\ (draft[d].status = "rejected" => posted[d] = 0)
  /\ posted[d] = 0 \/ draft[d].status \notin {"none", "open", "pending"} \/ \E h \in Handlers : Decides(handler[h], d)

OnceInv == \A d \in Drafts \ contested : DraftOK(d)

\* A handler's move that does not touch the draft.
LEMMA Untouched ==
  ASSUME ChatShape, NEW h \in Handlers, NEW x, Go(h, x), NEW d \in Drafts, DraftOK(d),
         Decides(x, d) <=> Decides(handler[h], d),
         Decides(x, d) => x.wrote[d] = handler[h].wrote[d] /\ (Pass(x) => Pass(handler[h])),
         draft'[d].status = draft[d].status, posted'[d] = posted[d]
  PROVE  DraftOK(d)'
<1>1. \A k \in Handlers : handler'[k] = IF k = h THEN x ELSE handler[k]
  BY DEF Go, ChatShape, TypeOK
<1>2. \A k \in Handlers : Decides(handler'[k], d) <=> Decides(handler[k], d)
  BY <1>1
<1>3. ASSUME NEW k \in Handlers, Decides(handler'[k], d) PROVE Deals(handler'[k], d, draft'[d].status, posted'[d])
  <2>1. Decides(handler[k], d) /\ Deals(handler[k], d, draft[d].status, posted[d])
    BY <1>2, <1>3 DEF DraftOK
  <2> QED BY <1>1, <1>3, <2>1 DEF Deals
<1> QED BY <1>2, <1>3 DEF DraftOK

\* A move that does, when nobody else decides the draft.
LEMMA Touched ==
  ASSUME ChatShape, NEW h \in Handlers, NEW x, Go(h, x), NEW d \in Drafts,
         \A k \in Handlers : Decides(handler[k], d) => k = h,
         Decides(x, d) => Deals(x, d, draft'[d].status, posted'[d]),
         posted'[d] <= 1, draft'[d].status = "sent" => posted'[d] = 1, draft'[d].status = "rejected" => posted'[d] = 0,
         posted'[d] = 0 \/ draft'[d].status \notin {"none", "open", "pending"} \/ Decides(x, d)
  PROVE  DraftOK(d)'
<1>1. \A k \in Handlers : handler'[k] = IF k = h THEN x ELSE handler[k]
  BY DEF Go, ChatShape, TypeOK
<1> QED BY <1>1 DEF DraftOK

\* Every move keeps that of the drafts nobody contested.
LEMMA OnceStep ==
  ASSUME ChatShape, [Next]_vars, OnceInv PROVE OnceInv'
<1>0. /\ posted \in [Drafts -> Nat] /\ handler \in [Handlers -> Handler]
      /\ \A h \in Handlers : HandlerOK(handler[h]) /\ Tied(handler[h], draft, optOut)
  BY DEF ChatShape, TypeOK
<1>1. ASSUME NEW h \in Handlers, NEW x, Moves(h, x), NEW d \in Drafts, d \notin contested'
      PROVE  DraftOK(d)'
  <2> DEFINE o == handler[h]
  <2>0. /\ Go(h, x) /\ contested \subseteq contested' /\ HandlerOK(x) /\ HandlerOK(o) /\ Tied(o, draft, optOut)
    BY <1>0, <1>1 DEF Moves, Begins, Takes, Contest, Records, Repeats, Drops, Holds, Goes, Stills, Writes, Chases, Invoiced, Judges, Finishes
  <2>1. DraftOK(d) /\ posted[d] \in Nat
    BY <1>0, <1>1, <2>0 DEF OnceInv
  <2>2. ASSUME Begins(h, x) PROVE DraftOK(d)'
    <3>1. ~Decides(x, d) /\ ~Decides(o, d) /\ draft' = draft /\ posted' = posted
      BY <2>2, IdleFields, Bounds DEF Begins, Decides, Nothing
    <3> QED BY <2>0, <2>1, <3>1, Untouched
  <2>3. ASSUME NEW e \in Drafts, Takes(h, x, e) PROVE DraftOK(d)'
    <3>1. /\ draft' = draft /\ posted' = posted /\ o = Idle /\ ~Decides(o, d) /\ x.draft = e /\ ~Pass(x)
          /\ x.wrote \in {Nothing, [Nothing EXCEPT ![e] = "rejected"]}
      BY <2>3, IdleFields, Bounds DEF Takes, Decides, Nothing
    <3>2. CASE e # d
      <4>1. ~Decides(x, d)
        BY <3>1, <3>2 DEF Decides, Nothing
      <4> QED BY <2>0, <2>1, <3>1, <4>1, Untouched
    <3>3. CASE e = d
      <4>1. draft[d].status = "pending" /\ ~Deciding(d)
        BY <1>1, <2>3, <3>3 DEF Takes, Pending, Contest
      <4>2. ASSUME NEW k \in Handlers PROVE ~Decides(handler[k], d)
        <5>1. handler[k].draft # d
          BY <4>1 DEF Deciding
        <5>2. Decides(handler[k], d) => ~Pass(handler[k])
          BY <2>1, <4>1 DEF DraftOK, Deals
        <5>3. HandlerOK(handler[k])
          BY <1>0
        <5> QED BY <5>1, <5>2, <5>3 DEF HandlerOK, Decides
      <4>3. posted[d] = 0
        BY <2>1, <4>1, <4>2 DEF DraftOK
      <4>4. x.wrote[d] \in {"no", "rejected"}
        BY <3>1, <3>3 DEF Nothing
      <4>5. Deals(x, d, draft'[d].status, posted'[d])
        BY <3>1, <4>1, <4>3, <4>4 DEF Deals
      <4> QED BY <2>0, <3>1, <4>1, <4>2, <4>3, <4>5, Touched
    <3> QED BY <3>2, <3>3
  <2>4. ASSUME Goes(h, x) \/ (\E l \in Leads : Chases(h, x, l) /\ ~Writes(h, x)) PROVE DraftOK(d)'
    <3>1. x.draft = o.draft /\ x.wrote = o.wrote /\ draft' = draft /\ posted' = posted /\ (Pass(x) => Pass(o))
      BY <2>4 DEF Goes, Chases
    <3> QED BY <2>0, <2>1, <3>1, Untouched DEF Decides
  <2>5. ASSUME Writes(h, x) PROVE DraftOK(d)'
    <3>1. /\ o.pc \in {"queue", "scan"} /\ x.job = o.job /\ x.draft \in Drafts /\ x.wrote = [o.wrote EXCEPT ![x.draft] = "pending"]
          /\ draft[x.draft].status = "none" /\ draft'[x.draft].status = "open" /\ posted' = posted
          /\ \A e \in Drafts : e # x.draft => draft'[e] = draft[e]
      BY <2>5 DEF Writes
    <3>2. o.wrote \in [Drafts -> {"no", "pending", "sent", "failed", "rejected"}]
      BY <2>0, HandlerFields DEF HandlerOK
    <3>3. CASE d # x.draft
      <4>1. x.wrote[d] = o.wrote[d]
        BY <3>1, <3>2, <3>3
      <4>2. o.draft = d => o.wrote[d] # "no"
        BY <2>0, <3>1, Bounds DEF HandlerOK
      <4>3. Decides(x, d) <=> Decides(o, d)
        BY <3>3, <4>1, <4>2 DEF Decides
      <4> QED BY <2>0, <2>1, <3>1, <3>3, <4>1, <4>3, Untouched DEF Pass
    <3>4. CASE d = x.draft
      <4>1. \A k \in Handlers : ~Decides(handler[k], d)
        BY <1>0, <3>1, <3>4 DEF Tied
      <4>2. posted[d] = 0 /\ x.wrote[d] = "pending"
        BY <2>1, <3>1, <3>2, <3>4, <4>1 DEF DraftOK
      <4>3. Deals(x, d, draft'[d].status, posted'[d])
        BY <3>1, <3>4, <4>2 DEF Deals
      <4> QED BY <2>0, <3>1, <3>4, <4>1, <4>2, <4>3, Touched
    <3> QED BY <3>3, <3>4
  <2>6. ASSUME Invoiced(h, x) PROVE DraftOK(d)'
    <3>1. /\ x.draft = o.draft /\ x.wrote = o.wrote /\ ~Pass(x) /\ ~Pass(o) /\ Committing(h) /\ posted' = posted /\ o.pc = "invoice"
      BY <2>6 DEF Invoiced
    <3>2. draft'[d].status = (IF o.wrote[d] = "no" THEN draft[d].status ELSE o.wrote[d])
      BY <3>1, Settled
    <3>3. CASE o.wrote[d] = "no"
      BY <2>0, <2>1, <3>1, <3>2, <3>3, Untouched DEF Decides
    <3>4. CASE o.wrote[d] # "no"
      <4>1. Decides(o, d) /\ Decides(x, d) /\ o.draft = d
        BY <2>0, <3>1, <3>4 DEF Decides, HandlerOK
      <4>2. o.wrote[d] = "pending"
        BY <2>0, <3>1, <3>4, <4>1 DEF HandlerOK
      <4>3. \A k \in Handlers : Decides(handler[k], d) => k = h
        BY <2>1, <4>1 DEF DraftOK
      <4>4. posted[d] = 0
        BY <2>1, <4>1, <4>2 DEF DraftOK, Deals
      <4>5. Deals(x, d, draft'[d].status, posted'[d])
        BY <3>1, <3>2, <4>2, <4>4 DEF Deals
      <4> QED BY <2>0, <3>1, <3>2, <4>1, <4>2, <4>3, <4>4, <4>5, Touched
    <3> QED BY <3>3, <3>4
  <2>7. ASSUME Judges(h, x) PROVE DraftOK(d)'
    <3>1. /\ o.pc \in {"invoice", "post"} /\ o.draft \in Drafts /\ x.draft = o.draft /\ x.job = o.job /\ draft' = draft
          /\ \/ x.wrote = [o.wrote EXCEPT ![o.draft] = "failed"] /\ posted' \in {posted, [posted EXCEPT ![o.draft] = @ + 1]}
             \/ x.wrote = [o.wrote EXCEPT ![o.draft] = "sent"] /\ posted' = [posted EXCEPT ![o.draft] = @ + 1]
      BY <2>7 DEF Judges
    <3>2. o.wrote \in [Drafts -> {"no", "pending", "sent", "failed", "rejected"}]
      BY <2>0, HandlerFields DEF HandlerOK
    <3>3. CASE d # o.draft
      <4>1. x.wrote[d] = o.wrote[d] /\ posted'[d] = posted[d]
        BY <1>0, <3>1, <3>2, <3>3
      <4> QED BY <2>0, <2>1, <3>1, <3>3, <4>1, Untouched DEF Decides, Pass
    <3>4. CASE d = o.draft
      <4>1. Decides(o, d) /\ Decides(x, d) /\ o.wrote[d] \in {"no", "pending"}
        BY <2>0, <3>1, <3>4 DEF Decides, HandlerOK
      <4>2. /\ \A k \in Handlers : Decides(handler[k], d) => k = h
            /\ Deals(o, d, draft[d].status, posted[d])
        BY <2>1, <4>1 DEF DraftOK
      <4>3. posted[d] = 0
        BY <4>1, <4>2 DEF Deals
      <4>4. \/ x.wrote[d] = "failed" /\ posted'[d] \in {0, 1}
            \/ x.wrote[d] = "sent" /\ posted'[d] = 1
        BY <1>0, <3>1, <3>2, <3>4, <4>3
      <4>5. Deals(x, d, draft'[d].status, posted'[d])
        BY <3>1, <4>2, <4>4 DEF Deals, Pass
      <4> QED BY <2>0, <4>1, <4>2, <4>4, <4>5, Touched DEF Deals
    <3> QED BY <3>3, <3>4
  <2>8. ASSUME Finishes(h, x) PROVE DraftOK(d)'
    <3>1. x = Idle /\ Committing(h) /\ posted' = posted /\ ~Decides(x, d) /\ ~Pass(x)
      BY <2>8, IdleFields, Bounds, SalesAssumption DEF Finishes, Decides, Nothing, Pass, AllJobs
    <3>2. draft'[d].status = (IF o.wrote[d] = "no" THEN draft[d].status ELSE o.wrote[d])
      BY <3>1, Settled
    <3>3. CASE ~Decides(o, d)
      BY <2>0, <2>1, <3>1, <3>2, <3>3, Untouched DEF Decides
    <3>4. CASE Decides(o, d)
      <4>1. /\ \A k \in Handlers : Decides(handler[k], d) => k = h
            /\ Deals(o, d, draft[d].status, posted[d]) /\ posted[d] <= 1
        BY <2>1, <3>4 DEF DraftOK
      <4>2. o.wrote[d] \in {"no", "pending", "sent", "failed", "rejected"}
        BY <2>0, HandlerFields DEF HandlerOK
      <4>3. /\ posted'[d] <= 1 /\ (draft'[d].status = "sent" => posted'[d] = 1) /\ (draft'[d].status = "rejected" => posted'[d] = 0)
            /\ posted'[d] = 0 \/ draft'[d].status \notin {"none", "open", "pending"}
        BY <3>1, <3>2, <4>1, <4>2 DEF Deals
      <4> QED BY <2>0, <3>1, <4>1, <4>3, Touched
    <3> QED BY <3>3, <3>4
  <2> QED BY <1>1, <2>2, <2>3, <2>4, <2>5, <2>6, <2>7, <2>8 DEF Moves, Records, Repeats, Drops, Holds, Stills
<1>2. CASE Waits
  <2>1. handler' = handler /\ draft' = draft /\ posted' = posted /\ contested' = contested
    BY <1>2 DEF Waits
  <2> QED BY <2>1 DEF OnceInv, DraftOK
<1>3. CASE Restart
  <2>1. /\ handler' = [h \in Handlers |-> Idle] /\ posted' = posted
        /\ contested' = contested \cup {d \in Drafts : \E h \in Handlers : handler[h].wrote[d] \in {"sent", "failed"}}
        /\ \A d \in Drafts : draft'[d].status = (IF draft[d].status = "open" THEN "undone" ELSE draft[d].status)
    BY <1>3, RestartMove
  <2>2. ASSUME NEW d \in Drafts, d \notin contested' PROVE DraftOK(d)'
    <3>1. DraftOK(d) /\ \A h \in Handlers : handler[h].wrote[d] \notin {"sent", "failed"}
      BY <2>1, <2>2 DEF OnceInv
    <3>2. \A h \in Handlers : handler[h].wrote[d] \in {"no", "pending", "rejected"}
      BY <1>0, <3>1, HandlerFields
    <3>3. \A h \in Handlers : ~Decides(handler'[h], d)
      BY <2>1, IdleFields, Bounds DEF Decides, Nothing
    <3>4. posted[d] = 0 \/ draft[d].status \notin {"none", "open", "pending"}
      BY <3>1, <3>2 DEF DraftOK, Deals
    <3> QED BY <2>1, <3>1, <3>3, <3>4 DEF DraftOK
  <2> QED BY <2>2 DEF OnceInv
<1> QED BY <1>1, <1>2, <1>3, EveryMove DEF OnceInv

\* A draft nobody else was deciding reaches the customer at most once, once when it says sent and
\* never when it was rejected (_pending, _send_draft: smart_reply.py:425).
THEOREM OnceCorrect == Spec => []DecidedOnce
<1>1. Init => OnceInv
  <2> SUFFICES ASSUME Init, NEW d \in Drafts PROVE DraftOK(d)
    BY DEF OnceInv
  <2>1. \A h \in Handlers : ~Decides(handler[h], d)
    BY IdleFields, Bounds DEF Init, Decides, Nothing
  <2>2. posted[d] = 0 /\ draft[d].status = "none"
    BY DEF Init, NoDraft
  <2> QED BY <2>1, <2>2 DEF DraftOK
<1>2. OnceInv /\ ChatShape /\ [Next]_vars => OnceInv'
  BY OnceStep
<1>3. OnceInv => DecidedOnce
  BY DEF OnceInv, DraftOK, DecidedOnce
<1> QED BY <1>1, <1>2, <1>3, ChatShaped, PTL DEF Spec

-----------------------------------------------------------------------------
(* AnsweredOnce: a message not taken for new twice has one handler on its  *)
(* way to answering it, or one draft, and is recorded.                     *)

Carries(x, m) == x.pc \in {"load", "queue"} /\ x.msg = m

MessageOK(m) ==
  /\ \A h, k \in Handlers : Carries(handler[h], m) /\ Carries(handler[k], m) => h = k
  /\ \A h \in Handlers, d \in Drafts : Carries(handler[h], m) => draft[d].msg # m
  /\ \A d, e \in Drafts : draft[d].msg = m /\ draft[e].msg = m => d = e
  /\ \A h \in Handlers : Carries(handler[h], m) => message[m].recorded
  /\ \A d \in Drafts : draft[d].msg = m => message[m].recorded

AnswerInv == \A m \in Messages \ twice : MessageOK(m)

\* A handler's move that neither takes up the message nor writes its draft.
LEMMA Unanswered ==
  ASSUME ChatShape, NEW h \in Handlers, NEW x, Go(h, x), NEW m \in Messages, MessageOK(m),
         Carries(x, m) => Carries(handler[h], m), \A d \in Drafts : draft'[d].msg = m => draft[d].msg = m,
         message[m].recorded => message'[m].recorded
  PROVE  MessageOK(m)'
<1>1. \A k \in Handlers : handler'[k] = IF k = h THEN x ELSE handler[k]
  BY DEF Go, ChatShape, TypeOK
<1>2. \A k \in Handlers : Carries(handler'[k], m) => Carries(handler[k], m)
  BY <1>1
<1> QED BY <1>2 DEF MessageOK

\* Only the recording of a message, or finding it recorded by another delivery, sets one on it.
LEMMA AnswerStep ==
  ASSUME ChatShape, [Next]_vars, AnswerInv PROVE AnswerInv'
<1>0. /\ handler \in [Handlers -> Handler] /\ message \in [Messages -> [recorded : BOOLEAN, deliveries : 0..MaxDeliveries]]
      /\ \A h \in Handlers : HandlerOK(handler[h])
  BY DEF ChatShape, TypeOK
<1>1. ASSUME NEW h \in Handlers, NEW x, Moves(h, x), NEW m \in Messages, m \notin twice'
      PROVE  MessageOK(m)'
  <2> DEFINE o == handler[h]
  <2>0. /\ Go(h, x) /\ twice \subseteq twice' /\ HandlerOK(o) /\ None # m
    BY <1>0, <1>1, SalesAssumption DEF Moves, Begins, Takes, Records, Repeats, Drops, Holds, Goes, Stills, Writes, Chases, Invoiced, Judges, Finishes
  <2>1. MessageOK(m)
    BY <1>1, <2>0 DEF AnswerInv
  <2>2. ASSUME Begins(h, x) \/ (\E d \in Drafts : Takes(h, x, d)) \/ Judges(h, x) \/ (\E l \in Leads : Chases(h, x, l) /\ ~Writes(h, x))
        PROVE  MessageOK(m)'
    <3>1. ~Carries(x, m) /\ draft' = draft /\ message'[m].recorded = message[m].recorded
      BY <2>0, <2>2 DEF Begins, Takes, Judges, Chases, Carries
    <3> QED BY <2>0, <2>1, <3>1, Unanswered
  <2>3. ASSUME Records(h, x) PROVE MessageOK(m)'
    <3> DEFINE n == o.msg
    <3>1. /\ n \in Messages /\ x.msg = n /\ draft' = draft /\ ~message[n].recorded /\ message' = [message EXCEPT ![n].recorded = TRUE]
      BY <2>3 DEF Records, Goes
    <3>2. CASE n # m
      <4>1. ~Carries(x, m) /\ message'[m] = message[m]
        BY <1>0, <3>1, <3>2 DEF Carries
      <4> QED BY <2>0, <2>1, <3>1, <4>1, Unanswered
    <3>3. CASE n = m
      <4>1. (\A k \in Handlers : ~Carries(handler[k], m)) /\ \A d \in Drafts : draft[d].msg # m
        BY <2>1, <3>1, <3>3 DEF MessageOK
      <4>2. message'[m].recorded
        <5>1. message[m] \in [recorded : BOOLEAN, deliveries : 0..MaxDeliveries]
          BY <1>0
        <5> QED BY <1>0, <3>1, <3>3, <5>1
      <4>3. \A k \in Handlers : handler'[k] = IF k = h THEN x ELSE handler[k]
        BY <1>0, <2>0 DEF Go
      <4>4. \A k \in Handlers : Carries(handler'[k], m) => k = h
        BY <4>1, <4>3
      <4> QED BY <3>1, <4>1, <4>2, <4>4 DEF MessageOK
    <3> QED BY <3>2, <3>3
  <2>4. ASSUME Repeats(h, x) PROVE MessageOK(m)'
    <3>1. ~Carries(x, m) /\ draft' = draft /\ message' = message
      BY <1>1, <2>4 DEF Repeats, Goes, Carries
    <3> QED BY <2>0, <2>1, <3>1, Unanswered
  <2>5. ASSUME Drops(h, x) \/ Holds(h, x) \/ Stills(h, x) PROVE MessageOK(m)'
    <3>1. (Carries(x, m) => Carries(o, m)) /\ draft' = draft /\ message' = message
      BY <2>5, IdleFields DEF Drops, Holds, Stills, Goes, Carries
    <3> QED BY <2>0, <2>1, <3>1, Unanswered
  <2>6. ASSUME Writes(h, x) PROVE MessageOK(m)'
    <3>1. /\ x.draft \in Drafts /\ x.job = o.job /\ o.pc \in {"queue", "scan"} /\ ~Carries(x, m) /\ message' = message
          /\ \A d \in Drafts : d # x.draft => draft'[d] = draft[d]
          /\ draft'[x.draft].msg = None \/ (draft'[x.draft].msg = o.msg /\ ~Pass(o))
      BY <2>6 DEF Writes, Carries, Pass
    <3>2. CASE draft'[x.draft].msg # m
      <4>1. \A d \in Drafts : draft'[d].msg = m => draft[d].msg = m
        BY <3>1, <3>2
      <4> QED BY <2>0, <2>1, <3>1, <4>1, Unanswered
    <3>3. CASE draft'[x.draft].msg = m
      <4>1. Carries(o, m)
        BY <2>0, <3>1, <3>3 DEF Carries, HandlerOK
      <4>2. /\ \A k \in Handlers : Carries(handler[k], m) => k = h
            /\ \A d \in Drafts : draft[d].msg # m
            /\ message[m].recorded
        BY <2>1, <4>1 DEF MessageOK
      <4>3. \A k \in Handlers : handler'[k] = IF k = h THEN x ELSE handler[k]
        BY <1>0, <2>0 DEF Go
      <4>4. \A k \in Handlers : ~Carries(handler'[k], m)
        BY <3>1, <4>2, <4>3
      <4>5. \A d \in Drafts : draft'[d].msg = m => d = x.draft
        BY <3>1, <4>2
      <4> QED BY <3>1, <4>2, <4>4, <4>5 DEF MessageOK
    <3> QED BY <3>2, <3>3
  <2>7. ASSUME Invoiced(h, x) \/ Finishes(h, x) PROVE MessageOK(m)'
    <3>1. Committing(h) /\ message' = message /\ ~Carries(x, m)
      BY <2>7, IdleFields DEF Invoiced, Finishes, Carries
    <3>2. \A d \in Drafts : draft'[d].msg = draft[d].msg
      BY <3>1, Settled
    <3> QED BY <2>0, <2>1, <3>1, <3>2, Unanswered
  <2> QED BY <1>1, <2>2, <2>3, <2>4, <2>5, <2>6, <2>7 DEF Moves
<1>2. CASE Waits
  <2>1. handler' = handler /\ draft' = draft /\ message' = message /\ twice' = twice
    BY <1>2 DEF Waits
  <2> QED BY <2>1 DEF AnswerInv, MessageOK
<1>3. CASE Restart
  <2>1. /\ handler' = [h \in Handlers |-> Idle] /\ message' = message /\ twice' = twice
        /\ \A d \in Drafts : draft'[d].msg = draft[d].msg
    BY <1>3, RestartMove
  <2>2. ASSUME NEW m \in Messages, m \notin twice' PROVE MessageOK(m)'
    <3>1. MessageOK(m) /\ \A h \in Handlers : ~Carries(handler'[h], m)
      BY <2>1, <2>2, IdleFields DEF AnswerInv, Carries
    <3> QED BY <2>1, <3>1 DEF MessageOK
  <2> QED BY <2>2 DEF AnswerInv
<1> QED BY <1>1, <1>2, <1>3, EveryMove DEF AnswerInv

\* A redelivered message is not answered again (tests/test_smart_automation.py:215), unless it was
\* committed between the two lookups of the second delivery.
THEOREM AnswersCorrect == Spec => []AnsweredOnce
<1>1. Init => AnswerInv
  <2> SUFFICES ASSUME Init, NEW m \in Messages PROVE MessageOK(m)
    BY DEF AnswerInv
  <2>1. \A h \in Handlers : ~Carries(handler[h], m)
    BY IdleFields DEF Init, Carries
  <2>2. \A d \in Drafts : draft[d].msg # m
    BY SalesAssumption DEF Init, NoDraft
  <2> QED BY <2>1, <2>2 DEF MessageOK
<1>2. AnswerInv /\ ChatShape /\ [Next]_vars => AnswerInv'
  BY AnswerStep
<1>3. AnswerInv /\ ChatShape => AnsweredOnce
  <2> SUFFICES ASSUME AnswerInv, ChatShape, NEW d \in Drafts, NEW e \in Drafts, draft[d].msg # None, draft[d].msg = draft[e].msg,
                      draft[d].msg \notin twice
               PROVE  d = e
    BY DEF AnsweredOnce
  <2>1. draft[d] \in Draft
    BY DEF ChatShape, TypeOK
  <2>2. draft[d].msg \in Messages
    BY <2>1 DEF Draft
  <2>3. MessageOK(draft[d].msg)
    BY <2>2 DEF AnswerInv
  <2> QED BY <2>3 DEF MessageOK
<1> QED BY <1>1, <1>2, <1>3, ChatShaped, PTL DEF Spec

-----------------------------------------------------------------------------
(* FollowupsBounded: what was sent of a lead's follow-ups is within the    *)
(* count of its row and the restarts; a pass has counted what it wrote and *)
(* not committed, one follow-up of a lead, so that a restart loses one.    *)

Has(x, d, l, drafts) == x.wrote[d] # "no" /\ drafts[d].lead = l

\* A pass has counted what it wrote for a lead, once, and what was sent before is within the
\* count it read, but for what was cut off.
PassOK(x, l, drafts, sent, cuts) ==
  \/ /\ x.now[l].followups = x.was[l].followups /\ \A d \in Drafts : ~Has(x, d, l, drafts)
     /\ l \in x.todo => sent <= x.was[l].followups + cuts
  \/ /\ l \notin x.todo /\ x.now[l].followups = x.was[l].followups + 1 /\ sent <= x.was[l].followups + cuts
     /\ \A d, e \in Drafts : Has(x, d, l, drafts) /\ Has(x, e, l, drafts) => d = e

\* Unless two passes ran at once.
CountsOK ==
  /\ \A h, k \in Handlers : Pass(handler[h]) /\ Pass(handler[k]) => h = k
  /\ \A l \in Leads : chased[l] <= pipe[l].followups + restarts
  /\ \A h \in Handlers : Pass(handler[h]) => \A l \in Leads : PassOK(handler[h], l, draft, chased[l], restarts)

CountInv == overlapped \/ CountsOK

\* A set whose members are the same has at most one.
LEMMA AtMostOne ==
  ASSUME NEW S, S \subseteq Drafts, \A d, e \in S : d = e
  PROVE  Cardinality(S) \in {0, 1} /\ (S = {} => Cardinality(S) = 0)
<1>1. Cardinality({}) = 0
  BY FS_EmptySet
<1>2. CASE S # {}
  <2>1. PICK d : S = {d}
    BY <1>2
  <2> QED BY <1>2, <2>1, FS_Singleton
<1> QED BY <1>1, <1>2

\* A pass other than the one that moves is as it was.
LEMMA PassLasts ==
  ASSUME ChatShape, NEW x, HandlerOK(x), Tied(x, draft, optOut), NEW l \in Leads, DraftsLast,
         chased[l] \in Nat, chased'[l] \in Nat, chased'[l] <= chased[l], PassOK(x, l, draft, chased[l], restarts)
  PROVE  PassOK(x, l, draft', chased'[l], restarts)
<1>1. \A d \in Drafts : Has(x, d, l, draft') => Has(x, d, l, draft)
  BY DEF Tied, Decides, DraftsLast, Lasts, Has
<1>2. x.was[l].followups \in Nat /\ restarts \in Nat
  <2>1. x.was[l] \in Pipe
    BY HandlerFields DEF HandlerOK
  <2> QED BY <2>1, SalesAssumption DEF Pipe, ChatShape, TypeOK
<1> QED BY <1>1, <1>2 DEF PassOK

\* Whoever commits without being a pass leaves the counts in their bounds.
LEMMA RequestCommits ==
  ASSUME ChatShape, NEW h \in Handlers, Committing(h), ~Pass(handler[h]), NEW l \in Leads, chased[l] <= pipe[l].followups + restarts
  PROVE  chased'[l] <= pipe'[l].followups + restarts /\ chased'[l] <= chased[l]
<1> DEFINE o == handler[h]
<1>0. HandlerOK(o) /\ Tied(o, draft, optOut) /\ chased[l] \in Nat /\ pipe[l] \in Pipe /\ restarts \in Nat
  BY SalesAssumption DEF ChatShape, TypeOK
<1>1. NewFollowups(h, l) = {}
  BY <1>0 DEF NewFollowups, Tied, Decides
<1>2. Cardinality(NewFollowups(h, l)) = 0
  BY <1>1, FS_EmptySet
<1>3. o.was[l] \in Pipe /\ o.now[l] \in Pipe
  BY <1>0, HandlerFields DEF HandlerOK
<1>4. /\ o.was[l].followups \in Nat /\ o.now[l].followups \in Nat /\ pipe[l].followups \in Nat
      /\ o.now[l].followups \in {o.was[l].followups, 0}
  BY <1>0, <1>3, SalesAssumption DEF Pipe, HandlerOK, Eases
<1>5. /\ pipe'[l].followups = (IF o.now[l].followups = o.was[l].followups THEN pipe[l].followups ELSE o.now[l].followups)
      /\ chased'[l] = (IF Resets(h, l) THEN 0 ELSE chased[l] + Cardinality(NewFollowups(h, l)))
  BY Settled
<1>6. Resets(h, l) <=> o.now[l].followups = 0 /\ o.was[l].followups # 0
  BY DEF Resets
<1> HIDE DEF o
<1> QED BY <1>0, <1>2, <1>4, <1>5, <1>6

\* And so does a pass that ends.
LEMMA PassCommits ==
  ASSUME ChatShape, NEW h \in Handlers, Committing(h), Pass(handler[h]), handler[h].todo = {}, NEW l \in Leads,
         chased[l] <= pipe[l].followups + restarts, PassOK(handler[h], l, draft, chased[l], restarts)
  PROVE  chased'[l] <= pipe'[l].followups + restarts
<1> DEFINE o == handler[h]
           S == NewFollowups(h, l)
<1>0. HandlerOK(o) /\ chased[l] \in Nat /\ pipe[l] \in Pipe /\ restarts \in Nat
  BY SalesAssumption DEF ChatShape, TypeOK
<1>1. S \subseteq Drafts /\ \A d \in S : Has(o, d, l, draft)
  BY DEF NewFollowups, Has
<1>2. o.was[l] \in Pipe /\ o.now[l] \in Pipe
  BY <1>0, HandlerFields DEF HandlerOK
<1>3. o.was[l].followups \in Nat /\ o.now[l].followups \in Nat /\ pipe[l].followups \in Nat
  BY <1>0, <1>2, SalesAssumption DEF Pipe
<1>4. /\ pipe'[l].followups = (IF o.now[l].followups = o.was[l].followups THEN pipe[l].followups ELSE o.now[l].followups)
      /\ chased'[l] = (IF Resets(h, l) THEN 0 ELSE chased[l] + Cardinality(S))
  BY Settled
<1>5. Resets(h, l) <=> o.now[l].followups = 0 /\ o.was[l].followups # 0
  BY DEF Resets
<1>6. PassOK(o, l, draft, chased[l], restarts)
  OBVIOUS
<1>7. \A d, e \in S : d = e
  BY <1>1, <1>6 DEF PassOK
<1>8. Cardinality(S) \in {0, 1} /\ (S = {} => Cardinality(S) = 0)
  BY <1>1, <1>7, AtMostOne
<1> HIDE DEF o, S
<1>9. CASE o.now[l].followups = o.was[l].followups /\ \A d \in Drafts : ~Has(o, d, l, draft)
  <2>1. S = {}
    BY <1>1, <1>9
  <2> QED BY <1>0, <1>3, <1>4, <1>5, <1>8, <1>9, <2>1
<1>10. CASE o.now[l].followups = o.was[l].followups + 1 /\ chased[l] <= o.was[l].followups + restarts
  BY <1>0, <1>3, <1>4, <1>5, <1>8, <1>10
<1> QED BY <1>6, <1>9, <1>10 DEF PassOK

\* A move keeps the counts if the handler that moves does.
LEMMA CountsLast ==
  ASSUME ChatShape, NEW h \in Handlers, NEW x, Go(h, x), CountsOK, DraftsLast, chased' \in [Leads -> Nat], restarts' = restarts,
         \/ \A l \in Leads : chased'[l] <= chased[l]
         \/ \A k \in Handlers \ {h} : ~Pass(handler[k]),
         \A l \in Leads : chased'[l] <= pipe'[l].followups + restarts,
         Pass(x) => /\ \A k \in Handlers \ {h} : ~Pass(handler[k])
                    /\ \A l \in Leads : PassOK(x, l, draft', chased'[l], restarts)
  PROVE  CountsOK'
<1>1. \A k \in Handlers : handler'[k] = IF k = h THEN x ELSE handler[k]
  BY DEF Go, ChatShape, TypeOK
<1>2. \A k, j \in Handlers : Pass(handler'[k]) /\ Pass(handler'[j]) => k = j
  BY <1>1 DEF CountsOK
<1>3. ASSUME NEW k \in Handlers, Pass(handler'[k]), NEW l \in Leads PROVE PassOK(handler'[k], l, draft', chased'[l], restarts)
  <2>1. CASE k = h
    BY <1>1, <1>3, <2>1
  <2>2. CASE k # h
    <3>1. handler'[k] = handler[k] /\ Pass(handler[k]) /\ PassOK(handler[k], l, draft, chased[l], restarts)
      BY <1>1, <1>3, <2>2 DEF CountsOK
    <3>2. chased'[l] <= chased[l] /\ chased[l] \in Nat /\ chased'[l] \in Nat
      BY <2>2, <3>1 DEF ChatShape, TypeOK
    <3>3. HandlerOK(handler[k]) /\ Tied(handler[k], draft, optOut)
      BY DEF ChatShape
    <3> QED BY <3>1, <3>2, <3>3, PassLasts
  <2> QED BY <2>1, <2>2
<1> QED BY <1>2, <1>3 DEF CountsOK

\* A pass that looks at a lead counts what it writes for it.
LEMMA ChasedOK ==
  ASSUME ChatShape, NEW h \in Handlers, NEW x, HandlerOK(x), NEW l \in Leads, Chases(h, x, l), CountsOK, NEW k \in Leads
  PROVE  PassOK(x, k, draft', chased[k], restarts)
<1> DEFINE o == handler[h]
<1>0. HandlerOK(o) /\ Tied(o, draft, optOut) /\ Pass(o) /\ chased[k] \in Nat
  BY DEF ChatShape, TypeOK, Chases
<1>1. /\ o.was \in [Leads -> Pipe] /\ o.now \in [Leads -> Pipe]
      /\ o.wrote \in [Drafts -> {"no", "pending", "sent", "failed", "rejected"}]
  BY <1>0, HandlerFields DEF HandlerOK
<1>2. PassOK(o, k, draft, chased[k], restarts)
  BY <1>0 DEF CountsOK
<1>3. PICK q \in Pipe : /\ x.now = [o.now EXCEPT ![l] = q]
                        /\ Counts(o.now[l], q) \/ (Keeps(o.now[l], q) /\ x.wrote = o.wrote)
  BY DEF Chases
<1>4. l \in o.todo /\ x.todo = o.todo \ {l} /\ x.was = o.was /\ x.lead = l
  BY DEF Chases
<1>5. /\ \A d \in Drafts : Has(x, d, k, draft') => Has(o, d, k, draft) \/ (k = l /\ d = x.draft)
      /\ x.wrote # o.wrote \/ \A d \in Drafts : Has(x, d, k, draft') => Has(o, d, k, draft)
  <2>1. CASE Writes(h, x)
    <3>1. /\ x.draft \in Drafts /\ x.wrote = [o.wrote EXCEPT ![x.draft] = "pending"] /\ draft'[x.draft].lead = l
          /\ draft[x.draft].status = "none" /\ \A d \in Drafts : d # x.draft => draft'[d] = draft[d]
      BY <1>4, <2>1 DEF Writes
    <3>2. o.wrote[x.draft] = "no"
      BY <1>0, <3>1 DEF Tied, Decides
    <3>3. x.wrote[x.draft] = "pending" /\ \A d \in Drafts : d # x.draft => x.wrote[d] = o.wrote[d]
      BY <1>1, <3>1
    <3> QED BY <3>1, <3>2, <3>3 DEF Has
  <2>2. CASE ~Writes(h, x)
    <3>1. x.wrote = o.wrote /\ draft' = draft
      BY <2>2 DEF Chases
    <3> QED BY <3>1 DEF Has
  <2> QED BY <2>1, <2>2
<1> HIDE DEF o
<1>6. CASE k # l
  <2>1. x.now[k] = o.now[k] /\ x.was[k] = o.was[k] /\ (k \in x.todo <=> k \in o.todo)
    BY <1>1, <1>3, <1>4, <1>6
  <2> QED BY <1>2, <1>5, <1>6, <2>1 DEF PassOK
<1>7. CASE k = l
  <2>1. /\ o.now[l].followups = o.was[l].followups /\ (\A d \in Drafts : ~Has(o, d, l, draft)) /\ chased[l] <= o.was[l].followups + restarts
    BY <1>2, <1>4, <1>7 DEF PassOK
  <2>2. x.now[l] = q /\ x.was[l] = o.was[l] /\ l \notin x.todo
    BY <1>1, <1>3, <1>4
  <2>3. CASE Counts(o.now[l], q)
    BY <1>5, <1>7, <2>1, <2>2, <2>3 DEF PassOK, Counts
  <2>4. CASE Keeps(o.now[l], q) /\ x.wrote = o.wrote
    BY <1>5, <1>7, <2>1, <2>2, <2>4 DEF PassOK, Keeps
  <2> QED BY <1>3, <2>3, <2>4
<1> QED BY <1>6, <1>7

\* A restart cuts off one follow-up of a lead at most: there is one pass, which wrote one.
LEMMA CutOnce ==
  ASSUME ChatShape, CountsOK, NEW l \in Leads PROVE Cardinality(Severed(l)) \in {0, 1}
<1> DEFINE S == Severed(l)
<1>1. ASSUME NEW h \in Handlers, NEW d \in NewFollowups(h, l) PROVE Pass(handler[h]) /\ Has(handler[h], d, l, draft) /\ d \in Drafts
  BY <1>1 DEF NewFollowups, Has, ChatShape, Tied, Decides
<1>2. \A d \in S : \E h \in Handlers : d \in NewFollowups(h, l)
  BY DEF Severed
<1>3. S \subseteq Drafts
  BY <1>1, <1>2
<1>4. ASSUME NEW d \in S, NEW e \in S PROVE d = e
  <2>1. PICK h \in Handlers : d \in NewFollowups(h, l)
    BY <1>2
  <2>2. PICK k \in Handlers : e \in NewFollowups(k, l)
    BY <1>2
  <2>3. h = k
    BY <1>1, <2>1, <2>2 DEF CountsOK
  <2>4. PassOK(handler[h], l, draft, chased[l], restarts)
    BY <1>1, <2>1 DEF CountsOK
  <2> QED BY <1>1, <2>1, <2>2, <2>3, <2>4 DEF PassOK
<1> HIDE DEF S
<1>5. Cardinality(S) \in {0, 1}
  BY <1>3, <1>4, AtMostOne
<1> QED BY <1>5 DEF S

\* Only a restart is counted as one.
LEMMA RestartsCount ==
  ASSUME [Next]_vars PROVE Restart \/ restarts' = restarts
<1>1. ASSUME NEW h \in Handlers, Answering(h) PROVE restarts' = restarts
  BY <1>1 DEF Answering, Deliver, Record, RecordDuplicate, RecordFails, Load, LoadFails
<1>2. ASSUME NEW h \in Handlers, Sending(h) PROVE restarts' = restarts
  BY <1>2 DEF Sending, Queue, CreateInvoice, InvoiceFails, Post, PostFails, Commit
<1>3. ASSUME NEW h \in Handlers, Owner(h) \/ Chasing(h) PROVE restarts' = restarts
  BY <1>3 DEF Owner, Approve, Reject, MoveStage, RequestLink, Chasing, StartPass, Chase
<1>4. ASSUME \/ UNCHANGED vars \/ (\E m \in OwnerModes : SetMode(m)) \/ (\E i \in Invoices : PayInvoice(i))
             \/ (\E l \in Leads : FollowupDue(l) \/ WindowCloses(l))
      PROVE  restarts' = restarts
  BY <1>4 DEF vars, SetMode, PayInvoice, FollowupDue, WindowCloses
<1> QED BY <1>1, <1>2, <1>3, <1>4 DEF Next

\* Every step keeps the counts.
LEMMA CountStep ==
  ASSUME ChatShape, [Next]_vars, CountInv PROVE CountInv'
<1>0. /\ chased \in [Leads -> Nat] /\ pipe \in [Leads -> Pipe] /\ overlapped \in BOOLEAN
      /\ \A l \in Leads : chased[l] <= chased[l]
  BY DEF ChatShape, TypeOK
<1>1. ASSUME NEW h \in Handlers, NEW x, Moves(h, x), restarts' = restarts, overlapped' = FALSE PROVE CountsOK'
  <2> DEFINE o == handler[h]
  <2>0. Go(h, x) /\ HandlerOK(x) /\ DraftsLast /\ HandlerOK(o) /\ restarts' = restarts
    BY <1>1 DEF Moves, ChatShape
  <2>1. ~overlapped /\ CountsOK
    <3>1. ~overlapped
      BY <1>1 DEF Moves, Begins, Takes, Records, Repeats, Drops, Holds, Goes, Stills, Writes, Chases, Invoiced, Judges, Finishes
    <3> QED BY <3>1 DEF CountInv
  <2>2. Pass(o) => \A k \in Handlers \ {h} : ~Pass(handler[k])
    BY <2>1 DEF CountsOK
  <2>3. ASSUME chased' = chased, pipe' = pipe, ~Pass(x) PROVE CountsOK'
    BY <1>0, <2>0, <2>1, <2>3, CountsLast DEF CountsOK
  <2>4. ASSUME Begins(h, x), Pass(x) PROVE CountsOK'
    <3>1. /\ chased' = chased /\ pipe' = pipe /\ draft' = draft /\ x.now = x.was /\ x.wrote = Nothing
          /\ (\A l \in Leads : x.was[l] = IF l \in x.todo THEN pipe[l] ELSE NoPipe)
          /\ \A k \in Handlers : ~Pass(handler[k])
      BY <1>1, <2>4 DEF Begins
    <3>2. \A l \in Leads : PassOK(x, l, draft', chased'[l], restarts)
      BY <2>1, <3>1 DEF PassOK, Has, Nothing, CountsOK
    <3> QED BY <1>0, <2>0, <2>1, <3>1, <3>2, CountsLast DEF CountsOK
  <2>5. ASSUME NEW l \in Leads, Chases(h, x, l) PROVE CountsOK'
    <3>1. chased' = chased /\ pipe' = pipe /\ Pass(o)
      BY <2>5 DEF Chases, Writes
    <3>2. \A k \in Leads : PassOK(x, k, draft', chased'[k], restarts)
      BY <2>0, <2>1, <2>5, <3>1, ChasedOK
    <3> QED BY <1>0, <2>0, <2>1, <2>2, <3>1, <3>2, CountsLast DEF CountsOK
  <2>6. ASSUME Judges(h, x), Pass(x) PROVE CountsOK'
    <3>1. /\ chased' = chased /\ pipe' = pipe /\ draft' = draft /\ Pass(o) /\ x.was = o.was /\ x.now = o.now /\ x.todo = o.todo
          /\ o.draft \in Drafts /\ \E v : x.wrote = [o.wrote EXCEPT ![o.draft] = v]
      BY <2>6 DEF Judges, Pass
    <3>2. o.wrote \in [Drafts -> {"no", "pending", "sent", "failed", "rejected"}] /\ o.wrote[o.draft] # "no"
      BY <2>0, <3>1, HandlerFields DEF HandlerOK
    <3>3. \A d \in Drafts : x.wrote[d] # "no" => o.wrote[d] # "no"
      BY <3>1, <3>2
    <3>4. \A l \in Leads : PassOK(o, l, draft, chased[l], restarts)
      BY <2>1, <3>1 DEF CountsOK
    <3>5. \A l \in Leads : PassOK(x, l, draft', chased'[l], restarts)
      BY <3>1, <3>3, <3>4 DEF PassOK, Has
    <3> QED BY <1>0, <2>0, <2>1, <2>2, <3>1, <3>5, CountsLast DEF CountsOK
  <2>7. ASSUME Invoiced(h, x) \/ Finishes(h, x) PROVE CountsOK'
    <3>1. Committing(h) /\ ~Pass(x) /\ (Pass(o) => o.todo = {})
      BY <2>7, IdleFields, SalesAssumption DEF Invoiced, Finishes, Pass, AllJobs
    <3>2. chased' \in [Leads -> Nat]
      BY <3>1, Settled
    <3>3. CASE Pass(o)
      <4>1. \A l \in Leads : chased'[l] <= pipe'[l].followups + restarts
        BY <2>1, <3>1, <3>3, PassCommits DEF CountsOK
      <4> QED BY <2>0, <2>1, <2>2, <3>1, <3>2, <3>3, <4>1, CountsLast
    <3>4. CASE ~Pass(o)
      <4>1. \A l \in Leads : chased'[l] <= pipe'[l].followups + restarts /\ chased'[l] <= chased[l]
        BY <2>1, <3>1, <3>4, RequestCommits DEF CountsOK
      <4> QED BY <2>0, <2>1, <3>1, <3>2, <4>1, CountsLast
    <3> QED BY <3>3, <3>4
  <2>8. ASSUME (Begins(h, x) /\ ~Pass(x)) \/ (\E d \in Drafts : Takes(h, x, d)) \/ Goes(h, x) \/ (Writes(h, x) /\ ~Pass(x))
               \/ (Judges(h, x) /\ ~Pass(x))
        PROVE  CountsOK'
    <3>1. chased' = chased /\ pipe' = pipe /\ ~Pass(x)
      BY <2>8 DEF Begins, Takes, Goes, Writes, Judges
    <3> QED BY <2>3, <3>1
  <2> QED BY <1>1, <2>4, <2>5, <2>6, <2>7, <2>8 DEF Moves, Records, Repeats, Drops, Holds, Stills
<1>2. ASSUME Waits, restarts' = restarts PROVE CountInv'
  <2>1. handler' = handler /\ draft' = draft /\ chased' = chased /\ overlapped' = overlapped
        /\ \A l \in Leads : pipe'[l].followups = pipe[l].followups
    BY <1>2 DEF Waits
  <2> QED BY <1>2, <2>1 DEF CountInv, CountsOK
<1>3. CASE Restart
  <2>1. /\ handler' = [h \in Handlers |-> Idle] /\ pipe' = pipe /\ overlapped' = overlapped
        /\ restarts' = restarts + 1 /\ chased' = [l \in Leads |-> chased[l] + Cardinality(Severed(l))]
    BY <1>3, RestartMove DEF Restart
  <2>2. \A h \in Handlers : ~Pass(handler'[h])
    BY <2>1, IdleFields, SalesAssumption DEF Pass, AllJobs
  <2>3. ASSUME CountsOK, NEW l \in Leads PROVE chased'[l] <= pipe'[l].followups + restarts'
    <3>1. Cardinality(Severed(l)) \in {0, 1}
      BY <2>3, CutOnce
    <3>2. chased[l] <= pipe[l].followups + restarts /\ chased[l] \in Nat /\ restarts \in Nat /\ pipe[l].followups \in Nat
      <4>1. pipe[l] \in Pipe
        BY <1>0
      <4> QED BY <1>0, <2>3, <4>1, SalesAssumption DEF CountsOK, Pipe, ChatShape, TypeOK
    <3>3. chased'[l] = chased[l] + Cardinality(Severed(l)) /\ pipe'[l].followups = pipe[l].followups
      BY <2>1
    <3> QED BY <2>1, <3>1, <3>2, <3>3
  <2> QED BY <2>1, <2>2, <2>3 DEF CountInv, CountsOK
<1>5. Restart \/ restarts' = restarts
  BY RestartsCount
<1>4. overlapped' \in BOOLEAN
  BY RowsTyped DEF RowsOK
<1> QED BY <1>1, <1>2, <1>3, <1>4, <1>5, EveryMove DEF CountInv

\* Before a reply or a new offer starts the count again, a customer is chased at most MaxFollowups
\* times, and once more for every restart, which may fall between a post and the pass's commit,
\* unless two passes ran at once (run_followups, lead_pipeline.py:180, 206).
THEOREM FollowupsCorrect == Spec => []FollowupsBounded
<1>1. Init => CountInv
  <2> SUFFICES ASSUME Init PROVE CountsOK
    BY DEF CountInv
  <2>1. \A h \in Handlers : ~Pass(handler[h])
    BY IdleFields, SalesAssumption DEF Init, Pass, AllJobs
  <2>2. \A l \in Leads : chased[l] = 0 /\ pipe[l].followups = 0 /\ restarts = 0
    BY NoPipeOK DEF Init
  <2> QED BY <2>1, <2>2 DEF CountsOK
<1>2. CountInv /\ ChatShape /\ [Next]_vars => CountInv'
  BY CountStep
<1>3. CountInv /\ ChatShape => FollowupsBounded
  <2> SUFFICES ASSUME CountsOK, ChatShape, NEW l \in Leads PROVE chased[l] <= MaxFollowups + restarts
    BY DEF CountInv, FollowupsBounded
  <2>1. chased[l] \in Nat /\ pipe[l] \in Pipe /\ chased[l] <= pipe[l].followups + restarts /\ restarts \in Nat
    BY SalesAssumption DEF CountsOK, ChatShape, TypeOK
  <2>2. pipe[l].followups \in 0..MaxFollowups
    BY <2>1 DEF Pipe
  <2> QED BY <2>1, <2>2, SalesAssumption
<1> QED BY <1>1, <1>2, <1>3, ChatShaped, PTL DEF Spec

-----------------------------------------------------------------------------
(***************************************************************************)
(* Leads and campaigns.                                                    *)
(***************************************************************************)

\* The leads there are, whatever bounds them.
LeadRows == {i \in Companies \X Nat : i[2] \in DOMAIN lead[i[1]]}
Bounded == \E u \in Nat : \A n \in BatchNumbers : n <= u

\* A desk is at the lead it loaded or at the leads it chose, and at nothing else.
DeskOK(r) == r \in Desk /\ (r.pc # "lead" => r.id = NoLead) /\ (r.pc # "batch" => r.chosen = {})
DeskTied(r, ids) == (r.pc = "lead" => r.id \in ids) /\ r.chosen \subseteq ids

LeadsShape ==
  /\ LeadsTypeOK /\ Bounded
  /\ \A d \in Desks : DeskOK(desk[d]) /\ DeskTied(desk[d], LeadRows)

\* The statuses a lead may have.
LEMMA Statuses == {"NEW", "READY", "CONTACTED", "REPLIED", "INTERESTED", "DEMO", "PROPOSAL", "WON", "LOST",
                   "FOLLOW_UP", "DO_NOT_CONTACT"} \subseteq LeadStatuses
BY DEF LeadStatuses, Ranks

\* A desk at rest holds nothing.
LEMMA FreeDeskOK == DeskOK(FreeDesk) /\ (\A ids : DeskTied(FreeDesk, ids)) /\ FreeDesk.pc = "idle"
<1>1. NewLead \in LeadRow
  BY Statuses DEF NewLead, LeadRow
<1>2. NoLead \in LeadIds
  BY DEF NoLead, LeadIds
<1> QED BY <1>1, <1>2 DEF DeskOK, DeskTied, FreeDesk, Desk

\* A sequence of batches has a highest number, since the numbers are bounded.
LEMMA HighestNumber ==
  ASSUME LeadsTypeOK, Bounded
  PROVE  NextNumber \in Nat /\ \A n \in BatchNumbers : n < NextNumber
<1>1. BatchNumbers \subseteq Nat
  <2>1. ASSUME NEW b \in DOMAIN batches PROVE batches[b].number \in Nat
    <3> DEFINE Batch == [number : Nat, leads : SUBSET LeadIds]
    <3>1. batches \in Seq(Batch)
      BY DEF LeadsTypeOK
    <3>2. batches[b] \in Batch
      <4> HIDE DEF Batch
      <4> QED BY <2>1, <3>1
    <3> QED BY <3>2
  <2> QED BY <2>1 DEF BatchNumbers
<1> DEFINE U == {u \in Nat : \A n \in BatchNumbers : n <= u}
           R == {ss \in Nat \X Nat : ss[1] < ss[2]}
<1>2. IsWellFoundedOn(R, Nat)
  BY NatLessThanWellFounded DEF OpToRel
<1>3. PICK u \in U : \A v \in U : ~(<<v, u>> \in R)
  <2>1. U # {} /\ U \subseteq Nat
    BY DEF Bounded
  <2> HIDE DEF R, U
  <2> QED BY <1>2, <2>1, WFMin
<1>4. u \in BatchNumbers
  <2>1. SUFFICES ASSUME u \notin BatchNumbers PROVE FALSE
    OBVIOUS
  <2>2. 0 \in BatchNumbers
    BY DEF BatchNumbers
  <2>3. u # 0 /\ u \in Nat
    BY <2>1, <2>2
  <2>4. \A n \in BatchNumbers : n <= u - 1
    BY <1>1, <2>1, <2>3
  <2>5. u - 1 \in U
    BY <2>3, <2>4
  <2>6. <<u - 1, u>> \in R
    BY <2>3
  <2> QED BY <1>3, <2>5, <2>6
<1> DEFINE top == CHOOSE n \in BatchNumbers : \A other \in BatchNumbers : other <= n
<1>5. top \in BatchNumbers /\ \A other \in BatchNumbers : other <= top
  BY <1>4
<1>6. NextNumber = 1 + top
  BY DEF NextNumber
<1> HIDE DEF top
<1> QED BY <1>1, <1>5, <1>6

-----------------------------------------------------------------------------
\* What the steps do to the rows.

LEMMA LeadCommitted ==
  ASSUME LeadsShape, NEW d \in Desks, CommitLead(d), NEW r, r = desk[d], NEW i, i = r.id
  PROVE  /\ lead' \in [Companies -> Seq(LeadRow)] /\ LeadRows' = LeadRows /\ i \in LeadRows
         /\ \A k \in Companies : Len(lead'[k]) = Len(lead[k])
         /\ \A j \in LeadRows : j # i => RowOf(j)' = RowOf(j)
         /\ RowOf(i)' = [status |-> IF r.now.status = r.was.status THEN RowOf(i).status ELSE r.now.status,
                         optOut |-> IF r.now.optOut = r.was.optOut THEN RowOf(i).optOut ELSE r.now.optOut,
                         told |-> r.now.told]
<1> DEFINE k == i[1]
           n == i[2]
           new == [status |-> IF r.now.status = r.was.status THEN RowOf(i).status ELSE r.now.status,
                   optOut |-> IF r.now.optOut = r.was.optOut THEN RowOf(i).optOut ELSE r.now.optOut,
                   told |-> r.now.told]
<1>1. i \in LeadRows /\ k \in Companies /\ n \in DOMAIN lead[k] /\ i = <<k, n>>
  BY DEF LeadsShape, DeskTied, CommitLead, LeadRows
<1>2. lead \in [Companies -> Seq(LeadRow)] /\ lead[k] \in Seq(LeadRow) /\ RowOf(i) \in LeadRow /\ r \in Desk
  BY <1>1 DEF LeadsShape, LeadsTypeOK, RowOf, DeskOK
<1>3. new \in LeadRow
  BY <1>2 DEF LeadRow, Desk
<1>4. lead' = [lead EXCEPT ![k] = [lead[k] EXCEPT ![n] = new]]
  BY <1>1, <1>2 DEF CommitLead, Logged, RowOf
<1> HIDE DEF new
<1>5. [lead[k] EXCEPT ![n] = new] \in Seq(LeadRow) /\ Len([lead[k] EXCEPT ![n] = new]) = Len(lead[k])
      /\ DOMAIN [lead[k] EXCEPT ![n] = new] = DOMAIN lead[k]
  BY <1>1, <1>2, <1>3
<1>6. lead' \in [Companies -> Seq(LeadRow)] /\ \A q \in Companies : Len(lead'[q]) = Len(lead[q]) /\ DOMAIN lead'[q] = DOMAIN lead[q]
  BY <1>1, <1>2, <1>4, <1>5
<1>7. LeadRows' = LeadRows
  BY <1>6 DEF LeadRows
<1>8. lead'[k][n] = new
  BY <1>1, <1>2, <1>4
<1>9. ASSUME NEW j \in LeadRows, j # i PROVE lead'[j[1]][j[2]] = lead[j[1]][j[2]]
  <2>1. j[1] \in Companies /\ j[2] \in DOMAIN lead[j[1]] /\ (j[1] # k \/ j[2] # n)
    BY <1>1, <1>9 DEF LeadRows
  <2> QED BY <1>1, <1>2, <1>4, <2>1
<1> QED BY <1>1, <1>6, <1>7, <1>8, <1>9 DEF RowOf, new

\* persist_leads adds a row to each company it found missing.
LEMMA ImportCommitted ==
  ASSUME LeadsShape, NEW d \in Desks, NEW goesOn \in BOOLEAN, CommitImport(d, goesOn)
  PROVE  /\ lead' \in [Companies -> Seq(LeadRow)] /\ LeadRows \subseteq LeadRows'
         /\ \A k \in Companies : IF k \in desk[d].missing THEN Len(lead'[k]) = Len(lead[k]) + 1 ELSE Len(lead'[k]) = Len(lead[k])
         /\ \A i \in LeadRows : RowOf(i)' = RowOf(i)
         /\ \A i \in LeadRows' : i \notin LeadRows => RowOf(i)' = NewLead
<1>0. lead \in [Companies -> Seq(LeadRow)] /\ NewLead \in LeadRow
  BY Statuses DEF LeadsShape, LeadsTypeOK, NewLead, LeadRow
<1>1. ASSUME NEW k \in Companies
      PROVE  lead'[k] = IF k \in desk[d].missing THEN Append(lead[k], NewLead) ELSE lead[k]
  <2>1. lead[k] = [n \in DOMAIN lead[k] |-> lead[k][n]]
    BY <1>0
  <2> QED BY <2>1 DEF CommitImport, Refreshed
<1>2. lead' = [k \in Companies |-> lead'[k]]
  BY DEF CommitImport
<1>3. ASSUME NEW k \in Companies
      PROVE  /\ lead'[k] \in Seq(LeadRow) /\ DOMAIN lead[k] \subseteq DOMAIN lead'[k]
             /\ IF k \in desk[d].missing THEN Len(lead'[k]) = Len(lead[k]) + 1 ELSE Len(lead'[k]) = Len(lead[k])
             /\ \A n \in DOMAIN lead[k] : lead'[k][n] = lead[k][n]
             /\ \A n \in DOMAIN lead'[k] : n \notin DOMAIN lead[k] => lead'[k][n] = NewLead
  <2>1. lead[k] \in Seq(LeadRow)
    BY <1>0
  <2>2. CASE k \in desk[d].missing
    <3>1. lead'[k] = Append(lead[k], NewLead)
      BY <1>1, <2>2
    <3> QED BY <1>0, <2>1, <2>2, <3>1
  <2>3. CASE k \notin desk[d].missing
    BY <1>1, <2>1, <2>3
  <2> QED BY <2>2, <2>3
<1>4. lead' \in [Companies -> Seq(LeadRow)]
  BY <1>2, <1>3
<1> QED BY <1>3, <1>4 DEF LeadRows, RowOf

\* build_campaign makes its batch and its leads READY.
LEMMA CampaignCommitted ==
  ASSUME LeadsShape, NEW d \in Desks, CommitCampaign(d)
  PROVE  /\ lead' \in [Companies -> Seq(LeadRow)] /\ LeadRows' = LeadRows
         /\ \A k \in Companies : Len(lead'[k]) = Len(lead[k])
         /\ \A i \in LeadRows : RowOf(i)' = IF i \in desk[d].chosen THEN WithStatus(RowOf(i), "READY") ELSE RowOf(i)
<1>0. lead \in [Companies -> Seq(LeadRow)]
  BY DEF LeadsShape, LeadsTypeOK
<1>1. lead' = [k \in Companies |-> [n \in DOMAIN lead[k] |->
                 IF <<k, n>> \in desk[d].chosen THEN WithStatus(lead[k][n], "READY") ELSE lead[k][n]]]
  BY DEF CommitCampaign
<1>2. \A row \in LeadRow : WithStatus(row, "READY") \in LeadRow
  BY Statuses DEF WithStatus, LeadRow
<1>3. ASSUME NEW k \in Companies
      PROVE  /\ lead'[k] \in Seq(LeadRow) /\ DOMAIN lead'[k] = DOMAIN lead[k] /\ Len(lead'[k]) = Len(lead[k])
             /\ \A n \in DOMAIN lead[k] : lead'[k][n] = IF <<k, n>> \in desk[d].chosen THEN WithStatus(lead[k][n], "READY")
                                                       ELSE lead[k][n]
  <2>1. lead[k] \in Seq(LeadRow)
    BY <1>0
  <2>2. lead'[k] = [n \in 1..Len(lead[k]) |->
                 IF <<k, n>> \in desk[d].chosen THEN WithStatus(lead[k][n], "READY") ELSE lead[k][n]]
    BY <1>1, <2>1
  <2>3. \A n \in 1..Len(lead[k]) : lead[k][n] \in LeadRow
    BY <2>1
  <2>4. \A n \in 1..Len(lead[k]) : (IF <<k, n>> \in desk[d].chosen THEN WithStatus(lead[k][n], "READY") ELSE lead[k][n]) \in LeadRow
    BY <1>2, <2>3
  <2> QED BY <2>1, <2>2, <2>4
<1>4. lead' \in [Companies -> Seq(LeadRow)]
  BY <1>1, <1>3
<1>5. LeadRows' = LeadRows
  BY <1>3 DEF LeadRows
<1>6. ASSUME NEW i \in LeadRows
      PROVE  RowOf(i)' = IF i \in desk[d].chosen THEN WithStatus(RowOf(i), "READY") ELSE RowOf(i)
  <2>1. i[1] \in Companies /\ i[2] \in DOMAIN lead[i[1]] /\ i = <<i[1], i[2]>>
    BY DEF LeadRows
  <2> QED BY <1>3, <2>1 DEF RowOf
<1> QED BY <1>3, <1>4, <1>5, <1>6

\* The requests that load a lead differ in the row they make of it: only the owner makes it NEW.
Loads(d, i, row) ==
  /\ LoadLead(d, i, row) /\ row \in LeadRow /\ reopened \subseteq reopened' /\ reopened' \subseteq LeadIds
  /\ i \notin reopened' => /\ row.status = "NEW" => RowOf(i).status = "NEW"
                           /\ row.optOut => row.status # "NEW" \/ RowOf(i).optOut

\* A request loads a lead and changes what it came for.
LEMMA Loading ==
  ASSUME LeadsShape, NEW d \in Desks, NEW i \in AllLeads,
         \/ \E intent \in Intents : HearLead(d, i, intent)
         \/ \E status \in OwnerChoices : SetLead(d, i, status)
         \/ BarLead(d, i) \/ PlanFollowup(d, i) \/ ReachOut(d, i) \/ WinLead(d, i)
  PROVE  i \in LeadRows /\ \E row \in LeadRow : Loads(d, i, row)
<1>1. i \in LeadRows /\ i \in LeadIds
  <2>1. started \in Nat
    BY LeadsAssumption DEF LeadsShape, LeadsTypeOK
  <2>2. i \in Companies \X (1..started) /\ i[2] \in DOMAIN lead[i[1]]
    BY DEF AllLeads
  <2>3. i \in Companies \X Nat
    BY <2>1, <2>2
  <2> QED BY <2>2, <2>3 DEF LeadRows, LeadIds
<1>2. RowOf(i) \in LeadRow
  <2>1. i[1] \in Companies /\ i[2] \in DOMAIN lead[i[1]]
    BY <1>1 DEF LeadRows
  <2>2. lead[i[1]] \in Seq(LeadRow)
    BY <2>1 DEF LeadsShape, LeadsTypeOK
  <2> QED BY <2>1, <2>2 DEF RowOf
<1>3. ASSUME NEW status \in LeadStatuses
      PROVE  WithStatus(RowOf(i), status) \in LeadRow /\ WithStatus(RowOf(i), status).status = status
             /\ WithStatus(RowOf(i), status).optOut = RowOf(i).optOut
  BY <1>2 DEF WithStatus, LeadRow
<1>4. reopened \subseteq LeadIds
  BY DEF LeadsShape, LeadsTypeOK
<1>5. ASSUME NEW intent \in Intents, HearLead(d, i, intent) PROVE \E row \in LeadRow : Loads(d, i, row)
  <2> DEFINE row == Promoted(RowOf(i), intent)
  <2>1. row \in LeadRow /\ (row.status = "NEW" => RowOf(i).status = "NEW") /\ (row.optOut => row.status # "NEW" \/ RowOf(i).optOut)
    <3>1. CASE intent = "OPT_OUT"
      <4>1. row = [RowOf(i) EXCEPT !.status = "DO_NOT_CONTACT", !.optOut = TRUE]
        BY <3>1 DEF Promoted, Ranks
      <4> QED BY <1>2, <4>1, Statuses DEF LeadRow
    <3>2. CASE intent # "OPT_OUT" /\ intent \in DOMAIN Ranks
      <4>1. row = RowOf(i) \/ (row = WithStatus(RowOf(i), intent) /\ Rank(RowOf(i).status) < Ranks[intent])
        BY <3>2 DEF Promoted
      <4>2. intent \in LeadStatuses /\ intent # "NEW"
        BY <3>2, LeadsAssumption DEF LeadStatuses, AllIntents
      <4> QED BY <1>2, <1>3, <4>1, <4>2
    <3>3. CASE intent # "OPT_OUT" /\ intent \notin DOMAIN Ranks
      <4>1. row = RowOf(i) \/ (row = WithStatus(RowOf(i), "REPLIED"))
        BY <3>3 DEF Promoted
      <4> QED BY <1>2, <1>3, <4>1, Statuses
    <3> QED BY <3>1, <3>2, <3>3
  <2> HIDE DEF row
  <2> QED BY <1>4, <1>5, <2>1 DEF HearLead, Loads, row
<1>6. ASSUME NEW status \in OwnerChoices, SetLead(d, i, status) PROVE \E row \in LeadRow : Loads(d, i, row)
  <2> DEFINE row == WithStatus(RowOf(i), status)
  <2>1. row \in LeadRow /\ row.status = status /\ row.optOut = RowOf(i).optOut
    BY <1>3, LeadsAssumption
  <2>2. LoadLead(d, i, row) /\ reopened' = reopened \cup {j \in {i} : status = "NEW"}
    BY <1>6 DEF SetLead
  <2> HIDE DEF row
  <2> QED BY <1>1, <1>4, <2>1, <2>2 DEF Loads
<1>7. ASSUME BarLead(d, i) \/ PlanFollowup(d, i) \/ ReachOut(d, i) \/ WinLead(d, i)
      PROVE  \E row \in LeadRow : Loads(d, i, row)
  <2>1. /\ \/ LoadLead(d, i, RowOf(i))
           \/ \E status \in {"DO_NOT_CONTACT", "FOLLOW_UP", "CONTACTED", "WON"} : LoadLead(d, i, WithStatus(RowOf(i), status))
        /\ reopened' = reopened
    BY <1>7 DEF BarLead, PlanFollowup, ReachOut, WinLead
  <2>2. CASE LoadLead(d, i, RowOf(i))
    BY <1>2, <1>4, <2>1, <2>2 DEF Loads
  <2>3. ASSUME NEW status \in {"DO_NOT_CONTACT", "FOLLOW_UP", "CONTACTED", "WON"}, LoadLead(d, i, WithStatus(RowOf(i), status))
        PROVE  \E row \in LeadRow : Loads(d, i, row)
    BY <1>3, <1>4, <2>1, <2>3, Statuses DEF Loads
  <2> QED BY <2>1, <2>2, <2>3
<1> QED BY <1>1, <1>5, <1>6, <1>7

-----------------------------------------------------------------------------
LEMMA LeadsShapeInit == LeadsInit => LeadsShape
<1> SUFFICES ASSUME LeadsInit PROVE LeadsShape
  OBVIOUS
<1>1. Bounded
  BY DEF LeadsInit, Bounded, BatchNumbers
<1>2. desk \in [Desks -> Desk] /\ \A d \in Desks : DeskOK(desk[d]) /\ DeskTied(desk[d], LeadRows)
  BY FreeDeskOK DEF LeadsInit, DeskOK
<1>3. lead \in [Companies -> Seq(LeadRow)] /\ batches \in Seq([number : Nat, leads : SUBSET LeadIds])
  BY DEF LeadsInit
<1> QED BY <1>1, <1>2, <1>3, LeadsAssumption DEF LeadsInit, LeadsShape, LeadsTypeOK

\* A step moves one desk.
LEMMA DeskMoves ==
  ASSUME LeadsShape, NEW d \in Desks, NEW x, DeskOK(x), DeskTied(x, LeadRows'), Sits(d, x), LeadRows \subseteq LeadRows'
  PROVE  /\ desk' \in [Desks -> Desk] /\ desk'[d] = x /\ \A e \in Desks : e # d => desk'[e] = desk[e]
         /\ \A e \in Desks : DeskOK(desk'[e]) /\ DeskTied(desk'[e], LeadRows')
<1>1. desk' = [desk EXCEPT ![d] = x] /\ desk \in [Desks -> Desk] /\ x \in Desk
  BY DEF LeadsShape, LeadsTypeOK, Sits, DeskOK
<1>2. ASSUME NEW e \in Desks, e # d PROVE DeskTied(desk'[e], LeadRows')
  BY <1>1, <1>2 DEF LeadsShape, DeskTied
<1> QED BY <1>1, <1>2 DEF LeadsShape

\* The desk begins to build a batch, with a number above all others.
LEMMA Numbers ==
  ASSUME LeadsShape, NEW d \in Desks, Numbering(d)
  PROVE  \E x \in Desk : /\ Sits(d, x) /\ DeskOK(x) /\ (\A ids : DeskTied(x, ids)) /\ x.pc = "select"
                         /\ x.number \in Nat /\ \A n \in BatchNumbers : n < x.number
<1> DEFINE x == [FreeDesk EXCEPT !.pc = "select", !.number = NextNumber]
<1>1. NextNumber \in Nat /\ \A n \in BatchNumbers : n < NextNumber
  BY HighestNumber DEF LeadsShape
<1>2. Sits(d, x)
  BY DEF Numbering
<1>3. x \in Desk /\ x.pc = "select" /\ x.number = NextNumber /\ x.id = NoLead /\ x.chosen = {}
  BY <1>1, FreeDeskOK DEF DeskOK, FreeDesk, Desk
<1> HIDE DEF x
<1> QED BY <1>1, <1>2, <1>3 DEF DeskOK, DeskTied

\* What a step makes of the desk that takes it, and whom it leaves alone.
Loaded(d, x) ==
  \E i \in LeadRows : \E row \in LeadRow :
    /\ Loads(d, i, row) /\ x.pc = "lead" /\ x.id = i /\ x.was = RowOf(i)
    /\ x.now = [row EXCEPT !.told = row.status] /\ x.chosen = {}
Imported(d, x) ==
  \E K \in SUBSET Companies : /\ Import(d, K) /\ x.pc = "import"
                              /\ x.missing = {k \in K : lead[k] = << >>}
WentOn(d, x) ==
  \E goesOn \in BOOLEAN : /\ CommitImport(d, goesOn)
    /\ IF goesOn THEN /\ x.pc = "select" /\ (\A n \in BatchNumbers : n < x.number) /\ Twins(d, "build", {"select", "batch"})
                 ELSE x.pc = "idle" /\ twins' = twins
Began(d, x) == BuildCampaign(d) /\ x.pc = "select" /\ \A n \in BatchNumbers : n < x.number
Selected(d, x) ==
  /\ SelectLeads(d) /\ x.pc = "batch" /\ x.number = desk[d].number /\ Jostle(d, x.chosen)
  /\ x.chosen \subseteq LeadRows /\ \A i \in x.chosen : RowOf(i).status = "NEW" /\ InNoBatch(i)
  /\ pestered' = pestered \cup {i \in x.chosen : RowOf(i).optOut}

\* Every action is the move of one desk.
LEMMA DeskSteps ==
  ASSUME LeadsShape, LeadsNext
  PROVE  \E d \in Desks : \E x : /\ Sits(d, x) /\ DeskOK(x)
           /\ (x.pc = "lead" => x.id \in LeadRows) /\ x.chosen \subseteq LeadRows
           /\ \/ Loaded(d, x) \/ Imported(d, x) \/ WentOn(d, x) \/ Began(d, x) \/ Selected(d, x)
              \/ (CommitLead(d) \/ CommitCampaign(d)) /\ x = FreeDesk
<1>0. PICK d \in Desks :
        \/ \E i \in AllLeads :
             \/ \E intent \in Intents : HearLead(d, i, intent)
             \/ \E status \in OwnerChoices : SetLead(d, i, status)
             \/ BarLead(d, i) \/ PlanFollowup(d, i) \/ ReachOut(d, i) \/ WinLead(d, i)
        \/ CommitLead(d)
        \/ \E K \in SUBSET Companies \ {{}} : Import(d, K)
        \/ \E goesOn \in BOOLEAN : CommitImport(d, goesOn)
        \/ BuildCampaign(d) \/ SelectLeads(d) \/ CommitCampaign(d)
  BY DEF LeadsNext
<1> DEFINE Result(x) == /\ Sits(d, x) /\ DeskOK(x)
                        /\ (x.pc = "lead" => x.id \in LeadRows) /\ x.chosen \subseteq LeadRows
                        /\ \/ Loaded(d, x) \/ Imported(d, x) \/ WentOn(d, x) \/ Began(d, x) \/ Selected(d, x)
                           \/ (CommitLead(d) \/ CommitCampaign(d)) /\ x = FreeDesk
<1>a. SUFFICES \E x : Result(x)
  OBVIOUS
<1>b. desk[d] \in Desk /\ DeskOK(desk[d]) /\ DeskTied(desk[d], LeadRows)
  BY DEF LeadsShape, LeadsTypeOK
<1>1. ASSUME NEW i \in AllLeads,
             \/ \E intent \in Intents : HearLead(d, i, intent)
             \/ \E status \in OwnerChoices : SetLead(d, i, status)
             \/ BarLead(d, i) \/ PlanFollowup(d, i) \/ ReachOut(d, i) \/ WinLead(d, i)
      PROVE  \E x : Result(x)
  <2>1. i \in LeadRows
    BY <1>1, Loading
  <2>2. PICK row \in LeadRow : Loads(d, i, row)
    BY <1>1, Loading
  <2> DEFINE x == [FreeDesk EXCEPT !.pc = "lead", !.id = i, !.was = RowOf(i), !.now = [row EXCEPT !.told = row.status]]
  <2>3. RowOf(i) \in LeadRow /\ i \in LeadIds
    <3>1. i[1] \in Companies /\ i[2] \in DOMAIN lead[i[1]] /\ i \in Companies \X Nat
      BY <2>1 DEF LeadRows
    <3>2. lead[i[1]] \in Seq(LeadRow)
      BY <3>1 DEF LeadsShape, LeadsTypeOK
    <3> QED BY <3>1, <3>2 DEF RowOf, LeadIds
  <2>4. [row EXCEPT !.told = row.status] \in LeadRow
    BY <2>2 DEF LeadRow
  <2>5. x \in Desk /\ x.pc = "lead" /\ x.id = i /\ x.was = RowOf(i) /\ x.now = [row EXCEPT !.told = row.status] /\ x.chosen = {}
    BY <2>3, <2>4, FreeDeskOK DEF DeskOK, FreeDesk, Desk
  <2>6. Sits(d, x)
    BY <2>2 DEF Loads, LoadLead
  <2> HIDE DEF x
  <2> QED BY <2>1, <2>2, <2>5, <2>6 DEF DeskOK, Loaded
<1>2. CASE CommitLead(d) \/ CommitCampaign(d)
  <2>1. Sits(d, FreeDesk)
    BY <1>2 DEF CommitLead, CommitCampaign
  <2>2. FreeDesk.chosen = {}
    BY DEF FreeDesk
  <2> QED BY <1>2, <2>1, <2>2, FreeDeskOK
<1>3. ASSUME NEW K \in SUBSET Companies, Import(d, K) PROVE \E x : Result(x)
  <2> DEFINE x == [FreeDesk EXCEPT !.pc = "import", !.keys = K, !.missing = {k \in K : lead[k] = << >>}]
  <2>1. x \in Desk /\ x.pc = "import" /\ x.id = NoLead /\ x.chosen = {} /\ x.missing = {k \in K : lead[k] = << >>}
    BY FreeDeskOK DEF DeskOK, FreeDesk, Desk
  <2>2. Sits(d, x)
    BY <1>3 DEF Import
  <2> HIDE DEF x
  <2> QED BY <1>3, <2>1, <2>2 DEF DeskOK, Imported
<1>4. ASSUME NEW goesOn \in BOOLEAN, CommitImport(d, goesOn) PROVE \E x : Result(x)
  <2>1. CASE goesOn
    <3>1. Numbering(d)
      BY <1>4, <2>1 DEF CommitImport
    <3>2. PICK x \in Desk : Sits(d, x) /\ DeskOK(x) /\ (\A ids : DeskTied(x, ids)) /\ x.pc = "select" /\ \A n \in BatchNumbers : n < x.number
      BY <3>1, Numbers
    <3> QED BY <1>4, <2>1, <3>1, <3>2 DEF WentOn, Numbering, DeskTied
  <2>2. CASE ~goesOn
    <3>1. Sits(d, FreeDesk) /\ twins' = twins
      BY <1>4, <2>2 DEF CommitImport
    <3>2. FreeDesk.chosen = {}
      BY DEF FreeDesk
    <3> QED BY <1>4, <2>2, <3>1, <3>2, FreeDeskOK DEF WentOn
  <2> QED BY <2>1, <2>2
<1>5. CASE BuildCampaign(d)
  <2>1. PICK x \in Desk : Sits(d, x) /\ DeskOK(x) /\ (\A ids : DeskTied(x, ids)) /\ x.pc = "select" /\ \A n \in BatchNumbers : n < x.number
    BY <1>5, Numbers DEF BuildCampaign
  <2> QED BY <1>5, <2>1 DEF Began, DeskTied
<1>6. CASE SelectLeads(d)
  <2>1. PICK S \in SUBSET {i \in AllLeads : RowOf(i).status = "NEW" /\ InNoBatch(i)} :
              /\ Sits(d, [desk[d] EXCEPT !.pc = "batch", !.chosen = S])
              /\ Jostle(d, S) /\ pestered' = pestered \cup {i \in S : RowOf(i).optOut}
    BY <1>6 DEF SelectLeads
  <2> DEFINE x == [desk[d] EXCEPT !.pc = "batch", !.chosen = S]
  <2>2. S \subseteq LeadRows /\ S \subseteq LeadIds /\ \A i \in S : RowOf(i).status = "NEW" /\ InNoBatch(i)
    <3>1. started \in Nat
      BY LeadsAssumption DEF LeadsShape, LeadsTypeOK
    <3>2. \A i \in S : i \in Companies \X (1..started) /\ i[2] \in DOMAIN lead[i[1]]
      BY <2>1 DEF AllLeads
    <3>3. \A i \in S : i \in Companies \X Nat
      BY <3>1, <3>2
    <3>4. S \subseteq LeadRows /\ S \subseteq LeadIds
      BY <3>2, <3>3 DEF LeadRows, LeadIds
    <3> QED BY <2>1, <3>4
  <2>3. x \in Desk /\ x.pc = "batch" /\ x.number = desk[d].number /\ x.id = desk[d].id /\ x.chosen = S /\ desk[d].id = NoLead
    <3>1. desk[d].pc = "select" /\ desk[d].id = NoLead
      BY <1>6, <1>b DEF SelectLeads, DeskOK
    <3> QED BY <1>b, <2>2, <3>1 DEF Desk
  <2> HIDE DEF x
  <2>4. Sits(d, x)
    BY <2>1 DEF x
  <2> QED BY <1>6, <2>1, <2>2, <2>3, <2>4 DEF DeskOK, Selected
<1> HIDE DEF Result
<1> QED BY <1>0, <1>1, <1>2, <1>3, <1>4, <1>5, <1>6

\* Rows come and are never lost, and the desks but one stay as they are.
LEMMA RowsStay ==
  ASSUME LeadsShape, NEW d \in Desks, NEW x, Sits(d, x), DeskOK(x),
         (x.pc = "lead" => x.id \in LeadRows) /\ x.chosen \subseteq LeadRows,
         \/ Loaded(d, x) \/ Imported(d, x) \/ WentOn(d, x) \/ Began(d, x) \/ Selected(d, x)
         \/ (CommitLead(d) \/ CommitCampaign(d)) /\ x = FreeDesk
  PROVE  /\ lead' \in [Companies -> Seq(LeadRow)] /\ LeadRows \subseteq LeadRows'
         /\ desk' \in [Desks -> Desk] /\ desk'[d] = x /\ \A e \in Desks : e # d => desk'[e] = desk[e]
         /\ \A e \in Desks : DeskOK(desk'[e]) /\ DeskTied(desk'[e], LeadRows')
         /\ Loaded(d, x) \/ Imported(d, x) \/ Began(d, x) \/ Selected(d, x) => lead' = lead
<1>1. Loaded(d, x) \/ Imported(d, x) \/ Began(d, x) \/ Selected(d, x) => lead' = lead
  BY DEF Loaded, Loads, LoadLead, Imported, Import, Began, BuildCampaign, Selected, SelectLeads
<1>2. lead \in [Companies -> Seq(LeadRow)]
  BY DEF LeadsShape, LeadsTypeOK
<1>3. lead' \in [Companies -> Seq(LeadRow)] /\ LeadRows \subseteq LeadRows'
  <2>1. CASE Loaded(d, x) \/ Imported(d, x) \/ Began(d, x) \/ Selected(d, x)
    BY <1>1, <1>2, <2>1 DEF LeadRows
  <2>2. CASE WentOn(d, x)
    BY <2>2, ImportCommitted DEF WentOn
  <2>3. CASE CommitLead(d)
    BY <2>3, LeadCommitted
  <2>4. CASE CommitCampaign(d)
    BY <2>4, CampaignCommitted
  <2> QED BY <2>1, <2>2, <2>3, <2>4
<1>4. DeskTied(x, LeadRows')
  BY <1>3 DEF DeskTied
<1> QED BY <1>1, <1>3, <1>4, DeskMoves

\* The types, and what desks hold, last through every step.
LEMMA LeadsShapeStep ==
  ASSUME LeadsShape, [LeadsNext]_leadsVars PROVE LeadsShape'
<1>1. CASE LeadsNext
  <2>1. PICK d \in Desks : \E x : /\ Sits(d, x) /\ DeskOK(x)
           /\ (x.pc = "lead" => x.id \in LeadRows) /\ x.chosen \subseteq LeadRows
           /\ \/ Loaded(d, x) \/ Imported(d, x) \/ WentOn(d, x) \/ Began(d, x) \/ Selected(d, x)
              \/ (CommitLead(d) \/ CommitCampaign(d)) /\ x = FreeDesk
    BY <1>1, DeskSteps
  <2>2. PICK x : /\ Sits(d, x) /\ DeskOK(x)
           /\ (x.pc = "lead" => x.id \in LeadRows) /\ x.chosen \subseteq LeadRows
           /\ \/ Loaded(d, x) \/ Imported(d, x) \/ WentOn(d, x) \/ Began(d, x) \/ Selected(d, x)
              \/ (CommitLead(d) \/ CommitCampaign(d)) /\ x = FreeDesk
    BY <2>1
  <2>3. /\ lead' \in [Companies -> Seq(LeadRow)] /\ desk' \in [Desks -> Desk]
        /\ \A e \in Desks : DeskOK(desk'[e]) /\ DeskTied(desk'[e], LeadRows')
    BY <2>2, RowsStay
  <2>4. \A e \in Desks : desk[e] \in Desk
    BY DEF LeadsShape, LeadsTypeOK
  <2> DEFINE Batch == [number : Nat, leads : SUBSET LeadIds]
  <2>5. batches \in Seq(Batch) /\ Bounded
    BY DEF LeadsShape, LeadsTypeOK
  <2>6. batches' \in Seq(Batch) /\ Bounded'
    <3>1. CASE ~CommitCampaign(d)
      <4>1. batches' = batches
        BY <2>2, <3>1 DEF Loaded, Loads, LoadLead, Imported, Import, WentOn, CommitImport, Began, BuildCampaign,
                          Selected, SelectLeads, CommitLead
      <4> HIDE DEF Batch
      <4> QED BY <2>5, <4>1 DEF Bounded, BatchNumbers
    <3>2. CASE CommitCampaign(d)
      <4> DEFINE new == [number |-> desk[d].number, leads |-> desk[d].chosen]
      <4>1. new \in Batch /\ new.number = desk[d].number /\ new.number \in Nat
        BY <2>4 DEF Desk
      <4>2. batches' = Append(batches, new)
        BY <3>2 DEF CommitCampaign
      <4> HIDE DEF new, Batch
      <4>3. PICK u \in Nat : \A n \in BatchNumbers : n <= u
        BY <2>5 DEF Bounded
      <4>4. \A b \in DOMAIN batches' : batches'[b] = new \/ (b \in DOMAIN batches /\ batches'[b] = batches[b])
        BY <2>5, <4>1, <4>2
      <4>5. \A n \in BatchNumbers' : n \in BatchNumbers \/ n = new.number
        BY <4>4 DEF BatchNumbers
      <4>6. BatchNumbers \subseteq Nat
        <5>1. ASSUME NEW b \in DOMAIN batches PROVE batches[b].number \in Nat
          <6>1. batches[b] \in Batch
            BY <2>5, <5>1
          <6> QED BY <6>1 DEF Batch
        <5> QED BY <5>1 DEF BatchNumbers
      <4>7. u + new.number \in Nat /\ \A n \in BatchNumbers' : n <= u + new.number
        <5>1. \A n \in BatchNumbers : n \in Nat /\ n <= u
          BY <4>3, <4>6
        <5>2. ASSUME NEW n \in BatchNumbers' PROVE n <= u + new.number
          BY <4>1, <4>3, <4>5, <5>1
        <5> QED BY <4>1, <4>3, <5>2
      <4> QED BY <2>5, <4>1, <4>2, <4>7 DEF Bounded
    <3> QED BY <3>1, <3>2
  <2>7. /\ started' \in 0..MaxStarts /\ twins' \subseteq {"import", "build"} /\ jostled' \subseteq LeadIds
        /\ reopened' \subseteq LeadIds /\ pestered' \subseteq LeadIds
    <3>0. /\ started \in 0..MaxStarts /\ twins \subseteq {"import", "build"} /\ jostled \subseteq LeadIds
          /\ reopened \subseteq LeadIds /\ pestered \subseteq LeadIds /\ LeadRows \subseteq LeadIds /\ MaxStarts \in Nat
      BY LeadsAssumption DEF LeadsShape, LeadsTypeOK, LeadRows, LeadIds
    <3>1. CASE Loaded(d, x)
      <4>1. PICK i \in LeadRows : \E row \in LeadRow : Loads(d, i, row)
        BY <3>1 DEF Loaded
      <4>2. StartsAt(d) /\ Jostle(d, {i}) /\ UNCHANGED <<twins, pestered>> /\ reopened' \subseteq LeadIds
        BY <4>1 DEF Loads, LoadLead
      <4> QED BY <3>0, <4>2 DEF StartsAt, Jostle
    <3>2. CASE Imported(d, x)
      BY <3>0, <3>2 DEF Imported, Import, StartsAt, Twins
    <3>3. CASE WentOn(d, x)
      <4>1. UNCHANGED <<started, jostled, reopened, pestered>>
        BY <3>3 DEF WentOn, CommitImport
      <4>2. twins' = twins \/ Twins(d, "build", {"select", "batch"})
        BY <3>3 DEF WentOn
      <4> QED BY <3>0, <4>1, <4>2 DEF Twins
    <3>4. CASE Began(d, x)
      BY <3>0, <3>4 DEF Began, BuildCampaign, Numbering, StartsAt, Twins
    <3>5. CASE Selected(d, x)
      <4>1. UNCHANGED <<started, twins, reopened>>
        BY <3>5 DEF Selected, SelectLeads
      <4>2. Jostle(d, x.chosen) /\ x.chosen \subseteq LeadRows /\ pestered' = pestered \cup {i \in x.chosen : RowOf(i).optOut}
        BY <3>5 DEF Selected
      <4> QED BY <3>0, <4>1, <4>2 DEF Jostle
    <3>6. CASE CommitLead(d) \/ CommitCampaign(d)
      BY <3>0, <3>6 DEF CommitLead, CommitCampaign
    <3> QED BY <2>2, <3>1, <3>2, <3>3, <3>4, <3>5, <3>6
  <2> QED BY <2>3, <2>6, <2>7 DEF LeadsShape, LeadsTypeOK
<1>2. CASE UNCHANGED leadsVars
  BY <1>2 DEF leadsVars, LeadsShape, LeadsTypeOK, Bounded, BatchNumbers, LeadRows
<1> QED BY <1>1, <1>2

-----------------------------------------------------------------------------
\* Unless two imports met, at most one is at work, and the companies it found missing still are.
ImportsInv ==
  "import" \notin twins =>
    /\ \A k \in Companies : Len(lead[k]) <= 1
    /\ \A d \in Desks : desk[d].pc = "import" =>
         /\ \A e \in Desks \ {d} : desk[e].pc # "import"
         /\ \A k \in desk[d].missing : Len(lead[k]) = 0

LEMMA ImportsInvInit == LeadsInit => ImportsInv
BY FreeDeskOK DEF LeadsInit, ImportsInv

\* persist_leads looks for companies and adds them in one request; others look meanwhile only as a
\* twin.
LEMMA ImportsInvStep ==
  ASSUME LeadsShape, ImportsInv, [LeadsNext]_leadsVars PROVE ImportsInv'
<1>1. CASE LeadsNext
  <2>1. PICK d \in Desks : \E x : /\ Sits(d, x) /\ DeskOK(x)
           /\ (x.pc = "lead" => x.id \in LeadRows) /\ x.chosen \subseteq LeadRows
           /\ \/ Loaded(d, x) \/ Imported(d, x) \/ WentOn(d, x) \/ Began(d, x) \/ Selected(d, x)
              \/ (CommitLead(d) \/ CommitCampaign(d)) /\ x = FreeDesk
    BY <1>1, DeskSteps
  <2>2. PICK x : /\ Sits(d, x) /\ DeskOK(x)
           /\ (x.pc = "lead" => x.id \in LeadRows) /\ x.chosen \subseteq LeadRows
           /\ \/ Loaded(d, x) \/ Imported(d, x) \/ WentOn(d, x) \/ Began(d, x) \/ Selected(d, x)
              \/ (CommitLead(d) \/ CommitCampaign(d)) /\ x = FreeDesk
    BY <2>1
  <2>3. /\ desk'[d] = x /\ \A e \in Desks : e # d => desk'[e] = desk[e]
        /\ Loaded(d, x) \/ Imported(d, x) \/ Began(d, x) \/ Selected(d, x) => lead' = lead
    BY <2>2, RowsStay
  <2>4. twins \subseteq twins'
    BY <2>2 DEF Loaded, Loads, LoadLead, Imported, Import, WentOn, Began, BuildCampaign, Numbering, Twins,
                Selected, SelectLeads, CommitLead, CommitCampaign
  <2>5. SUFFICES ASSUME "import" \notin twins, "import" \notin twins' PROVE ImportsInv'
    BY <2>4 DEF ImportsInv
  <2>6. lead \in [Companies -> Seq(LeadRow)] /\ \A e \in Desks : desk[e] \in Desk
    BY DEF LeadsShape, LeadsTypeOK
  <2>7. CASE Imported(d, x)
    <3>1. PICK K \in SUBSET Companies : Import(d, K) /\ x.pc = "import" /\ x.missing = {k \in K : lead[k] = << >>}
      BY <2>7 DEF Imported
    <3>2. \A e \in Desks \ {d} : desk[e].pc # "import"
      BY <2>5, <3>1 DEF Import, Twins
    <3>3. \A k \in x.missing : Len(lead[k]) = 0
      BY <3>1
    <3> QED BY <2>3, <2>5, <2>7, <3>1, <3>2, <3>3 DEF ImportsInv
  <2>8. CASE WentOn(d, x)
    <3>1. PICK goesOn \in BOOLEAN : CommitImport(d, goesOn) /\ x.pc # "import"
      <4>1. PICK goesOn \in BOOLEAN : CommitImport(d, goesOn) /\ (IF goesOn THEN x.pc = "select" ELSE x.pc = "idle")
        BY <2>8 DEF WentOn
      <4> QED BY <4>1
    <3>2. desk[d].pc = "import"
      BY <3>1 DEF CommitImport
    <3>3. /\ \A e \in Desks \ {d} : desk[e].pc # "import"
          /\ \A k \in desk[d].missing : Len(lead[k]) = 0
          /\ \A k \in Companies : Len(lead[k]) <= 1
      BY <2>5, <3>2 DEF ImportsInv
    <3>4. \A k \in Companies : IF k \in desk[d].missing THEN Len(lead'[k]) = Len(lead[k]) + 1 ELSE Len(lead'[k]) = Len(lead[k])
      BY <3>1, ImportCommitted
    <3>5. \A k \in Companies : Len(lead'[k]) <= 1
      BY <3>3, <3>4
    <3>6. \A e \in Desks : desk'[e].pc # "import"
      BY <2>3, <3>1, <3>3
    <3> QED BY <3>5, <3>6 DEF ImportsInv
  <2>9. CASE ~Imported(d, x) /\ ~WentOn(d, x)
    <3>1. x.pc # "import"
      <4>1. x.pc \in {"lead", "select", "batch", "idle"}
        BY <2>2, <2>9, FreeDeskOK DEF Loaded, Began, Selected
      <4> QED BY <4>1
    <3>2. \A k \in Companies : Len(lead'[k]) = Len(lead[k])
      <4>1. CASE CommitLead(d)
        BY <4>1, LeadCommitted
      <4>2. CASE CommitCampaign(d)
        BY <4>2, CampaignCommitted
      <4> QED BY <2>2, <2>3, <2>9, <4>1, <4>2
    <3>3. \A e \in Desks : desk[e].missing \subseteq Companies
      BY <2>6 DEF Desk
    <3> QED BY <2>3, <2>5, <3>1, <3>2, <3>3 DEF ImportsInv
  <2> QED BY <2>7, <2>8, <2>9
<1>2. CASE UNCHANGED leadsVars
  BY <1>2 DEF leadsVars, ImportsInv
<1> QED BY <1>1, <1>2

-----------------------------------------------------------------------------
\* Unless two builds met, at most one is at work, with a number above those of the batches and
\* leads that are in none of them.
Building(r) == r.pc \in {"select", "batch"}
BuildsInv ==
  "build" \notin twins =>
    /\ \A b, c \in DOMAIN batches : b # c =>
         batches[b].number # batches[c].number /\ batches[b].leads \cap batches[c].leads = {}
    /\ \A d \in Desks : Building(desk[d]) =>
         /\ \A e \in Desks \ {d} : ~Building(desk[e])
         /\ \A b \in DOMAIN batches : /\ batches[b].number < desk[d].number
                                      /\ batches[b].leads \cap desk[d].chosen = {}

LEMMA BuildsInvInit == LeadsInit => BuildsInv
BY FreeDeskOK DEF LeadsInit, BuildsInv, Building

\* build_campaign takes the number after the highest and leads no batch has.
LEMMA BuildsInvStep ==
  ASSUME LeadsShape, BuildsInv, [LeadsNext]_leadsVars PROVE BuildsInv'
<1>1. CASE LeadsNext
  <2>1. PICK d \in Desks : \E x : /\ Sits(d, x) /\ DeskOK(x)
           /\ (x.pc = "lead" => x.id \in LeadRows) /\ x.chosen \subseteq LeadRows
           /\ \/ Loaded(d, x) \/ Imported(d, x) \/ WentOn(d, x) \/ Began(d, x) \/ Selected(d, x)
              \/ (CommitLead(d) \/ CommitCampaign(d)) /\ x = FreeDesk
    BY <1>1, DeskSteps
  <2>2. PICK x : /\ Sits(d, x) /\ DeskOK(x)
           /\ (x.pc = "lead" => x.id \in LeadRows) /\ x.chosen \subseteq LeadRows
           /\ \/ Loaded(d, x) \/ Imported(d, x) \/ WentOn(d, x) \/ Began(d, x) \/ Selected(d, x)
              \/ (CommitLead(d) \/ CommitCampaign(d)) /\ x = FreeDesk
    BY <2>1
  <2>3. /\ desk'[d] = x /\ \A e \in Desks : e # d => desk'[e] = desk[e]
        /\ LeadRows \subseteq LeadRows' /\ \A e \in Desks : DeskOK(desk'[e]) /\ DeskTied(desk'[e], LeadRows')
        /\ Loaded(d, x) \/ Imported(d, x) \/ Began(d, x) \/ Selected(d, x) => lead' = lead
    BY <2>2, RowsStay
  <2>4. \A e \in Desks : desk[e] \in Desk /\ DeskOK(desk[e]) /\ DeskTied(desk[e], LeadRows)
    BY DEF LeadsShape, LeadsTypeOK
  <2>5. twins \subseteq twins'
    BY <2>2 DEF Loaded, Loads, LoadLead, Imported, Import, WentOn, Began, BuildCampaign, Numbering, Twins,
                Selected, SelectLeads, CommitLead, CommitCampaign
  <2>6. SUFFICES ASSUME "build" \notin twins, "build" \notin twins' PROVE BuildsInv'
    BY <2>5 DEF BuildsInv
  <2>7. CASE Building(x) /\ ~Selected(d, x)
    <3>1. /\ \A e \in Desks \ {d} : ~Building(desk[e])
          /\ \A n \in BatchNumbers : n < x.number
          /\ x.chosen = {} /\ batches' = batches
      <4>1. WentOn(d, x) \/ Began(d, x)
        BY <2>2, <2>7, FreeDeskOK DEF Building, Loaded, Imported
      <4>2. Twins(d, "build", {"select", "batch"}) /\ \A n \in BatchNumbers : n < x.number
        <5>1. CASE WentOn(d, x)
          <6>1. PICK goesOn \in BOOLEAN : IF goesOn THEN /\ x.pc = "select" /\ (\A n \in BatchNumbers : n < x.number)
                                                         /\ Twins(d, "build", {"select", "batch"})
                                                    ELSE x.pc = "idle" /\ twins' = twins
            BY <5>1 DEF WentOn
          <6> QED BY <2>7, <6>1 DEF Building
        <5>2. CASE Began(d, x)
          BY <5>2 DEF Began, BuildCampaign, Numbering
        <5> QED BY <4>1, <5>1, <5>2
      <4>3. \A e \in Desks \ {d} : ~Building(desk[e])
        BY <2>6, <4>2 DEF Twins, Building
      <4>4. x.pc = "select" /\ batches' = batches
        BY <2>7, <4>1 DEF WentOn, CommitImport, Began, BuildCampaign, Building
      <4> QED BY <2>2, <4>2, <4>3, <4>4 DEF DeskOK
    <3>2. \A b \in DOMAIN batches : batches[b].number < x.number /\ batches[b].leads \cap x.chosen = {}
      BY <3>1 DEF BatchNumbers
    <3> QED BY <2>3, <2>6, <3>1, <3>2 DEF BuildsInv
  <2>8. CASE Selected(d, x)
    <3>1. Building(desk[d]) /\ x.number = desk[d].number /\ batches' = batches /\ Building(x)
      BY <2>8 DEF Selected, SelectLeads, Building
    <3>2. \A b \in DOMAIN batches : batches[b].leads \cap x.chosen = {}
      BY <2>8 DEF Selected, InNoBatch
    <3> QED BY <2>3, <2>6, <3>1, <3>2 DEF BuildsInv
  <2>9. CASE CommitCampaign(d)
    <3> DEFINE new == [number |-> desk[d].number, leads |-> desk[d].chosen]
               Batch == [number : Nat, leads : SUBSET LeadIds]
    <3>1. Building(desk[d]) /\ batches' = Append(batches, new) /\ ~Building(x)
      BY <2>9, <2>2, FreeDeskOK DEF CommitCampaign, Building, Selected, SelectLeads, Loaded, Imported, Began, WentOn,
                                    Loads, LoadLead, StartsAt, Import, BuildCampaign, CommitImport
    <3>2. /\ \A e \in Desks : ~Building(desk'[e])
          /\ \A b \in DOMAIN batches : batches[b].number < new.number /\ batches[b].leads \cap new.leads = {}
      BY <2>3, <2>6, <3>1 DEF BuildsInv
    <3>3. \A b \in DOMAIN batches : batches[b].number \in Nat
      <4>1. batches \in Seq(Batch)
        BY DEF LeadsShape, LeadsTypeOK
      <4>2. \A b \in DOMAIN batches : batches[b] \in Batch
        <5> HIDE DEF Batch
        <5> QED BY <4>1
      <4> QED BY <4>2
    <3>4. new.number \in Nat
      BY <2>4 DEF Desk
    <3> HIDE DEF new
    <3>5. \A b \in DOMAIN batches' : (b \in DOMAIN batches /\ batches'[b] = batches[b]) \/ (b = Len(batches) + 1 /\ batches'[b] = new)
      <4>1. batches \in Seq(Batch)
        BY DEF LeadsShape, LeadsTypeOK
      <4> HIDE DEF Batch
      <4> QED BY <3>1, <4>1
    <3>6. ASSUME NEW b \in DOMAIN batches', NEW c \in DOMAIN batches', b # c
          PROVE  batches'[b].number # batches'[c].number /\ batches'[b].leads \cap batches'[c].leads = {}
      <4>1. CASE b \in DOMAIN batches /\ c \in DOMAIN batches /\ batches'[b] = batches[b] /\ batches'[c] = batches[c]
        BY <2>6, <3>6, <4>1 DEF BuildsInv
      <4>2. CASE b \in DOMAIN batches /\ batches'[b] = batches[b] /\ batches'[c] = new
        <5>1. batches[b].number < new.number /\ batches[b].leads \cap new.leads = {} /\ batches[b].number \in Nat
          BY <3>2, <3>3, <4>2
        <5> QED BY <3>4, <4>2, <5>1
      <4>3. CASE c \in DOMAIN batches /\ batches'[c] = batches[c] /\ batches'[b] = new
        <5>1. batches[c].number < new.number /\ batches[c].leads \cap new.leads = {} /\ batches[c].number \in Nat
          BY <3>2, <3>3, <4>3
        <5> QED BY <3>4, <4>3, <5>1
      <4> QED BY <3>5, <3>6, <4>1, <4>2, <4>3
    <3> QED BY <3>2, <3>6 DEF BuildsInv
  <2>10. CASE ~Building(x) /\ ~CommitCampaign(d)
    <3>1. batches' = batches
      BY <2>2, <2>10 DEF Loaded, Loads, LoadLead, Imported, Import, WentOn, CommitImport, Began, BuildCampaign,
                         Selected, SelectLeads, CommitLead
    <3> QED BY <2>3, <2>6, <2>10, <3>1 DEF BuildsInv
  <2> QED BY <2>7, <2>8, <2>9, <2>10
<1>2. CASE UNCHANGED leadsVars
  BY <1>2 DEF leadsVars, BuildsInv, Building
<1> QED BY <1>1, <1>2

-----------------------------------------------------------------------------
\* Only the owner makes a lead NEW again: a desk that read another status of a lead he left alone
\* finds that the lead is not NEW, and no such lead is NEW once it opted out.
StaysOut(i) ==
  /\ RowOf(i).optOut => RowOf(i).status # "NEW"
  /\ \A d \in Desks : desk[d].pc = "lead" /\ desk[d].id = i =>
       /\ RowOf(i).status = "NEW" => desk[d].was.status = "NEW"
       /\ desk[d].now.status = "NEW" => desk[d].was.status = "NEW"
       /\ desk[d].now.optOut => desk[d].now.status # "NEW"
StayOutInv == (\A i \in LeadRows \ reopened : StaysOut(i)) /\ LeftAlone

LEMMA StayOutInvInit == LeadsInit => StayOutInv
BY DEF LeadsInit, StayOutInv, StaysOut, LeadRows, LeftAlone

\* No import, message or follow-up makes a lead NEW.
LEMMA StayOutInvStep ==
  ASSUME LeadsShape, StayOutInv, [LeadsNext]_leadsVars PROVE StayOutInv'
<1>1. CASE LeadsNext
  <2>1. PICK d \in Desks : \E x : /\ Sits(d, x) /\ DeskOK(x)
           /\ (x.pc = "lead" => x.id \in LeadRows) /\ x.chosen \subseteq LeadRows
           /\ \/ Loaded(d, x) \/ Imported(d, x) \/ WentOn(d, x) \/ Began(d, x) \/ Selected(d, x)
              \/ (CommitLead(d) \/ CommitCampaign(d)) /\ x = FreeDesk
    BY <1>1, DeskSteps
  <2>2. PICK x : /\ Sits(d, x) /\ DeskOK(x)
           /\ (x.pc = "lead" => x.id \in LeadRows) /\ x.chosen \subseteq LeadRows
           /\ \/ Loaded(d, x) \/ Imported(d, x) \/ WentOn(d, x) \/ Began(d, x) \/ Selected(d, x)
              \/ (CommitLead(d) \/ CommitCampaign(d)) /\ x = FreeDesk
    BY <2>1
  <2>3. /\ desk'[d] = x /\ \A e \in Desks : e # d => desk'[e] = desk[e]
        /\ LeadRows \subseteq LeadRows' /\ \A e \in Desks : DeskOK(desk'[e]) /\ DeskTied(desk'[e], LeadRows')
        /\ Loaded(d, x) \/ Imported(d, x) \/ Began(d, x) \/ Selected(d, x) => lead' = lead
    BY <2>2, RowsStay
  <2>4. \A e \in Desks : desk[e] \in Desk /\ DeskOK(desk[e]) /\ DeskTied(desk[e], LeadRows)
    BY DEF LeadsShape, LeadsTypeOK
  <2>5. reopened \subseteq reopened' /\ (~Loaded(d, x) => reopened' = reopened) /\ (~Selected(d, x) => pestered' = pestered)
    BY <2>2 DEF Loaded, Loads, LoadLead, Imported, Import, WentOn, CommitImport, Began, BuildCampaign, Numbering, Twins,
                Selected, SelectLeads, CommitLead, CommitCampaign
  <2>6. LeftAlone'
    <3>1. \A i \in LeadRows \ reopened : RowOf(i).optOut => RowOf(i).status # "NEW"
      BY DEF StayOutInv, StaysOut
    <3>2. Selected(d, x) => pestered' \subseteq reopened
      BY <3>1 DEF Selected, StayOutInv, LeftAlone
    <3> QED BY <2>5, <3>2 DEF StayOutInv, LeftAlone
  \* A row no step writes.
  <2>7. ASSUME NEW i \in LeadRows \ reopened, RowOf(i)' = RowOf(i), ~(Loaded(d, x) /\ x.id = i) PROVE StaysOut(i)'
    <3>1. StaysOut(i)
      BY DEF StayOutInv
    <3>2. x.pc = "lead" => Loaded(d, x)
      BY <2>2, FreeDeskOK DEF Imported, WentOn, Began, Selected
    <3> QED BY <2>3, <2>7, <3>1, <3>2 DEF StaysOut
  <2>8. CASE Loaded(d, x)
    <3>0. PICK i \in LeadRows : \E row \in LeadRow :
             /\ Loads(d, i, row) /\ x.id = i /\ x.was = RowOf(i) /\ x.now = [row EXCEPT !.told = row.status]
      BY <2>8 DEF Loaded
    <3>1. PICK row \in LeadRow : /\ Loads(d, i, row) /\ x.id = i /\ x.was = RowOf(i) /\ x.now = [row EXCEPT !.told = row.status]
      BY <3>0
    <3>2. x.now.status = row.status /\ x.now.optOut = row.optOut
      BY <3>1 DEF LeadRow
    <3>3. lead' = lead
      BY <2>3, <2>8
    <3>4. ASSUME i \notin reopened' PROVE StaysOut(i)'
      <4>1. StaysOut(i)
        BY <2>5, <3>4 DEF StayOutInv
      <4>2. /\ row.status = "NEW" => RowOf(i).status = "NEW"
            /\ row.optOut => row.status # "NEW" \/ RowOf(i).optOut
        BY <3>1, <3>4 DEF Loads
      <4>3. RowOf(i)' = RowOf(i)
        BY <3>3 DEF RowOf
      <4>4. RowOf(i).optOut => RowOf(i).status # "NEW"
        BY <4>1 DEF StaysOut
      <4>5. /\ RowOf(i).status = "NEW" => x.was.status = "NEW"
            /\ x.now.status = "NEW" => x.was.status = "NEW"
            /\ x.now.optOut => x.now.status # "NEW"
        BY <3>1, <3>2, <4>2, <4>4
      <4>6. ASSUME NEW e \in Desks, desk'[e].pc = "lead", desk'[e].id = i
            PROVE  /\ RowOf(i).status = "NEW" => desk'[e].was.status = "NEW"
                   /\ desk'[e].now.status = "NEW" => desk'[e].was.status = "NEW"
                   /\ desk'[e].now.optOut => desk'[e].now.status # "NEW"
        BY <2>3, <4>1, <4>5, <4>6 DEF StaysOut
      <4> QED BY <4>3, <4>4, <4>6 DEF StaysOut
    <3>5. ASSUME NEW j \in LeadRows' \ reopened', j # i PROVE StaysOut(j)'
      <4>1. j \in LeadRows \ reopened /\ RowOf(j)' = RowOf(j)
        BY <2>5, <3>3 DEF LeadRows, RowOf
      <4> QED BY <2>7, <3>1, <3>5, <4>1
    <3> QED BY <2>6, <3>4, <3>5 DEF StayOutInv
  <2>9. CASE CommitLead(d)
    <3> DEFINE r == desk[d]
               i == desk[d].id
    <3>0. PICK rr, ii : rr = desk[d] /\ ii = desk[d].id
      OBVIOUS
    <3>1. /\ LeadRows' = LeadRows /\ ii \in LeadRows
          /\ \A j \in LeadRows : j # ii => RowOf(j)' = RowOf(j)
          /\ RowOf(ii)' = [status |-> IF rr.now.status = rr.was.status THEN RowOf(ii).status ELSE rr.now.status,
                           optOut |-> IF rr.now.optOut = rr.was.optOut THEN RowOf(ii).optOut ELSE rr.now.optOut,
                           told |-> rr.now.told]
      BY <2>9, <3>0, LeadCommitted
    <3>2. RowOf(ii)'.status = (IF rr.now.status = rr.was.status THEN RowOf(ii).status ELSE rr.now.status)
          /\ RowOf(ii)'.optOut = (IF rr.now.optOut = rr.was.optOut THEN RowOf(ii).optOut ELSE rr.now.optOut)
      BY <3>1
    <3>3. ~Loaded(d, x) /\ x.pc # "lead"
      BY <2>9, <2>2, FreeDeskOK DEF CommitLead, Loaded, Loads, LoadLead, StartsAt, Imported, Import, WentOn, CommitImport,
                                    Began, BuildCampaign, Selected, SelectLeads
    <3>4. ASSUME ii \notin reopened PROVE StaysOut(ii)'
      <4>1. StaysOut(ii)
        BY <3>1, <3>4 DEF StayOutInv
      <4>2. /\ RowOf(ii).optOut => RowOf(ii).status # "NEW"
            /\ RowOf(ii).status = "NEW" => rr.was.status = "NEW"
            /\ rr.now.status = "NEW" => rr.was.status = "NEW"
            /\ rr.now.optOut => rr.now.status # "NEW"
        BY <2>9, <3>0, <4>1 DEF StaysOut, CommitLead
      <4>3. /\ RowOf(ii)'.status = "NEW" => RowOf(ii).status = "NEW" /\ rr.now.status = "NEW"
            /\ RowOf(ii)'.optOut => RowOf(ii)'.status # "NEW"
        BY <3>2, <4>2
      <4> QED BY <2>3, <3>3, <4>1, <4>3 DEF StaysOut
    <3>5. ASSUME NEW j \in LeadRows' \ reopened', j # ii PROVE StaysOut(j)'
      BY <2>5, <2>7, <3>1, <3>3, <3>5
    <3> QED BY <2>5, <2>6, <3>1, <3>3, <3>4, <3>5 DEF StayOutInv
  <2>10. CASE CommitCampaign(d)
    <3>1. /\ LeadRows' = LeadRows
          /\ \A i \in LeadRows : RowOf(i)' = IF i \in desk[d].chosen THEN WithStatus(RowOf(i), "READY") ELSE RowOf(i)
      BY <2>10, CampaignCommitted
    <3>2. ~Loaded(d, x) /\ x.pc # "lead"
      BY <2>10, <2>2, FreeDeskOK DEF CommitCampaign, Loaded, Loads, LoadLead, StartsAt, Imported, Import, WentOn, CommitImport,
                                    Began, BuildCampaign, Selected, SelectLeads
    <3>3. ASSUME NEW i \in LeadRows \ reopened, i \in desk[d].chosen PROVE StaysOut(i)'
      <4>1. StaysOut(i)
        BY DEF StayOutInv
      <4>2. RowOf(i) \in LeadRow
        BY DEF LeadRows, LeadsShape, LeadsTypeOK, RowOf
      <4>3. RowOf(i)'.status = "READY"
        BY <3>1, <3>3, <4>2 DEF WithStatus, LeadRow
      <4> QED BY <2>3, <3>2, <4>1, <4>3 DEF StaysOut
    <3> QED BY <2>5, <2>6, <2>7, <3>1, <3>2, <3>3 DEF StayOutInv
  <2>11. CASE WentOn(d, x)
    <3>1. /\ \A i \in LeadRows : RowOf(i)' = RowOf(i)
          /\ \A i \in LeadRows' : i \notin LeadRows => RowOf(i)' = NewLead
      BY <2>11, ImportCommitted DEF WentOn
    <3>2. x.pc # "lead" /\ ~Loaded(d, x)
      BY <2>11 DEF WentOn, Loaded
    <3>3. ASSUME NEW i \in LeadRows', i \notin LeadRows PROVE StaysOut(i)'
      <4>1. ~RowOf(i)'.optOut
        BY <3>1, <3>3 DEF NewLead
      <4>2. \A e \in Desks : desk'[e].pc = "lead" => desk'[e].id # i
        BY <2>3, <2>4, <3>2, <3>3 DEF DeskTied
      <4> QED BY <4>1, <4>2 DEF StaysOut
    <3> QED BY <2>5, <2>6, <2>7, <3>1, <3>2, <3>3 DEF StayOutInv
  <2>12. CASE Imported(d, x) \/ Began(d, x) \/ Selected(d, x)
    <3>1. lead' = lead /\ ~Loaded(d, x)
      BY <2>2, <2>3, <2>12 DEF Imported, Began, Selected, Loaded
    <3>2. LeadRows' = LeadRows /\ \A i \in LeadRows : RowOf(i)' = RowOf(i)
      BY <3>1 DEF LeadRows, RowOf
    <3> QED BY <2>5, <2>6, <2>7, <3>1, <3>2 DEF StayOutInv
  <2> QED BY <2>2, <2>8, <2>9, <2>10, <2>11, <2>12
<1>2. CASE UNCHANGED leadsVars
  BY <1>2 DEF leadsVars, StayOutInv, StaysOut, LeftAlone, LeadRows, RowOf
<1> QED BY <1>1, <1>2

-----------------------------------------------------------------------------
\* A lead that no two desks were at is as its desk loaded it, and the desk's event tells its change.
Alone(i) == \A d, e \in Desks : i \in HeldBy(d) /\ i \in HeldBy(e) => d = e
Told(i) ==
  /\ \/ RowOf(i).status = RowOf(i).told
     \/ (RowOf(i).status = "READY" /\ \E b \in DOMAIN batches : i \in batches[b].leads)
  /\ Alone(i)
  /\ \A d \in Desks : desk[d].pc = "lead" /\ desk[d].id = i =>
       desk[d].was = RowOf(i) /\ desk[d].now.told = desk[d].now.status
EventsInv == \A i \in LeadRows \ jostled : Told(i)

LEMMA EventsInvInit == LeadsInit => EventsInv
BY DEF LeadsInit, EventsInv, LeadRows

\* Whoever changes a status writes its event in the same commit.
LEMMA EventsInvStep ==
  ASSUME LeadsShape, EventsInv, [LeadsNext]_leadsVars PROVE EventsInv'
<1>1. CASE LeadsNext
  <2>1. PICK d \in Desks : \E x : /\ Sits(d, x) /\ DeskOK(x)
           /\ (x.pc = "lead" => x.id \in LeadRows) /\ x.chosen \subseteq LeadRows
           /\ \/ Loaded(d, x) \/ Imported(d, x) \/ WentOn(d, x) \/ Began(d, x) \/ Selected(d, x)
              \/ (CommitLead(d) \/ CommitCampaign(d)) /\ x = FreeDesk
    BY <1>1, DeskSteps
  <2>2. PICK x : /\ Sits(d, x) /\ DeskOK(x)
           /\ (x.pc = "lead" => x.id \in LeadRows) /\ x.chosen \subseteq LeadRows
           /\ \/ Loaded(d, x) \/ Imported(d, x) \/ WentOn(d, x) \/ Began(d, x) \/ Selected(d, x)
              \/ (CommitLead(d) \/ CommitCampaign(d)) /\ x = FreeDesk
    BY <2>1
  <2>3. /\ desk'[d] = x /\ \A e \in Desks : e # d => desk'[e] = desk[e]
        /\ LeadRows \subseteq LeadRows' /\ \A e \in Desks : DeskOK(desk'[e]) /\ DeskTied(desk'[e], LeadRows')
        /\ Loaded(d, x) \/ Imported(d, x) \/ Began(d, x) \/ Selected(d, x) => lead' = lead
    BY <2>2, RowsStay
  <2>4. \A e \in Desks : desk[e] \in Desk /\ DeskOK(desk[e]) /\ DeskTied(desk[e], LeadRows)
    BY DEF LeadsShape, LeadsTypeOK
  <2>5. jostled \subseteq jostled' /\ \A b \in DOMAIN batches : b \in DOMAIN batches' /\ batches'[b] = batches[b]
    <3>1. jostled \subseteq jostled'
      BY <2>2 DEF Loaded, Loads, LoadLead, Imported, Import, WentOn, CommitImport, Began, BuildCampaign, Jostle,
                  Selected, SelectLeads, CommitLead, CommitCampaign
    <3>2. CASE ~CommitCampaign(d)
      <4>1. batches' = batches
        BY <2>2, <3>2 DEF Loaded, Loads, LoadLead, Imported, Import, WentOn, CommitImport, Began, BuildCampaign,
                          Selected, SelectLeads, CommitLead
      <4> QED BY <3>1, <4>1
    <3>3. CASE CommitCampaign(d)
      <4> DEFINE Batch == [number : Nat, leads : SUBSET LeadIds]
      <4>1. batches \in Seq(Batch) /\ batches' = Append(batches, [number |-> desk[d].number, leads |-> desk[d].chosen])
        BY <3>3 DEF LeadsShape, LeadsTypeOK, CommitCampaign
      <4>2. DOMAIN batches = 1..Len(batches) /\ Len(batches) \in Nat
        <5> HIDE DEF Batch
        <5> QED BY <4>1
      <4>3. [number |-> desk[d].number, leads |-> desk[d].chosen] \in Batch
        BY <2>4 DEF Desk
      <4> HIDE DEF Batch
      <4> QED BY <3>1, <4>1, <4>2, <4>3
    <3> QED BY <3>2, <3>3
  <2>6. ASSUME NEW i \in LeadRows PROVE i # NoLead
    BY LeadsAssumption DEF LeadRows, NoLead
  \* Nobody else is at a lead that is not jostled, and the mover is only where it says.
  <2>7. ASSUME NEW i \in LeadRows \ jostled', \A e \in Desks \ {d} : i \in HeldBy(d)' => i \notin HeldBy(e)
        PROVE  Alone(i)'
    <3>1. Alone(i)
      BY <2>5 DEF EventsInv, Told
    <3>2. \A e \in Desks \ {d} : HeldBy(e)' = HeldBy(e)
      BY <2>3 DEF HeldBy
    <3> QED BY <2>7, <3>1, <3>2 DEF Alone
  \* A row no step writes, at which the mover does not arrive.
  <2>8. ASSUME NEW i \in LeadRows \ jostled', RowOf(i)' = RowOf(i), i \notin HeldBy(d)' PROVE Told(i)'
    <3>1. Told(i)
      BY <2>5 DEF EventsInv
    <3>2. Alone(i)'
      BY <2>7, <2>8
    <3>3. desk'[d].id # i
      BY <2>8 DEF HeldBy
    <3>4. \A e \in Desks : desk'[e].pc = "lead" /\ desk'[e].id = i => desk'[e] = desk[e]
      BY <2>3, <3>3
    <3>5. \A e \in Desks : desk'[e].pc = "lead" /\ desk'[e].id = i =>
             desk'[e].was = RowOf(i)' /\ desk'[e].now.told = desk'[e].now.status
      BY <2>8, <3>1, <3>4 DEF Told
    <3>6. \/ RowOf(i)'.status = RowOf(i)'.told
          \/ (RowOf(i)'.status = "READY" /\ \E b \in DOMAIN batches' : i \in batches'[b].leads)
      BY <2>5, <2>8, <3>1 DEF Told
    <3> QED BY <3>2, <3>5, <3>6 DEF Told
  <2>9. CASE Loaded(d, x)
    <3>0. PICK i \in LeadRows : \E row \in LeadRow :
             /\ Loads(d, i, row) /\ x.pc = "lead" /\ x.id = i /\ x.was = RowOf(i)
             /\ x.now = [row EXCEPT !.told = row.status] /\ x.chosen = {}
      BY <2>9 DEF Loaded
    <3>1. PICK row \in LeadRow : /\ Loads(d, i, row) /\ x.pc = "lead" /\ x.id = i /\ x.was = RowOf(i)
                                 /\ x.now = [row EXCEPT !.told = row.status] /\ x.chosen = {}
      BY <3>0
    <3>2. x.now.told = x.now.status
      BY <3>1 DEF LeadRow
    <3>3. lead' = lead /\ Jostle(d, {i}) /\ HeldBy(d)' = {i}
      BY <2>3, <2>9, <3>1 DEF Loads, LoadLead, HeldBy
    <3>4. LeadRows' = LeadRows /\ \A j \in LeadRows : RowOf(j)' = RowOf(j)
      BY <3>3 DEF LeadRows, RowOf
    <3>5. ASSUME i \notin jostled' PROVE Told(i)'
      <4>1. Told(i) /\ \A e \in Desks \ {d} : i \notin HeldBy(e)
        BY <2>5, <3>3, <3>5 DEF EventsInv, Jostle
      <4>2. Alone(i)'
        BY <2>7, <3>5, <4>1
      <4>3. \A e \in Desks \ {d} : desk'[e].id # i
        BY <2>3, <4>1 DEF HeldBy
      <4>4. \A e \in Desks : desk'[e].pc = "lead" /\ desk'[e].id = i =>
               desk'[e].was = RowOf(i)' /\ desk'[e].now.told = desk'[e].now.status
        BY <2>3, <3>1, <3>2, <3>4, <4>3
      <4>5. \/ RowOf(i)'.status = RowOf(i)'.told
            \/ (RowOf(i)'.status = "READY" /\ \E b \in DOMAIN batches' : i \in batches'[b].leads)
        BY <2>5, <3>4, <4>1 DEF Told
      <4> QED BY <4>2, <4>4, <4>5 DEF Told
    <3> QED BY <2>8, <3>3, <3>4, <3>5 DEF EventsInv
  <2>10. CASE Selected(d, x)
    <3>1. lead' = lead /\ Jostle(d, x.chosen) /\ HeldBy(d)' = {NoLead} \cup x.chosen /\ x.pc = "batch"
      BY <2>2, <2>3, <2>10 DEF Selected, HeldBy, DeskOK
    <3>2. LeadRows' = LeadRows /\ \A j \in LeadRows : RowOf(j)' = RowOf(j)
      BY <3>1 DEF LeadRows, RowOf
    <3>3. ASSUME NEW i \in LeadRows \ jostled', i \in x.chosen PROVE Told(i)'
      <4>1. Told(i) /\ \A e \in Desks \ {d} : i \notin HeldBy(e)
        BY <2>5, <3>1, <3>3 DEF EventsInv, Jostle
      <4>2. Alone(i)'
        BY <2>7, <4>1
      <4>3. \A e \in Desks : desk'[e].pc = "lead" => desk'[e].id # i
        BY <2>3, <3>1, <4>1 DEF HeldBy
      <4>5. \/ RowOf(i)'.status = RowOf(i)'.told
            \/ (RowOf(i)'.status = "READY" /\ \E b \in DOMAIN batches' : i \in batches'[b].leads)
        BY <2>5, <3>2, <4>1 DEF Told
      <4> QED BY <4>2, <4>3, <4>5 DEF Told
    <3> QED BY <2>6, <2>8, <3>1, <3>2, <3>3 DEF EventsInv
  <2>11. CASE ~Loaded(d, x) /\ ~Selected(d, x)
    <3>1. HeldBy(d)' = {NoLead}
      <4>1. x.pc \notin {"lead", "batch"}
        BY <2>2, <2>11, FreeDeskOK DEF Imported, WentOn, Began
      <4> QED BY <2>2, <2>3, <4>1 DEF HeldBy, DeskOK
    <3>2. ASSUME NEW i \in LeadRows \ jostled', RowOf(i)' = RowOf(i) PROVE Told(i)'
      BY <2>6, <2>8, <3>1, <3>2
    <3>3. CASE Imported(d, x) \/ Began(d, x)
      <4>1. LeadRows' = LeadRows /\ \A j \in LeadRows : RowOf(j)' = RowOf(j)
        BY <2>3, <3>3 DEF LeadRows, RowOf
      <4> QED BY <3>2, <4>1 DEF EventsInv
    <3>4. CASE WentOn(d, x)
      <4>1. /\ \A i \in LeadRows : RowOf(i)' = RowOf(i)
            /\ \A i \in LeadRows' : i \notin LeadRows => RowOf(i)' = NewLead
        BY <3>4, ImportCommitted DEF WentOn
      <4>2. ASSUME NEW i \in LeadRows', i \notin LeadRows PROVE Told(i)'
        <5>1. RowOf(i)'.status = RowOf(i)'.told
          BY <4>1, <4>2 DEF NewLead
        <5>2. i # NoLead
          BY LeadsAssumption DEF LeadRows, NoLead
        <5>3. \A e \in Desks : i \notin HeldBy(e)'
          BY <2>3, <2>4, <3>1, <4>2, <5>2 DEF DeskTied, HeldBy, DeskOK
        <5>4. Alone(i)' /\ \A e \in Desks : desk'[e].id # i
          BY <5>3 DEF Alone, HeldBy
        <5> QED BY <5>1, <5>4 DEF Told
      <4> QED BY <3>2, <4>1, <4>2 DEF EventsInv
    <3>5. CASE CommitLead(d)
      <4>0. PICK r, i : r = desk[d] /\ i = desk[d].id
        OBVIOUS
      <4>1. /\ LeadRows' = LeadRows /\ i \in LeadRows
            /\ \A j \in LeadRows : j # i => RowOf(j)' = RowOf(j)
            /\ RowOf(i)' = [status |-> IF r.now.status = r.was.status THEN RowOf(i).status ELSE r.now.status,
                            optOut |-> IF r.now.optOut = r.was.optOut THEN RowOf(i).optOut ELSE r.now.optOut,
                            told |-> r.now.told]
        BY <3>5, <4>0, LeadCommitted
      <4>2. /\ RowOf(i)'.status = (IF r.now.status = r.was.status THEN RowOf(i).status ELSE r.now.status)
            /\ RowOf(i)'.told = r.now.told
        BY <4>1
      <4>3. ASSUME i \notin jostled' PROVE Told(i)'
        <5>1. Told(i)
          BY <2>5, <4>1, <4>3 DEF EventsInv
        <5>2. r.was = RowOf(i) /\ r.now.told = r.now.status
          BY <3>5, <4>0, <5>1 DEF Told, CommitLead
        <5>3. RowOf(i)'.status = RowOf(i)'.told
          BY <4>2, <5>2
        <5>4. Alone(i)'
          BY <2>6, <2>7, <3>1, <4>1, <4>3
        <5>5. i \in HeldBy(d) /\ \A e \in Desks \ {d} : i \notin HeldBy(e)
          BY <4>0, <5>1 DEF HeldBy, Told, Alone
        <5>6. \A e \in Desks : desk'[e].id # i
          BY <2>3, <2>6, <3>1, <4>1, <5>5 DEF HeldBy
        <5> QED BY <5>3, <5>4, <5>6 DEF Told
      <4> QED BY <3>2, <4>1, <4>3 DEF EventsInv
    <3>6. CASE CommitCampaign(d)
      <4>1. /\ LeadRows' = LeadRows
            /\ \A i \in LeadRows : RowOf(i)' = IF i \in desk[d].chosen THEN WithStatus(RowOf(i), "READY") ELSE RowOf(i)
        BY <3>6, CampaignCommitted
      <4>2. ASSUME NEW i \in LeadRows \ jostled', i \in desk[d].chosen PROVE Told(i)'
        <5>1. Told(i)
          BY <2>5 DEF EventsInv
        <5>2. RowOf(i) \in LeadRow
          BY DEF LeadRows, LeadsShape, LeadsTypeOK, RowOf
        <5>3. RowOf(i)'.status = "READY"
          BY <4>1, <4>2, <5>2 DEF WithStatus, LeadRow
        <5>4. \E b \in DOMAIN batches' : i \in batches'[b].leads
          <6> DEFINE Batch == [number : Nat, leads : SUBSET LeadIds]
                     new == [number |-> desk[d].number, leads |-> desk[d].chosen]
          <6>1. batches \in Seq(Batch) /\ batches' = Append(batches, new)
            BY <3>6 DEF LeadsShape, LeadsTypeOK, CommitCampaign
          <6>2. new \in Batch /\ new.leads = desk[d].chosen
            BY <2>4 DEF Desk
          <6> HIDE DEF Batch, new
          <6>3. Len(batches) + 1 \in DOMAIN batches' /\ batches'[Len(batches) + 1] = new
            BY <6>1, <6>2
          <6> QED BY <4>2, <6>2, <6>3
        <5>5. Alone(i)'
          BY <2>6, <2>7, <3>1
        <5>6. i \in HeldBy(d) /\ \A e \in Desks \ {d} : i \notin HeldBy(e)
          BY <4>2, <5>1 DEF HeldBy, Told, Alone
        <5>7. \A e \in Desks : desk'[e].id # i
          BY <2>3, <2>6, <3>1, <5>6 DEF HeldBy
        <5> QED BY <5>3, <5>4, <5>5, <5>7 DEF Told
      <4> QED BY <3>2, <4>1, <4>2 DEF EventsInv
    <3> QED BY <2>2, <2>11, <3>3, <3>4, <3>5, <3>6
  <2> QED BY <2>9, <2>10, <2>11
<1>2. CASE UNCHANGED leadsVars
  BY <1>2 DEF leadsVars, EventsInv, Told, Alone, LeadRows, RowOf, HeldBy
<1> QED BY <1>1, <1>2

\* Together they say what is promised of leads and campaigns.
LEMMA LeadsShown ==
  ASSUME LeadsShape, ImportsInv, BuildsInv, StayOutInv, EventsInv PROVE LeadsTypeOK /\ LeadsSafe
<1>1. AllLeads \subseteq LeadRows
  <2>1. started \in Nat
    BY LeadsAssumption DEF LeadsShape, LeadsTypeOK
  <2> QED BY <2>1 DEF AllLeads, LeadRows
<1>2. EventsTell
  BY <1>1 DEF EventsInv, Told, EventsTell
<1>3. OneLeadPerCompany /\ OneBatchEach
  BY DEF ImportsInv, BuildsInv, OneLeadPerCompany, OneBatchEach
<1> QED BY <1>2, <1>3 DEF LeadsShape, StayOutInv, LeadsSafe

\* The variables keep their types (lead_importer.py, lead_campaigns.py).
THEOREM LeadsTypeCorrect == LeadsSpec => []LeadsTypeOK
<1>1. LeadsShape /\ [LeadsNext]_leadsVars => LeadsShape'
  BY LeadsShapeStep
<1>2. LeadsShape => LeadsTypeOK
  BY DEF LeadsShape
<1> QED BY <1>1, <1>2, LeadsShapeInit, PTL DEF LeadsSpec

\* One lead per company unless two imports met, one batch per lead unless two builds did, opted-out
\* leads stay out of later batches, and the last event says the status (persist_leads,
\* build_campaign, LeadEvent), for any companies, desks and numbers.
THEOREM LeadsCorrect == LeadsSpec => []LeadsSafe
<1> DEFINE Inv == LeadsShape /\ ImportsInv /\ BuildsInv /\ StayOutInv /\ EventsInv
<1>1. LeadsInit => Inv
  BY LeadsShapeInit, ImportsInvInit, BuildsInvInit, StayOutInvInit, EventsInvInit
<1>2. Inv /\ [LeadsNext]_leadsVars => Inv'
  BY LeadsShapeStep, ImportsInvStep, BuildsInvStep, StayOutInvStep, EventsInvStep
<1>3. Inv => LeadsSafe
  BY LeadsShown
<1> HIDE DEF Inv
<1> QED BY <1>1, <1>2, <1>3, PTL DEF LeadsSpec

-----------------------------------------------------------------------------
(***************************************************************************)
(* The rows of a workbook.                                                 *)
(***************************************************************************)

\* The records a loop has passed, by the field it compares.
LoopPassed(field) ==
  IF field = "name" THEN IF phase = "done" THEN SheetRows
                         ELSE IF phase = "names" THEN 1..(at - 1) ELSE {}
  ELSE IF phase \in {"names", "done"} THEN SheetRows
       ELSE IF phase = "exact" THEN 1..(at - 1) ELSE {}

\* A dictionary holds the first of the records of P, for each of their values.
Known(dict, field, P) ==
  /\ \A v \in Values : dict[v] # 0 =>
       /\ dict[v] \in P /\ sheet[dict[v]][field] = v
       /\ \A k \in SheetRows : k < dict[v] => sheet[k][field] # v
  /\ \A i \in P : sheet[i][field] # Blank => dict[sheet[i][field]] \in SheetRows
FirstsKnown == \A field \in Fields : Known(first[field], field, LoopPassed(field))

\* Records passed are in the group of the first of their value.
Joined(g, field, i) ==
  sheet[i][field] # Blank => g[i] = g[first[field][sheet[i][field]]]
WithFirst ==
  /\ \A field \in {"phone", "email"} : \A i \in LoopPassed(field) : Joined(group, field, i)
  /\ \A i \in LoopPassed("name") :
       sheet[i]["name"] # Blank /\
       (Numberless(i) \/ Numberless(first["name"][sheet[i]["name"]])) => Joined(group, "name", i)

Apart(g) == \A S \in SUBSET SheetRows : Separate(S) =>
  \A i \in S, j \in SheetRows \ S : g[i] # g[j]

MergeInv ==
  /\ MergeTypeOK /\ FirstsKnown
  /\ IF phase = "read" THEN at = 1 ELSE WithFirst /\ Apart(group)

-----------------------------------------------------------------------------
LEMMA RowValues ==
  ASSUME MergeTypeOK, NEW i \in SheetRows, NEW field \in Fields
  PROVE  sheet[i][field] \in Values \cup {Blank}
<1>1. sheet[i] \in SheetRow
  BY DEF MergeTypeOK, SheetRows
<1> QED
  BY <1>1 DEF SheetRow, Fields, Values

\* union: it keeps together what is together, joins the two, and keeps apart what no link joins.
LEMMA UnionJoins ==
  ASSUME NEW R, NEW g \in [R -> R], NEW i \in R, NEW j \in R
  PROVE  /\ Union(g, i, j) \in [R -> R]
         /\ Union(g, i, j)[i] = Union(g, i, j)[j]
         /\ \A a, b \in R : g[a] = g[b] => Union(g, i, j)[a] = Union(g, i, j)[b]
         /\ \A a, b \in R : Union(g, i, j)[a] = Union(g, i, j)[b] =>
              \/ g[a] = g[b]
              \/ g[a] = g[i] /\ g[b] = g[j]
              \/ g[a] = g[j] /\ g[b] = g[i]
  BY DEF Union

LEMMA UnionSeparates ==
  ASSUME NEW g \in [SheetRows -> SheetRows], NEW i \in SheetRows, NEW j \in SheetRows,
         Apart(g), Linked(i, j) \/ Linked(j, i)
  PROVE  Apart(Union(g, i, j))
<1> SUFFICES ASSUME NEW S \in SUBSET SheetRows, Separate(S),
                    NEW a \in S, NEW b \in SheetRows \ S,
                    Union(g, i, j)[a] = Union(g, i, j)[b]
             PROVE  FALSE
  BY DEF Apart
<1>1. \A x \in S, y \in SheetRows \ S : g[x] # g[y]
  BY DEF Apart
<1>2. \/ g[a] = g[b]
      \/ g[a] = g[i] /\ g[b] = g[j]
      \/ g[a] = g[j] /\ g[b] = g[i]
  BY DEF Union
<1>3. Linked(j, i) => Linked(i, j)
  BY DEF Linked, Bears
<1>4. Linked(i, j) => Linked(j, i)
  BY DEF Linked, Bears
<1>5. (i \in S) = (j \in S)
  BY <1>3, <1>4 DEF Separate
<1> QED
  BY <1>1, <1>2, <1>5

\* Links are between records, which no loop changes.
LEMMA ApartStays ==
  ASSUME NEW g, Apart(g), sheet' = sheet, group' = g
  PROVE  Apart(group)'
<1>1. SheetRows' = SheetRows
  BY DEF SheetRows
<1>2. \A i, j : Linked(i, j)' = Linked(i, j)
  BY DEF Linked, Bears, FirstBearer, Numberless
<1>3. \A S : Separate(S)' = Separate(S)
  BY <1>1, <1>2 DEF Separate
<1> QED
  BY <1>1, <1>3 DEF Apart

-----------------------------------------------------------------------------
\* What the dictionary of a field answers is the first bearer of the value.
LEMMA FirstIsBearer ==
  ASSUME MergeTypeOK, NEW field \in Fields, NEW i \in SheetRows, NEW P \in SUBSET SheetRows,
         Known(first[field], field, P), FirstOf(field, i) # 0
  PROVE  /\ FirstOf(field, i) \in P /\ FirstOf(field, i) = first[field][sheet[i][field]]
         /\ sheet[i][field] # Blank /\ FirstBearer(FirstOf(field, i), field, i)
<1>1. sheet[i][field] # Blank /\ FirstOf(field, i) = first[field][sheet[i][field]]
  BY DEF FirstOf
<1>2. sheet[i][field] \in Values
  BY <1>1, RowValues
<1>3. /\ FirstOf(field, i) \in P /\ sheet[FirstOf(field, i)][field] = sheet[i][field]
      /\ \A k \in SheetRows : k < FirstOf(field, i) => sheet[k][field] # sheet[i][field]
  BY <1>1, <1>2 DEF Known
<1>4. \A k \in 1..(FirstOf(field, i) - 1) : k \in SheetRows /\ k < FirstOf(field, i)
  <2>1. FirstOf(field, i) \in 1..Len(sheet) /\ Len(sheet) \in Nat
    <3>1. FirstOf(field, i) \in SheetRows
      BY <1>3
    <3>2. sheet \in Seq(SheetRow)
      BY DEF MergeTypeOK
    <3> QED
      BY <3>1, <3>2 DEF SheetRows
  <2> QED
    BY <2>1 DEF SheetRows
<1> QED
  BY <1>1, <1>3, <1>4 DEF FirstBearer, Bears

LEMMA NotedKnown ==
  ASSUME MergeTypeOK, NEW field \in Fields, at \in SheetRows,
         Known(first[field], field, 1..(at - 1))
  PROVE  /\ Noted(field, at) \in [Values -> 0..Len(sheet)]
         /\ Known(Noted(field, at), field, 1..at)
         /\ \A v \in Values : first[field][v] # 0 => Noted(field, at)[v] = first[field][v]
<1> DEFINE w == sheet[at][field]
<1>1. first[field] \in [Values -> 0..Len(sheet)] /\ Len(sheet) \in Nat /\ at \in 1..Len(sheet)
  BY DEF MergeTypeOK, SheetRows
<1>2. w \in Values \cup {Blank} /\ Blank \notin Values
  BY RowValues, MergeAssumption DEF Values
<1>3. CASE w # Blank /\ first[field][w] = 0
  <2>1. w \in Values /\ Noted(field, at) = [first[field] EXCEPT ![w] = at]
    BY <1>2, <1>3 DEF Noted, FirstOf
  <2>2. \A k \in SheetRows : k < at => sheet[k][field] # w
    BY <1>1, <1>2, <1>3 DEF Known, SheetRows
  <2> QED
    BY <1>1, <2>1, <2>2 DEF Known, SheetRows
<1>4. CASE ~(w # Blank /\ first[field][w] = 0)
  <2>1. Noted(field, at) = first[field]
    BY <1>4 DEF Noted, FirstOf
  <2>2. w # Blank => first[field][w] \in SheetRows
    BY <1>1, <1>2, <1>4 DEF SheetRows
  <2> QED
    BY <1>1, <2>1, <2>2 DEF Known
<1> QED
  BY <1>3, <1>4

LEMMA GroupedJoins ==
  ASSUME MergeTypeOK, NEW field \in Fields, NEW i \in SheetRows, NEW P \in SUBSET SheetRows,
         Known(first[field], field, P), NEW g \in [SheetRows -> SheetRows], Apart(g),
         FirstOf(field, i) # 0 => Linked(i, FirstOf(field, i))
  PROVE  /\ Grouped(g, field, i) \in [SheetRows -> SheetRows] /\ Apart(Grouped(g, field, i))
         /\ \A a, b \in SheetRows : g[a] = g[b] => Grouped(g, field, i)[a] = Grouped(g, field, i)[b]
         /\ FirstOf(field, i) # 0 =>
              Grouped(g, field, i)[i] = Grouped(g, field, i)[FirstOf(field, i)]
<1>1. CASE FirstOf(field, i) = 0
  BY <1>1 DEF Grouped
<1>2. CASE FirstOf(field, i) # 0
  <2> DEFINE j == FirstOf(field, i)
  <2>1. j \in SheetRows
    BY <1>2, FirstIsBearer
  <2>2. Grouped(g, field, i) = Union(g, i, j)
    BY <1>2 DEF Grouped
  <2>3. Apart(Union(g, i, j))
    BY <1>2, <2>1, UnionSeparates
  <2>4. /\ Union(g, i, j) \in [SheetRows -> SheetRows]
        /\ Union(g, i, j)[i] = Union(g, i, j)[j]
        /\ \A a, b \in SheetRows : g[a] = g[b] => Union(g, i, j)[a] = Union(g, i, j)[b]
    BY <2>1 DEF Union
  <2> QED
    BY <2>2, <2>3, <2>4
<1> QED
  BY <1>1, <1>2
-----------------------------------------------------------------------------
\* A loop's step for one field, with the dictionary and the groups as it leaves them.
LEMMA StepJoins ==
  ASSUME MergeTypeOK, NEW field \in Fields, at \in SheetRows,
         Known(first[field], field, 1..(at - 1)), NEW h,
         \A a, b \in SheetRows : group[a] = group[b] => h[a] = h[b],
         NEW i \in 1..at, sheet[i][field] # Blank,
         FirstOf(field, at) # 0 => h[at] = h[FirstOf(field, at)],
         i < at => group[i] = group[first[field][sheet[i][field]]]
  PROVE  h[i] = h[Noted(field, at)[sheet[i][field]]]
<1>1. at \in 1..Len(sheet) /\ i \in SheetRows /\ i \in Nat /\ at \in Nat
  <2>1. Len(sheet) \in Nat
    BY DEF MergeTypeOK
  <2> QED
    BY <2>1 DEF SheetRows
<1>2. sheet[i][field] \in Values
  BY <1>1, RowValues
<1>3. CASE i < at
  <2>1. first[field][sheet[i][field]] \in SheetRows
    BY <1>1, <1>3 DEF Known
  <2>2. first[field][sheet[i][field]] # 0
    BY <2>1 DEF SheetRows
  <2>3. Noted(field, at)[sheet[i][field]] = first[field][sheet[i][field]]
    BY <1>2, <2>2, NotedKnown
  <2> QED
    BY <1>1, <1>3, <2>1, <2>3
<1>4. CASE i = at /\ FirstOf(field, at) = 0
  <2>1. Noted(field, at) = [first[field] EXCEPT ![sheet[at][field]] = at]
    BY <1>4 DEF Noted
  <2>2. first[field] \in [Values -> 0..Len(sheet)]
    BY DEF MergeTypeOK
  <2> QED
    BY <1>2, <1>4, <2>1, <2>2
<1>5. CASE i = at /\ FirstOf(field, at) # 0
  BY <1>5 DEF Noted, FirstOf
<1> QED
  BY <1>1, <1>3, <1>4, <1>5

LEMMA MatchExactKeeps ==
  ASSUME MergeInv, MatchExact
  PROVE  MergeInv'
<1> DEFINE g == Grouped(group, "phone", at)
           h == Grouped(g, "email", at)
<1>1. /\ MergeTypeOK /\ FirstsKnown /\ WithFirst /\ Apart(group) /\ phase = "exact"
      /\ sheet' = sheet /\ phase' = phase /\ at' = at + 1 /\ group' = h
      /\ first' = [first EXCEPT !["phone"] = Noted("phone", at), !["email"] = Noted("email", at)]
  BY DEF MergeInv, MatchExact
<1>2. at \in SheetRows /\ at \in Nat /\ Len(sheet) \in Nat /\ SheetRows' = SheetRows
  <2>1. Len(sheet) \in Nat /\ at \in 1..(Len(sheet) + 1)
    BY <1>1 DEF MergeTypeOK
  <2> QED
    BY <1>1, <2>1 DEF SheetRows, MatchExact
<1>3. /\ LoopPassed("phone") = 1..(at - 1) /\ LoopPassed("email") = 1..(at - 1) /\ LoopPassed("name") = {}
      /\ LoopPassed("phone")' = 1..at /\ LoopPassed("email")' = 1..at /\ LoopPassed("name")' = {}
  BY <1>1, <1>2 DEF LoopPassed
<1>4. /\ Known(first["phone"], "phone", 1..(at - 1)) /\ Known(first["email"], "email", 1..(at - 1))
      /\ Known(first["name"], "name", {}) /\ 1..(at - 1) \in SUBSET SheetRows
  <2>1. 1..(at - 1) \in SUBSET SheetRows
    BY <1>2 DEF SheetRows
  <2> QED
    BY <1>1, <1>3, <2>1 DEF FirstsKnown, Fields
<1>5. group \in [SheetRows -> SheetRows]
  BY <1>1 DEF MergeTypeOK
<1>6. /\ g \in [SheetRows -> SheetRows] /\ Apart(g)
      /\ \A a, b \in SheetRows : group[a] = group[b] => g[a] = g[b]
      /\ FirstOf("phone", at) # 0 => g[at] = g[FirstOf("phone", at)]
  <2>1. FirstOf("phone", at) # 0 => Linked(at, FirstOf("phone", at))
    BY <1>1, <1>2, <1>4, FirstIsBearer DEF Linked, FirstBearer, Fields
  <2> QED
    BY <1>1, <1>2, <1>4, <1>5, <2>1, GroupedJoins DEF Fields
<1>7. /\ h \in [SheetRows -> SheetRows] /\ Apart(h)
      /\ \A a, b \in SheetRows : g[a] = g[b] => h[a] = h[b]
      /\ FirstOf("email", at) # 0 => h[at] = h[FirstOf("email", at)]
  <2>1. FirstOf("email", at) # 0 => Linked(at, FirstOf("email", at))
    BY <1>1, <1>2, <1>4, FirstIsBearer DEF Linked, FirstBearer, Fields
  <2> HIDE DEF g
  <2> QED
    BY <1>1, <1>2, <1>4, <1>6, <2>1, GroupedJoins DEF Fields
<1> HIDE DEF g, h
<1>8. FirstOf("phone", at) # 0 => FirstOf("phone", at) \in SheetRows
  BY <1>1, <1>2, <1>4, FirstIsBearer DEF Fields
<1>9. \A a, b \in SheetRows : group[a] = group[b] => h[a] = h[b]
  BY <1>6, <1>7
<1>10. FirstOf("phone", at) # 0 => h[at] = h[FirstOf("phone", at)]
  BY <1>2, <1>6, <1>7, <1>8
<1>11. /\ first'["phone"] = Noted("phone", at) /\ first'["email"] = Noted("email", at)
       /\ first'["name"] = first["name"] /\ DOMAIN first' = Fields
  BY <1>1 DEF MergeTypeOK, Fields
<1>12. /\ Noted("phone", at) \in [Values -> 0..Len(sheet)]
       /\ Noted("email", at) \in [Values -> 0..Len(sheet)]
       /\ Known(Noted("phone", at), "phone", 1..at) /\ Known(Noted("email", at), "email", 1..at)
  BY <1>1, <1>2, <1>4, NotedKnown DEF Fields
<1>13. MergeTypeOK'
  <2>1. first' \in [Fields -> [Values -> 0..Len(sheet)]]
    BY <1>1, <1>12 DEF MergeTypeOK, Fields
  <2>2. at + 1 \in 1..(Len(sheet) + 1)
    BY <1>2 DEF SheetRows
  <2> QED
    BY <1>1, <1>2, <1>7, <2>1, <2>2 DEF MergeTypeOK
<1>14. FirstsKnown'
  <2>1. sheet' = sheet /\ SheetRows' = SheetRows
    BY <1>1, <1>2
  <2>2. Known(first'["phone"], "phone", LoopPassed("phone")')
    BY <1>3, <1>11, <1>12
  <2>3. Known(first'["email"], "email", LoopPassed("email")')
    BY <1>3, <1>11, <1>12
  <2>4. Known(first'["name"], "name", LoopPassed("name")')
    BY <1>3, <1>4, <1>11
  <2>5. Known(first["phone"], "phone", LoopPassed("phone"))'
    BY <2>1, <2>2 DEF Known
  <2>6. Known(first["email"], "email", LoopPassed("email"))'
    BY <2>1, <2>3 DEF Known
  <2>7. Known(first["name"], "name", LoopPassed("name"))'
    BY <2>1, <2>4 DEF Known
  <2> QED
    BY <2>5, <2>6, <2>7 DEF FirstsKnown, Fields
<1>15. WithFirst'
  <2>1. \A i \in 1..at : sheet[i]["phone"] # Blank =>
          h[i] = h[Noted("phone", at)[sheet[i]["phone"]]]
    <3> SUFFICES ASSUME NEW i \in 1..at, sheet[i]["phone"] # Blank
                 PROVE  h[i] = h[Noted("phone", at)[sheet[i]["phone"]]]
      OBVIOUS
    <3>1. i < at => group[i] = group[first["phone"][sheet[i]["phone"]]]
      BY <1>1, <1>2, <1>3 DEF WithFirst, Joined
    <3> QED
      BY <1>1, <1>2, <1>4, <1>9, <1>10, <3>1, StepJoins DEF Fields
  <2>2. \A i \in 1..at : sheet[i]["email"] # Blank =>
          h[i] = h[Noted("email", at)[sheet[i]["email"]]]
    <3> SUFFICES ASSUME NEW i \in 1..at, sheet[i]["email"] # Blank
                 PROVE  h[i] = h[Noted("email", at)[sheet[i]["email"]]]
      OBVIOUS
    <3>1. i < at => group[i] = group[first["email"][sheet[i]["email"]]]
      BY <1>1, <1>2, <1>3 DEF WithFirst, Joined
    <3> QED
      BY <1>1, <1>2, <1>4, <1>7, <1>9, <3>1, StepJoins DEF Fields
  <2>3. (\A i \in LoopPassed("phone") : Joined(group, "phone", i))'
    BY <1>1, <1>3, <1>11, <2>1 DEF Joined
  <2>4. (\A i \in LoopPassed("email") : Joined(group, "email", i))'
    BY <1>1, <1>3, <1>11, <2>2 DEF Joined
  <2> QED
    BY <1>3, <2>3, <2>4 DEF WithFirst
<1>16. Apart(group)'
  BY <1>1, <1>7, ApartStays
<1> QED
  BY <1>1, <1>13, <1>14, <1>15, <1>16 DEF MergeInv

LEMMA MatchNameKeeps ==
  ASSUME MergeInv, MatchName
  PROVE  MergeInv'
<1> DEFINE F == FirstOf("name", at)
           h == IF F # 0 /\ NameSuffices(at, F) THEN Grouped(group, "name", at) ELSE group
<1>1. /\ MergeTypeOK /\ FirstsKnown /\ WithFirst /\ Apart(group) /\ phase = "names"
      /\ sheet' = sheet /\ phase' = phase /\ at' = at + 1 /\ group' = h
      /\ first' = [first EXCEPT !["name"] = Noted("name", at)]
  BY DEF MergeInv, MatchName
<1>2. at \in SheetRows /\ at \in Nat /\ Len(sheet) \in Nat /\ SheetRows' = SheetRows
  <2>1. Len(sheet) \in Nat /\ at \in 1..(Len(sheet) + 1)
    BY <1>1 DEF MergeTypeOK
  <2> QED
    BY <1>1, <2>1 DEF SheetRows, MatchName
<1>3. /\ LoopPassed("phone") = SheetRows /\ LoopPassed("email") = SheetRows /\ LoopPassed("name") = 1..(at - 1)
      /\ LoopPassed("phone")' = SheetRows /\ LoopPassed("email")' = SheetRows /\ LoopPassed("name")' = 1..at
  BY <1>1, <1>2 DEF LoopPassed
<1>4. /\ Known(first["phone"], "phone", SheetRows) /\ Known(first["email"], "email", SheetRows)
      /\ Known(first["name"], "name", 1..(at - 1)) /\ 1..(at - 1) \in SUBSET SheetRows
  <2>1. 1..(at - 1) \in SUBSET SheetRows
    BY <1>2 DEF SheetRows
  <2> QED
    BY <1>1, <1>3, <2>1 DEF FirstsKnown, Fields
<1>5. group \in [SheetRows -> SheetRows]
  BY <1>1 DEF MergeTypeOK
<1>6. F # 0 => F \in SheetRows /\ FirstBearer(F, "name", at)
  BY <1>1, <1>2, <1>4, FirstIsBearer DEF Fields
<1>7. /\ h \in [SheetRows -> SheetRows] /\ Apart(h)
      /\ \A a, b \in SheetRows : group[a] = group[b] => h[a] = h[b]
      /\ F # 0 /\ NameSuffices(at, F) => h[at] = h[F]
  <2>1. CASE F # 0 /\ NameSuffices(at, F)
    <3>1. Linked(at, F)
      BY <1>6, <2>1 DEF Linked, NameSuffices
    <3>2. h = Grouped(group, "name", at)
      BY <2>1
    <3>3. FirstOf("name", at) # 0 => Linked(at, FirstOf("name", at))
      BY <3>1
    <3> HIDE DEF h, F
    <3>4. /\ Grouped(group, "name", at) \in [SheetRows -> SheetRows]
          /\ Apart(Grouped(group, "name", at))
          /\ \A a, b \in SheetRows : group[a] = group[b] =>
               Grouped(group, "name", at)[a] = Grouped(group, "name", at)[b]
          /\ FirstOf("name", at) # 0 => Grouped(group, "name", at)[at] =
               Grouped(group, "name", at)[FirstOf("name", at)]
      BY <1>1, <1>2, <1>4, <1>5, <3>3, GroupedJoins DEF Fields
    <3> QED
      BY <3>2, <3>4 DEF F
  <2>2. CASE ~(F # 0 /\ NameSuffices(at, F))
    BY <1>1, <1>5, <2>2
  <2> QED
    BY <2>1, <2>2
<1> HIDE DEF h
<1>8. /\ first'["phone"] = first["phone"] /\ first'["email"] = first["email"]
      /\ first'["name"] = Noted("name", at) /\ DOMAIN first' = Fields
  BY <1>1 DEF MergeTypeOK, Fields
<1>9. /\ Noted("name", at) \in [Values -> 0..Len(sheet)] /\ Known(Noted("name", at), "name", 1..at)
      /\ \A v \in Values : first["name"][v] # 0 => Noted("name", at)[v] = first["name"][v]
  BY <1>1, <1>2, <1>4, NotedKnown DEF Fields
<1>10. MergeTypeOK'
  <2>1. first' \in [Fields -> [Values -> 0..Len(sheet)]]
    BY <1>1, <1>9 DEF MergeTypeOK, Fields
  <2>2. at + 1 \in 1..(Len(sheet) + 1)
    BY <1>2 DEF SheetRows
  <2> QED
    BY <1>1, <1>2, <1>7, <2>1, <2>2 DEF MergeTypeOK
<1>11. FirstsKnown'
  <2>1. sheet' = sheet /\ SheetRows' = SheetRows
    BY <1>1, <1>2
  <2>2. Known(first["phone"], "phone", LoopPassed("phone"))'
    BY <1>3, <1>4, <1>8, <2>1 DEF Known
  <2>3. Known(first["email"], "email", LoopPassed("email"))'
    BY <1>3, <1>4, <1>8, <2>1 DEF Known
  <2>4. Known(first["name"], "name", LoopPassed("name"))'
    BY <1>3, <1>8, <1>9, <2>1 DEF Known
  <2> QED
    BY <2>2, <2>3, <2>4 DEF FirstsKnown, Fields
<1>12. WithFirst'
  <2>1. ASSUME NEW i \in 1..at, sheet[i]["name"] # Blank,
               Numberless(i) \/ Numberless(Noted("name", at)[sheet[i]["name"]])
        PROVE  h[i] = h[Noted("name", at)[sheet[i]["name"]]]
    <3>1. i \in SheetRows /\ sheet[i]["name"] \in Values
      <4>1. i \in SheetRows
        BY <1>2 DEF SheetRows
      <4> QED
        BY <1>1, <2>1, <4>1, RowValues DEF Fields
    <3>2. CASE i < at
      <4>1. first["name"][sheet[i]["name"]] \in SheetRows
        BY <1>2, <1>4, <2>1, <3>2 DEF Known
      <4>2. Noted("name", at)[sheet[i]["name"]] = first["name"][sheet[i]["name"]]
        BY <1>9, <3>1, <4>1 DEF SheetRows
      <4>3. group[i] = group[first["name"][sheet[i]["name"]]]
        BY <1>1, <1>2, <1>3, <2>1, <3>2, <4>2 DEF WithFirst, Joined
      <4> QED
        BY <1>7, <3>1, <4>1, <4>2, <4>3
    <3>3. CASE i = at /\ F = 0
      <4>1. Noted("name", at) = [first["name"] EXCEPT ![sheet[at]["name"]] = at]
        BY <2>1, <3>3 DEF Noted
      <4>2. first["name"] \in [Values -> 0..Len(sheet)]
        BY <1>1 DEF MergeTypeOK, Fields
      <4> QED
        BY <3>1, <3>3, <4>1, <4>2
    <3>4. CASE i = at /\ F # 0
      <4>1. Noted("name", at)[sheet[i]["name"]] = F
        BY <2>1, <3>4 DEF Noted, FirstOf
      <4> QED
        BY <1>7, <2>1, <3>4, <4>1 DEF NameSuffices
    <3> QED
      BY <1>2, <3>2, <3>3, <3>4
  <2>2. (\A i \in LoopPassed("phone") : Joined(group, "phone", i))'
    <3>1. \A i \in SheetRows : Joined(group, "phone", i)
      BY <1>1, <1>3 DEF WithFirst
    <3>2. \A i \in SheetRows : sheet[i]["phone"] # Blank =>
            first["phone"][sheet[i]["phone"]] \in SheetRows
      BY <1>4 DEF Known
    <3> QED
      BY <1>1, <1>3, <1>7, <1>8, <3>1, <3>2 DEF Joined
  <2>3. (\A i \in LoopPassed("email") : Joined(group, "email", i))'
    <3>1. \A i \in SheetRows : Joined(group, "email", i)
      BY <1>1, <1>3 DEF WithFirst
    <3>2. \A i \in SheetRows : sheet[i]["email"] # Blank =>
            first["email"][sheet[i]["email"]] \in SheetRows
      BY <1>4 DEF Known
    <3> QED
      BY <1>1, <1>3, <1>7, <1>8, <3>1, <3>2 DEF Joined
  <2>4. (\A i \in LoopPassed("name") :
          sheet[i]["name"] # Blank /\
          (Numberless(i) \/ Numberless(first["name"][sheet[i]["name"]])) =>
          Joined(group, "name", i))'
    BY <1>1, <1>3, <1>8, <2>1 DEF Joined, Numberless
  <2> QED
    BY <1>3, <2>2, <2>3, <2>4 DEF WithFirst
<1>13. Apart(group)'
  BY <1>1, <1>7, ApartStays
<1> QED
  BY <1>1, <1>10, <1>11, <1>12, <1>13 DEF MergeInv

LEMMA ReadingKeeps ==
  ASSUME MergeInv, (\E r \in SheetRow : ReadRow(r)) \/ RowsRead
  PROVE  MergeInv'
<1>1. /\ MergeTypeOK /\ FirstsKnown /\ phase = "read" /\ at = 1 /\ first' = first /\ at' = at
      /\ Len(sheet) \in Nat
  BY DEF MergeInv, ReadRow, RowsRead, MergeTypeOK
<1>2. LoopPassed("phone") = {} /\ LoopPassed("email") = {} /\ LoopPassed("name") = {}
  BY <1>1 DEF LoopPassed
<1>3. \A field \in Fields, v \in Values : first[field][v] = 0
  BY <1>1, <1>2 DEF FirstsKnown, Known, Fields
<1>4. phase' \in {"read", "exact"}
  BY <1>1 DEF ReadRow, RowsRead
<1>5. \A field \in Fields : LoopPassed(field)' = {}
  BY <1>1, <1>4 DEF LoopPassed, Fields
<1>6. FirstsKnown'
  BY <1>1, <1>3, <1>5 DEF FirstsKnown, Known
<1>7. CASE \E r \in SheetRow : ReadRow(r)
  <2>1. MergeTypeOK'
    BY <1>1, <1>7 DEF MergeTypeOK, ReadRow, SheetRows
  <2> QED
    BY <1>1, <1>6, <1>7, <2>1 DEF MergeInv, ReadRow
<1>8. CASE RowsRead
  <2>1. sheet' = sheet /\ phase' = "exact" /\ group' = [i \in SheetRows |-> i] /\ SheetRows' = SheetRows
    BY <1>8 DEF RowsRead, SheetRows
  <2>2. MergeTypeOK'
    BY <1>1, <2>1 DEF MergeTypeOK
  <2>3. WithFirst'
    BY <1>5 DEF WithFirst, Fields
  <2>4. Apart(group)'
    BY <2>1 DEF Apart
  <2> QED
    BY <1>6, <2>1, <2>2, <2>3, <2>4 DEF MergeInv
<1> QED
  BY <1>7, <1>8

LEMMA EndKeeps ==
  ASSUME MergeInv, ExactMatched \/ NamesMatched
  PROVE  MergeInv'
<1>1. /\ MergeTypeOK /\ FirstsKnown /\ WithFirst /\ Apart(group)
      /\ sheet' = sheet /\ group' = group /\ first' = first /\ at > Len(sheet)
      /\ \/ phase = "exact" /\ phase' = "names" /\ at' = 1
         \/ phase = "names" /\ phase' = "done" /\ at' = at
  BY DEF MergeInv, ExactMatched, NamesMatched
<1>2. 1..(at - 1) = SheetRows /\ SheetRows' = SheetRows /\ 1 \in 1..(Len(sheet) + 1) /\ 1..0 = {}
  <2>1. Len(sheet) \in Nat /\ at \in 1..(Len(sheet) + 1)
    BY <1>1 DEF MergeTypeOK
  <2>2. at = Len(sheet) + 1
    BY <1>1, <2>1
  <2> QED
    BY <1>1, <2>1, <2>2 DEF SheetRows
<1>3. MergeTypeOK'
  BY <1>1, <1>2 DEF MergeTypeOK
<1>4. /\ LoopPassed("phone")' = LoopPassed("phone") /\ LoopPassed("email")' = LoopPassed("email")
      /\ LoopPassed("name")' = LoopPassed("name")
  BY <1>1, <1>2 DEF LoopPassed
<1>5. FirstsKnown'
  BY <1>1, <1>2, <1>4 DEF FirstsKnown, Known, Fields
<1>6. WithFirst'
  BY <1>1, <1>4 DEF WithFirst, Joined, Numberless
<1>7. Apart(group)'
  BY <1>1, ApartStays
<1> QED
  BY <1>1, <1>3, <1>5, <1>6, <1>7 DEF MergeInv

LEMMA StutterKeeps ==
  ASSUME MergeInv, UNCHANGED mergeVars
  PROVE  MergeInv'
<1>1. sheet' = sheet /\ group' = group /\ first' = first /\ phase' = phase /\ at' = at
  BY DEF mergeVars
<1>2. MergeTypeOK' /\ SheetRows' = SheetRows
  BY <1>1 DEF MergeInv, MergeTypeOK, SheetRows
<1>3. \A field \in Fields : LoopPassed(field)' = LoopPassed(field)
  BY <1>1, <1>2 DEF LoopPassed
<1>4. FirstsKnown'
  BY <1>1, <1>2, <1>3 DEF MergeInv, FirstsKnown, Known
<1>5. WithFirst => WithFirst'
  BY <1>1, <1>3 DEF WithFirst, Joined, Numberless, Fields
<1>6. Apart(group) => Apart(group)'
  BY <1>1, ApartStays
<1> QED
  BY <1>1, <1>2, <1>4, <1>5, <1>6 DEF MergeInv

-----------------------------------------------------------------------------
\* The loops begin and go on in MergeInv: every group is made by links, and what the loops have
\* passed is with the first of its values.
THEOREM MergeInductive == MergeSpec => []MergeInv
<1>1. MergeInit => MergeInv
  BY SMT DEF MergeInit, MergeInv, MergeTypeOK, FirstsKnown, Known, LoopPassed, SheetRows, Fields
<1>2. MergeInv /\ [MergeNext]_mergeVars => MergeInv'
  BY ReadingKeeps, MatchExactKeeps, MatchNameKeeps, EndKeeps, StutterKeeps DEF MergeNext
<1> QED
  BY <1>1, <1>2, PTL DEF MergeSpec

\* The parents, the dictionaries and the place of the loops of merge_records keep their types.
THEOREM MergeTypeCorrect == MergeSpec => []MergeTypeOK
<1>1. MergeInv => MergeTypeOK
  BY DEF MergeInv
<1> QED
  BY <1>1, MergeInductive, PTL

LEMMA LinksJoin ==
  ASSUME MergeInv, phase = "done", NEW i \in SheetRows, NEW j \in SheetRows
  PROVE  /\ Linked(i, j) => group[i] = group[j]
         /\ Bears(j, "name", i) /\ Numberless(i) /\ Numberless(j) => group[i] = group[j]
<1>1. MergeTypeOK /\ FirstsKnown /\ WithFirst
  BY DEF MergeInv
<1>2. LoopPassed("phone") = SheetRows /\ LoopPassed("email") = SheetRows /\ LoopPassed("name") = SheetRows
  BY DEF LoopPassed
<1>3. \A field \in {"phone", "email"} : \A k \in SheetRows : Joined(group, field, k)
  BY <1>1, <1>2 DEF WithFirst
<1>4. \A k \in SheetRows : sheet[k]["name"] # Blank /\
        (Numberless(k) \/ Numberless(first["name"][sheet[k]["name"]])) =>
        group[k] = group[first["name"][sheet[k]["name"]]]
  BY <1>1, <1>2 DEF WithFirst, Joined
<1>5. \A a, b \in SheetRows : FirstBearer(b, "name", a) => b = first["name"][sheet[a]["name"]]
  <2> SUFFICES ASSUME NEW a \in SheetRows, NEW b \in SheetRows, FirstBearer(b, "name", a)
               PROVE  b = first["name"][sheet[a]["name"]]
    OBVIOUS
  <2> DEFINE F == first["name"][sheet[a]["name"]]
  <2>1. sheet[a]["name"] # Blank /\ sheet[b]["name"] = sheet[a]["name"]
    BY DEF FirstBearer, Bears
  <2>2. sheet[a]["name"] \in Values
    BY <1>1, <2>1, RowValues DEF Fields
  <2>3. Known(first["name"], "name", SheetRows)
    BY <1>1, <1>2 DEF FirstsKnown, Fields
  <2>4. F \in SheetRows
    BY <2>1, <2>3 DEF Known
  <2>5. F # 0
    BY <2>4 DEF SheetRows
  <2>6. sheet[F]["name"] = sheet[a]["name"] /\
        \A k \in SheetRows : k < F => sheet[k]["name"] # sheet[a]["name"]
    BY <2>2, <2>3, <2>5 DEF Known
  <2>7. ~(b < F)
    BY <2>1, <2>6
  <2>8. ~(F < b)
    <3>1. Bears(F, "name", a)
      BY <2>1, <2>6 DEF Bears
    <3>2. F \in Nat /\ b \in Nat /\ F > 0
      BY <1>1, <2>4 DEF SheetRows, MergeTypeOK
    <3>3. F < b => F \in 1..(b - 1)
      BY <3>2
    <3> QED
      BY <3>1, <3>3 DEF FirstBearer
  <2>9. F \in Nat /\ b \in Nat
    BY <1>1, <2>4 DEF SheetRows, MergeTypeOK
  <2> QED
    BY <2>7, <2>8, <2>9
<1>6. \A a, b \in SheetRows : Bears(b, "phone", a) \/ Bears(b, "email", a) => group[a] = group[b]
  BY <1>3 DEF Bears, Joined
<1>7. \A a, b \in SheetRows :
        FirstBearer(b, "name", a) /\ (Numberless(a) \/ Numberless(b)) => group[a] = group[b]
  BY <1>4, <1>5 DEF FirstBearer, Bears
<1>8. Linked(i, j) => group[i] = group[j]
  BY <1>6, <1>7 DEF Linked
<1>9. Bears(j, "name", i) /\ Numberless(i) /\ Numberless(j) => group[i] = group[j]
  BY <1>4 DEF Bears
<1> QED
  BY <1>8, <1>9

LEMMA MergeInvSafe ==
  ASSUME MergeInv
  PROVE  MergeSafe
<1> SUFFICES ASSUME phase = "done"
             PROVE  GroupsAreLinked /\ LinkedAreGrouped /\ KeysDiffer /\ TwoNumbersExplained
  BY DEF MergeSafe
<1>1. Apart(group)
  BY DEF MergeInv
<1>2. GroupsAreLinked
  BY <1>1 DEF Apart, GroupsAreLinked
<1>3. LinkedAreGrouped
  BY LinksJoin DEF LinkedAreGrouped
<1>4. KeysDiffer
  BY LinksJoin DEF KeysDiffer, Unreachable, Linked
<1>5. TwoNumbersExplained
  <2> SUFFICES ASSUME NEW i \in SheetRows, NEW j \in SheetRows, group[i] = group[j],
                      ~Numberless(i), ~Numberless(j), ~Bears(j, "phone", i),
                      \A k, l \in SheetRows : group[k] = group[i] /\ group[l] = group[i] =>
                        ~Numberless(k) /\ (Bears(l, "email", k) => Bears(l, "phone", k))
               PROVE  FALSE
    BY DEF TwoNumbersExplained
  <2> DEFINE S == {k \in SheetRows : group[k] = group[i] /\ Bears(k, "phone", i)}
  <2>1. i \in S /\ j \in SheetRows \ S
    BY DEF Bears, Numberless
  <2>2. Separate(S)
    <3> SUFFICES ASSUME NEW a \in S, NEW b \in SheetRows \ S, Linked(a, b)
                 PROVE  FALSE
      BY DEF Separate
    <3>1. group[b] = group[i] /\ ~Bears(b, "phone", i)
      BY LinksJoin
    <3>2. ~Numberless(a) /\ ~Numberless(b)
      BY <3>1
    <3>3. Bears(b, "phone", a)
      BY <3>1, <3>2 DEF Linked
    <3> QED
      BY <3>1, <3>3 DEF Bears
  <2> QED
    BY <1>1, <2>1, <2>2 DEF Apart
<1> QED
  BY <1>2, <1>3, <1>4, <1>5

\* merge_records: for every workbook, the leads of an import are exactly the groups of records
\* that numbers, addresses and names link, no two leads share a key, and a group with two
\* numbers has a shared address or a record without a number in it.
THEOREM MergeCorrect == MergeSpec => []MergeSafe
  BY MergeInductive, MergeInvSafe, PTL
=============================================================================
