------------------------------ MODULE SalesChat ------------------------------
(***************************************************************************)
(* Al-Narjis's own sales conversations on WhatsApp: the webhook, the reply *)
(* drafts (services/smart_reply.py), the owner's decisions on them and the *)
(* lead pipeline with its follow-ups (services/lead_pipeline.py).          *)
(*                                                                         *)
(* A handler is a request, or the hourly pass, with a database session of  *)
(* its own.  It works on the rows as it loaded them and writes, when it    *)
(* commits, the columns it changed.  A row lock only makes the second      *)
(* writer of a row wait for the first; here nothing waits, so a handler    *)
(* has more interleavings than in the code.                                *)
(*                                                                         *)
(* Abstracted: wording, language model and draft scoring are choices; all  *)
(* hours are one step of time; every lead is already in the CRM; WhatsApp  *)
(* is configured.  A plan is chosen or not.                                *)
(***************************************************************************)
EXTENDS Naturals, FiniteSets

CONSTANTS
  Leads,
  Messages,      \* inbound messages, each of one lead and with one text
  SenderOf,      \* [Messages -> Leads]
  TextOf,        \* [Messages -> Texts]
  Handlers,
  Jobs,          \* the requests made in this instance
  OwnerStages,   \* the stages the owner sets in this instance
  OwnerModes,    \* the modes the owner chooses in this instance
  Approved,      \* Meta has approved the templates
  MaxFollowups,  \* len(followup_hours())
  MaxDeliveries, \* bound: deliveries of one message
  MaxDrafts,     \* bound: drafts written
  MaxInvoices,   \* bound: invoices created
  MaxRequests,   \* bound: requests and passes begun
  MaxRestarts,   \* bound: restarts of the process
  None

Texts == {"stop", "no", "buy", "ask"}
Stages == {"none", "new", "qualified", "offer_sent", "payment_link_sent", "paid", "lost"}
Modes == {"off", "review", "auto"}
AllJobs == {"message", "approve", "reject", "stage", "link", "followups"}

ASSUME SalesAssumption ==
  /\ SenderOf \in [Messages -> Leads] /\ TextOf \in [Messages -> Texts]
  /\ Jobs \subseteq AllJobs /\ OwnerStages \subseteq Stages \ {"none"}
  /\ OwnerModes \subseteq Modes /\ Approved \in BOOLEAN
  /\ MaxFollowups \in Nat /\ MaxDeliveries \in Nat /\ MaxRestarts \in Nat
  /\ MaxDrafts \in Nat /\ MaxInvoices \in Nat /\ MaxRequests \in Nat
  /\ None \notin Leads /\ None \notin Messages /\ None \notin AllJobs

VARIABLES
  optOut,    \* leads whose opt_out is set
  window,    \* leads who wrote in the last 24 hours
  pipe,      \* automation_lead_pipeline, one row per lead
  draft,     \* automation_reply_drafts
  invoice,   \* payments made for a lead, as far as the pipeline looks at them
  message,   \* inbound_messages: recorded, and how often Meta delivered it
  mode,      \* automation_channel_settings of the channel
  handler,
  requests,  \* begun so far
  restarts,
  posted,    \* external: how often the customer got each draft
  deaf,      \* history: drafts posted as free text by a handler that began after the opt-out
  contested, \* history: drafts two handlers decided at once, or lost by a restart after the post
  chased,    \* history: follow-ups since the lead's count was last reset, committed or
             \* posted by a pass that a restart cut off
  twice,     \* history: messages two deliveries both took for new
  overlapped \* history: two follow-up passes ran at once

rows == <<optOut, window, pipe, draft, invoice, message>>
history == <<posted, deaf, contested, chased, twice, overlapped>>
vars == <<optOut, window, pipe, draft, invoice, message, mode, handler, requests, restarts,
          posted, deaf, contested, chased, twice, overlapped>>

Drafts == 1..MaxDrafts
Invoices == 1..MaxInvoices
FollowupStages == {"offer_sent", "payment_link_sent"}
Kinds == {"reply", "payment_link", "followup"}

\* final: lost_reason is opt_out or not_interested.  next: next_followup_at.  pay: payment_id.
\* link: payment_url is set.
Pipe == [stage : Stages, final : BOOLEAN, next : {"never", "later", "due"},
         followups : 0..MaxFollowups, plan : BOOLEAN, pay : 0..MaxInvoices, link : BOOLEAN]
NoPipe == [stage |-> "none", final |-> FALSE, next |-> "never", followups |-> 0,
           plan |-> FALSE, pay |-> 0, link |-> FALSE]
\* "open": inserted in a transaction that has not committed.
Draft == [status : {"none", "open", "pending", "sent", "failed", "rejected", "undone"},
          lead : Leads \cup {None}, kind : Kinds, plan : BOOLEAN, msg : Messages \cup {None}]
NoDraft == [status |-> "none", lead |-> None, kind |-> "reply", plan |-> FALSE, msg |-> None]

Steps == {"idle", "record", "load", "queue", "invoice", "post", "scan", "commit"}
Handler == [job : AllJobs \cup {None}, pc : Steps, lead : Leads \cup {None},
            msg : Messages \cup {None}, seen : BOOLEAN,
            began : SUBSET Leads,            \* leads opted out when it began
            stop : BOOLEAN, knows : BOOLEAN, \* opt_out of the lead it holds, if it holds it
            was : [Leads -> Pipe], now : [Leads -> Pipe],
            draft : 0..MaxDrafts, wrote : [Drafts -> {"no", "pending", "sent", "failed", "rejected"}],
            todo : SUBSET Leads]
Idle == [job |-> None, pc |-> "idle", lead |-> None, msg |-> None, seen |-> FALSE, began |-> {},
         stop |-> FALSE, knows |-> FALSE, was |-> [l \in Leads |-> NoPipe],
         now |-> [l \in Leads |-> NoPipe], draft |-> 0, wrote |-> [d \in Drafts |-> "no"],
         todo |-> {}]

TypeOK ==
  /\ optOut \subseteq Leads /\ window \subseteq Leads
  /\ pipe \in [Leads -> Pipe] /\ draft \in [Drafts -> Draft]
  /\ invoice \in [Invoices -> {"none", "open", "paid"}]
  /\ message \in [Messages -> [recorded : BOOLEAN, deliveries : 0..MaxDeliveries]]
  /\ mode \in Modes /\ handler \in [Handlers -> Handler] /\ requests \in 0..MaxRequests /\ restarts \in 0..MaxRestarts
  /\ posted \in [Drafts -> Nat] /\ deaf \subseteq Drafts /\ contested \subseteq Drafts
  /\ chased \in [Leads -> Nat] /\ twice \subseteq Messages /\ overlapped \in BOOLEAN

Init ==
  /\ optOut = {} /\ window = {} /\ pipe = [l \in Leads |-> NoPipe]
  /\ draft = [d \in Drafts |-> NoDraft] /\ invoice = [i \in Invoices |-> "none"]
  /\ message = [m \in Messages |-> [recorded |-> FALSE, deliveries |-> 0]]
  /\ mode = "review" /\ handler = [h \in Handlers |-> Idle] /\ requests = 0 /\ restarts = 0
  /\ posted = [d \in Drafts |-> 0] /\ deaf = {} /\ contested = {}
  /\ chased = [l \in Leads |-> 0] /\ twice = {} /\ overlapped = FALSE

-----------------------------------------------------------------------------
(* lead_pipeline.set_stage, on_inbound, on_draft_sent.                     *)

Moved(p, stage, final) ==
  [p EXCEPT !.stage = stage,
            !.followups = IF stage \in FollowupStages THEN 0 ELSE @,
            !.next = CASE stage \in FollowupStages -> "later"
                       [] stage \in {"paid", "lost"} -> "never"
                       [] OTHER -> @,
            !.final = IF stage = "lost" THEN final ELSE @]

SetAnyStage(p, stage, final) ==  \* mutant: a paid customer may drop back
  IF p.stage = stage THEN p ELSE Moved(p, stage, final)

SetStage(p, stage, final) ==
  IF p.stage \in {stage, "paid"} THEN p ELSE Moved(p, stage, final)

Revived(p) ==
  IF p.stage = "lost" /\ ~p.final
  THEN SetStage(p, IF p.plan THEN "qualified" ELSE "new", FALSE) ELSE p

OnInbound(p) ==
  IF Revived(p).stage \in FollowupStages
  THEN [Revived(p) EXCEPT !.followups = 0, !.next = "later"] ELSE Revived(p)

OnDraftSent(p, d) ==
  CASE d.kind = "payment_link" -> SetStage(p, "payment_link_sent", FALSE)
    [] d.kind = "reply" /\ d.plan /\ p.stage \in {"new", "qualified"} -> SetStage(p, "offer_sent", FALSE)
    [] OTHER -> p

\* What the handler's commit leaves in the row: the columns it changed.
Written(row, was, now) == [c \in DOMAIN row |-> IF now[c] = was[c] THEN row[c] ELSE now[c]]

Go(h, r) == handler' = [handler EXCEPT ![h] = r]
At(h, pc) == handler[h].pc = pc
Start(h, job) == [Idle EXCEPT !.job = job, !.began = optOut]
Begin(h) == At(h, "idle") /\ requests < MaxRequests /\ requests' = requests + 1
Holding(h, l) == [handler[h] EXCEPT !.was[l] = pipe[l], !.now[l] = pipe[l]]
Held(h) == handler[h].now[handler[h].lead]

-----------------------------------------------------------------------------
(* The webhook: _already_seen, process_inbound_payload, _smart_replies.    *)

\* Meta delivers a message, perhaps again; the handler looks up which it has seen.
Deliver(h, m) ==
  /\ "message" \in Jobs /\ Begin(h) /\ message[m].deliveries < MaxDeliveries
  /\ message' = [message EXCEPT ![m].deliveries = @ + 1]
  /\ Go(h, [Start(h, "message") EXCEPT !.pc = "record", !.msg = m, !.lead = SenderOf[m],
                                       !.seen = message[m].recorded])
  /\ UNCHANGED <<optOut, window, pipe, draft, invoice, mode, restarts, history>>

\* promote_lead: an opt-out is recorded whatever the channel's mode.
Promote(h) ==
  /\ optOut' = optOut \cup {l \in {handler[h].lead} : TextOf[handler[h].msg] = "stop"}
  /\ window' = window \cup {handler[h].lead}

\* The transaction of the webhook, and the messages _smart_replies goes on to answer.
Record(h) ==
  /\ At(h, "record") /\ ~message[handler[h].msg].recorded
  /\ message' = [message EXCEPT ![handler[h].msg].recorded = TRUE]
  /\ Promote(h)
  /\ Go(h, [handler[h] EXCEPT !.pc = "load", !.began = optOut'])
  /\ UNCHANGED <<pipe, draft, invoice, mode, requests, restarts, history>>

NeverSeen(h) == FALSE  \* mutant: duplicates are answered too
Seen(h) == handler[h].seen

\* Recorded by another delivery: skipped as a duplicate, but _smart_replies asks what
\* _already_seen found, which may be older.
RecordDuplicate(h) ==
  /\ At(h, "record") /\ message[handler[h].msg].recorded
  /\ Go(h, IF Seen(h) THEN Idle ELSE [handler[h] EXCEPT !.pc = "load"])
  /\ twice' = twice \cup {m \in {handler[h].msg} : ~handler[h].seen}
  /\ UNCHANGED <<rows, mode, requests, restarts, posted, deaf, contested, chased, overlapped>>

\* The other delivery committed after this one looked: the insert fails on the unique id.
RecordFails(h) ==
  /\ At(h, "record") /\ message[handler[h].msg].recorded /\ ~handler[h].seen
  /\ Go(h, Idle)
  /\ UNCHANGED <<rows, mode, requests, restarts, history>>

-----------------------------------------------------------------------------
(* smart_reply.handle_inbound.                                             *)

\* Another session has inserted the lead's pipeline row and not committed.
Inserting(h, l) == \E k \in Handlers \ {h} : handler[k].was[l].stage = "none" /\ handler[k].now[l].stage # "none"

\* The lead and its pipeline row (ensure inserts it): what the session goes on with.
Load(h) ==
  /\ At(h, "load")
  /\ LET l == handler[h].lead
         r == [Holding(h, l) EXCEPT !.pc = "queue", !.stop = l \in optOut, !.knows = TRUE]
     IN IF mode = "off" THEN Go(h, Idle)
        ELSE ~Inserting(h, l) /\ Go(h, IF pipe[l].stage = "none" THEN [r EXCEPT !.now[l].stage = "new"] ELSE r)
  /\ UNCHANGED <<rows, mode, requests, restarts, history>>

\* Found no row and inserts it after another session did: its message stays unanswered.
LoadFails(h) ==
  /\ At(h, "load") /\ mode # "off" /\ Inserting(h, handler[h].lead) /\ Go(h, Idle)
  /\ UNCHANGED <<rows, mode, requests, restarts, history>>

\* The draft a message leads to ("none": no reply) and the pipeline row after it: whether
\* the advisor finds a need, the knowledge base an answer, or the lead was just greeted, is a
\* choice.  Whoever said stop was opted out by Promote already, so the branch of
\* handle_inbound that would close the pipeline is never reached.
Answers(h) ==
  LET p == OnInbound(Held(h))
      Reply(q) == [now |-> q, kind |-> "reply", plan |-> q.plan]
      Silent == [now |-> p, kind |-> "none", plan |-> FALSE]
      text == TextOf[handler[h].msg]
  IN IF handler[h].stop THEN {Silent}
     ELSE CASE text = "no" -> {Reply(SetStage(p, "lost", TRUE))}
       [] text = "buy" /\ p.plan -> {[now |-> p, kind |-> "payment_link", plan |-> TRUE]}
       [] OTHER -> {Reply(SetStage([p EXCEPT !.plan = TRUE], "qualified", FALSE)), Reply(p), Silent}

Decided(h) == IF handler[h].job = "followups" THEN "scan" ELSE "commit"

\* queue_or_send, the handler's record being r: the draft is inserted and, in auto mode and
\* unless its score flagged it, sent.  The mode is read again here.
QueueOrSend(h, r, l, kind, plan, msg) == \E d \in Drafts, flagged \in BOOLEAN :
  /\ draft[d].status = "none" /\ \A e \in 1..(d - 1) : draft[e].status # "none"
  /\ draft' = [draft EXCEPT ![d] = [status |-> "open", lead |-> l, kind |-> kind,
                                    plan |-> plan, msg |-> msg]]
  /\ Go(h, [r EXCEPT !.draft = d, !.wrote[d] = "pending", !.lead = l,
              !.pc = IF mode # "auto" \/ flagged THEN Decided(h)
                     ELSE IF kind = "payment_link" /\ ~r.now[l].link THEN "invoice" ELSE "post"])

\* After the advisor's answer (ceo_advisor.diagnose), with the rows as Load found them.
Queue(h) ==
  /\ At(h, "queue")
  /\ \E a \in IF handler[h].job = "link" THEN {[now |-> Held(h), kind |-> "payment_link", plan |-> TRUE]}
              ELSE Answers(h) :
       LET r == [handler[h] EXCEPT !.now[handler[h].lead] = a.now]
       IN IF a.kind = "none" THEN draft' = draft /\ Go(h, [r EXCEPT !.pc = "commit"])
          ELSE QueueOrSend(h, r, r.lead, a.kind, a.plan, r.msg)
  /\ UNCHANGED <<optOut, window, pipe, invoice, message, mode, requests, restarts, history>>

-----------------------------------------------------------------------------
(* _send_draft: the invoice, the delivery, the stage after it.             *)

CommittedDrafts(h) ==
  [d \in Drafts |-> IF handler[h].wrote[d] = "no" THEN draft[d]
                    ELSE [draft[d] EXCEPT !.status = handler[h].wrote[d]]]
CommittedPipes(h) ==
  [l \in Leads |-> Written(pipe[l], handler[h].was[l], handler[h].now[l])]

Resets(h, l) == handler[h].now[l].followups = 0 /\ handler[h].was[l].followups # 0
NewFollowups(h, l) ==
  {d \in Drafts : handler[h].wrote[d] # "no" /\ draft[d].status = "open"
                  /\ draft[d].kind = "followup" /\ draft[d].lead = l}

\* What the session holds is committed.
Committing(h) ==
  /\ pipe' = CommittedPipes(h) /\ draft' = CommittedDrafts(h)
  /\ chased' = [l \in Leads |-> IF Resets(h, l) THEN 0 ELSE chased[l] + Cardinality(NewFollowups(h, l))]

\* ensure_payment_link: create_payment commits what the session holds so far, the draft as
\* pending; the link is written to the pipeline afterwards.
CreateInvoice(h) ==
  /\ At(h, "invoice")
  /\ \E i \in Invoices :
       /\ invoice[i] = "none" /\ \A j \in 1..(i - 1) : invoice[j] # "none"
       /\ invoice' = [invoice EXCEPT ![i] = "open"]
       /\ Committing(h)
       /\ LET l == handler[h].lead
          IN Go(h, [handler[h] EXCEPT !.pc = "post", !.was = handler[h].now,
                      !.now[l] = [@ EXCEPT !.pay = i, !.link = TRUE, !.plan = TRUE]])
  /\ UNCHANGED <<optOut, window, message, mode, requests, restarts, posted, deaf, contested, twice, overlapped>>

\* No link, nothing sent.
InvoiceFails(h) ==
  /\ At(h, "invoice")
  /\ Go(h, [handler[h] EXCEPT !.pc = Decided(h), !.wrote[handler[h].draft] = "failed"])
  /\ UNCHANGED <<rows, mode, requests, restarts, history>>

\* _deliver_outside_window: a follow-up or a link to someone silent for 24 hours.
NeedsTemplate(d) == draft[d].kind \in {"followup", "payment_link"} /\ draft[d].lead \notin window

NeverBlocks(h, d) == TRUE  \* mutant: no gate

\* _outreach_block_reason sees the lead as the session holds it.  Its cooldown and its daily
\* limit are the refusals of PostFails.
Allowed(h, d) == IF handler[h].knows THEN ~handler[h].stop ELSE draft[d].lead \notin optOut

\* on_draft_sent, on the pipeline row the session holds or loads now.
AfterPost(h, d) ==
  LET l == draft[d].lead
      r == IF handler[h].job = "approve" /\ handler[h].now[l] = handler[h].was[l]
           THEN Holding(h, l) ELSE handler[h]
  IN [r EXCEPT !.now[l] = OnDraftSent(@, draft[d]), !.wrote[d] = "sent", !.pc = Decided(h)]

\* The customer gets the message; the acknowledgement may be lost.
Post(h) ==
  /\ At(h, "post")
  /\ LET d == handler[h].draft
     IN /\ IF NeedsTemplate(d) THEN Approved ELSE Allowed(h, d)
        /\ posted' = [posted EXCEPT ![d] = @ + 1]
        /\ deaf' = deaf \cup {e \in {d} : ~NeedsTemplate(d) /\ draft[d].lead \in handler[h].began}
        /\ \/ Go(h, AfterPost(h, d))
           \/ Go(h, [handler[h] EXCEPT !.pc = Decided(h), !.wrote[d] = "failed"])
  /\ UNCHANGED <<rows, mode, requests, restarts, contested, chased, twice, overlapped>>

\* Blocked, held, refused by Meta, or left to the owner for want of a template.
PostFails(h) ==
  /\ At(h, "post")
  /\ Go(h, [handler[h] EXCEPT !.pc = Decided(h), !.wrote[handler[h].draft] = "failed"])
  /\ UNCHANGED <<rows, mode, requests, restarts, history>>

Commit(h) ==
  /\ At(h, "commit") \/ (At(h, "scan") /\ handler[h].todo = {})
  /\ Committing(h)
  /\ Go(h, Idle)
  /\ UNCHANGED <<optOut, window, invoice, message, mode, requests, restarts, posted, deaf,
                 contested, twice, overlapped>>

-----------------------------------------------------------------------------
(* The owner: automation_routes.                                           *)

Deciding(d) == \E k \in Handlers : handler[k].draft = d
Contest(d) == contested' = contested \cup {e \in {d} : Deciding(e)}

AnyDraft(d) == draft[d].status \in {"pending", "sent", "failed"}  \* mutant: decided drafts too

\* _pending
Pending(d) == draft[d].status = "pending"

\* approve: a link is made unless the pipeline holds one for the draft's plan.
Approve(h, d) ==
  /\ "approve" \in Jobs /\ Begin(h) /\ Pending(d) /\ Contest(d)
  /\ LET l == draft[d].lead
         r == [Start(h, "approve") EXCEPT !.lead = l, !.draft = d, !.pc = "post"]
     IN IF draft[d].kind # "payment_link" THEN Go(h, r)
        ELSE \E reuse \in BOOLEAN :
               /\ reuse => pipe[l].link
               /\ Go(h, [r EXCEPT !.was[l] = pipe[l], !.now[l] = pipe[l],
                                  !.pc = IF reuse THEN "post" ELSE "invoice"])
  /\ UNCHANGED <<rows, mode, restarts, posted, deaf, chased, twice, overlapped>>

Reject(h, d) ==
  /\ "reject" \in Jobs /\ Begin(h) /\ Pending(d) /\ Contest(d)
  /\ Go(h, [Start(h, "reject") EXCEPT !.pc = "commit", !.draft = d, !.wrote[d] = "rejected"])
  /\ UNCHANGED <<rows, mode, restarts, posted, deaf, chased, twice, overlapped>>

\* set_pipeline_stage
MoveStage(h, l, stage) ==
  /\ "stage" \in Jobs /\ Begin(h) /\ pipe[l].stage # "none"
  /\ Go(h, [Start(h, "stage") EXCEPT !.pc = "commit", !.lead = l, !.was[l] = pipe[l],
              !.now[l] = SetStage(pipe[l], stage, FALSE)])
  /\ UNCHANGED <<rows, mode, restarts, history>>

\* request_payment_link: for another plan than before, the old link is forgotten; its
\* payment, which still makes the lead paid, is not.
RequestLink(h, l) ==
  /\ "link" \in Jobs /\ Begin(h) /\ pipe[l].stage # "none"
  /\ \E other \in BOOLEAN :
       Go(h, [Start(h, "link") EXCEPT !.pc = "queue", !.lead = l, !.was[l] = pipe[l],
                !.now[l] = [pipe[l] EXCEPT !.plan = TRUE, !.link = @ /\ ~other]])
  /\ UNCHANGED <<rows, mode, restarts, history>>

SetMode(m) == mode' = m /\ m # mode /\ UNCHANGED <<rows, handler, requests, restarts, history>>

-----------------------------------------------------------------------------
(* lead_pipeline.run_followups: one session, committed after the last lead. *)

StartPass(h) ==
  /\ "followups" \in Jobs /\ Begin(h)
  /\ LET due == {l \in Leads : pipe[l].stage \in FollowupStages}
         rowsOf == [l \in Leads |-> IF l \in due THEN pipe[l] ELSE NoPipe]
     IN due # {} /\ Go(h, [Start(h, "followups") EXCEPT !.pc = "scan", !.todo = due,
                             !.was = rowsOf, !.now = rowsOf])
  /\ overlapped' = (overlapped \/ \E k \in Handlers : handler[k].job = "followups")
  /\ UNCHANGED <<rows, mode, restarts, posted, deaf, contested, chased, twice>>

Paid(p) == p.pay # 0 /\ invoice[p.pay] = "paid"

NoCount(p) == [p EXCEPT !.next = "later"]  \* mutant: the follow-up is not counted
Counted(p) == [p EXCEPT !.followups = @ + 1, !.next = "later"]

\* What a pass does with a lead that needs no draft.
Passed(l, p) ==
  CASE Paid(p) -> SetStage(p, "paid", FALSE)
    [] ~Paid(p) /\ p.next # "due" -> p
    [] ~Paid(p) /\ p.next = "due" /\ p.followups >= MaxFollowups -> SetStage(p, "lost", FALSE)
    [] OTHER -> [p EXCEPT !.next = "later"]

Chaseable(l, p) ==
  ~Paid(p) /\ p.next = "due" /\ p.followups < MaxFollowups /\ l \notin optOut /\ mode # "off"

AlreadyPending(h, l) ==
  \E d \in Drafts : /\ draft[d].lead = l /\ draft[d].kind = "followup"
                    /\ draft[d].status = "pending" \/ handler[h].wrote[d] = "pending"

Chase(h, l) ==
  /\ At(h, "scan") /\ l \in handler[h].todo
  /\ LET p == handler[h].now[l]
         r == [handler[h] EXCEPT !.todo = @ \ {l}, !.lead = l, !.stop = FALSE, !.knows = TRUE]
     IN CASE ~Chaseable(l, p) -> draft' = draft /\ Go(h, [r EXCEPT !.now[l] = Passed(l, p)])
          [] Chaseable(l, p) /\ AlreadyPending(h, l) -> draft' = draft /\ Go(h, [r EXCEPT !.now[l] = Counted(p)])
          [] OTHER -> QueueOrSend(h, [r EXCEPT !.now[l] = Counted(p)], l, "followup", p.plan, None)
  /\ UNCHANGED <<optOut, window, pipe, invoice, message, mode, requests, restarts, history>>

-----------------------------------------------------------------------------
\* The customer pays; the payment itself is Settlement's.
PayInvoice(i) ==
  /\ invoice[i] = "open" /\ invoice' = [invoice EXCEPT ![i] = "paid"]
  /\ UNCHANGED <<optOut, window, pipe, draft, message, mode, handler, requests, restarts, history>>

\* next_followup_at comes; outside these stages nobody looks at it and entering them sets it.
FollowupDue(l) ==
  /\ pipe[l].stage \in FollowupStages
  /\ pipe[l].next = "later" /\ pipe' = [pipe EXCEPT ![l].next = "due"]
  /\ UNCHANGED <<optOut, window, draft, invoice, message, mode, handler, requests, restarts, history>>

\* 24 hours since the customer's last message.
WindowCloses(l) ==
  /\ l \in window /\ window' = window \ {l}
  /\ UNCHANGED <<optOut, pipe, draft, invoice, message, mode, handler, requests, restarts, history>>

\* What passes posted to a lead and have not committed.
Severed(l) == {d \in UNION {NewFollowups(h, l) : h \in Handlers} : posted[d] # 0}

\* Open transactions are rolled back.
Restart ==
  /\ restarts < MaxRestarts /\ restarts' = restarts + 1
  /\ handler' = [h \in Handlers |-> Idle]
  /\ draft' = [d \in Drafts |-> IF draft[d].status = "open" THEN [draft[d] EXCEPT !.status = "undone"]
                                ELSE draft[d]]
  /\ contested' = contested \cup
       {d \in Drafts : \E h \in Handlers : handler[h].wrote[d] \in {"sent", "failed"}}
  /\ chased' = [l \in Leads |-> chased[l] + Cardinality(Severed(l))]
  /\ UNCHANGED <<optOut, window, pipe, invoice, message, mode, requests, posted, deaf, twice, overlapped>>

Answering(h) ==
  \/ \E m \in Messages : Deliver(h, m)
  \/ Record(h) \/ RecordDuplicate(h) \/ RecordFails(h) \/ Load(h) \/ LoadFails(h)

Sending(h) ==
  \/ Queue(h) \/ CreateInvoice(h) \/ InvoiceFails(h) \/ Post(h) \/ PostFails(h) \/ Commit(h)

Chasing(h) == StartPass(h) \/ \E l \in Leads : Chase(h, l)

Owner(h) ==
  \/ \E d \in Drafts : Approve(h, d) \/ Reject(h, d)
  \/ \E l \in Leads : RequestLink(h, l) \/ \E s \in OwnerStages : MoveStage(h, l, s)

Next ==
  \/ \E h \in Handlers : Answering(h) \/ Sending(h) \/ Owner(h) \/ Chasing(h)
  \/ \E m \in OwnerModes : SetMode(m)
  \/ \E i \in Invoices : PayInvoice(i)
  \/ \E l \in Leads : FollowupDue(l) \/ WindowCloses(l)
  \/ Restart

Spec == Init /\ [][Next]_vars

-----------------------------------------------------------------------------
\* A handler that begins after a lead opted out sends it no text ("opt-outs ... are always
\* blocked", whatsapp_sender.py:13), whenever the draft was written.  A template, which
\* wa_templates posts without the gate, may still reach the lead.
OptOutHonoured == deaf = {}

\* A draft nobody else was deciding reaches the customer at most once, exactly once when it
\* says sent and never when it was rejected (_pending, _send_draft: smart_reply.py:425).
DecidedOnce ==
  \A d \in Drafts \ contested :
    /\ posted[d] <= 1
    /\ draft[d].status = "sent" => posted[d] = 1
    /\ draft[d].status = "rejected" => posted[d] = 0

\* A redelivered message is not answered again ("duplicate delivery does not redraft",
\* tests/test_smart_automation.py:215), unless it was committed between the two lookups of
\* the second delivery (_already_seen and process_inbound_payload).
AnsweredOnce ==
  \A d, e \in Drafts : draft[d].msg # None /\ draft[d].msg = draft[e].msg
                        => d = e \/ draft[d].msg \in twice

\* Before a reply or a new offer starts the count again, a customer is chased at most
\* MaxFollowups times, and once more for every restart: a pass posts at once and commits what
\* it posted and counted only at its end (run_followups, lead_pipeline.py:206), so that after
\* a restart in between the next pass posts again.  Two passes at once are excepted.  Chased
\* means a draft, which goes out once by DecidedOnce.
FollowupsBounded == overlapped \/ \A l \in Leads : chased[l] <= MaxFollowups + restarts

\* "a paid customer never drops back" (set_stage, lead_pipeline.py:65), except by the
\* commit of a handler that had loaded the row before it was paid.
PaidStaysPaid ==
  [][\A l \in Leads : pipe[l].stage = "paid" /\ pipe'[l].stage # "paid"
       => \E h \in Handlers : handler[h].was[l].stage # "paid"
                              /\ handler[h].now[l].stage = pipe'[l].stage]_vars
=============================================================================
