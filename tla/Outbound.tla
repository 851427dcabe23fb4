------------------------------ MODULE Outbound ------------------------------
(***************************************************************************)
(* The table of outbound messages, shared by the Telegram queue            *)
(* (services/telegram_sender.py, flushed by the owner's requests) and the  *)
(* immediate WhatsApp sends (services/whatsapp_sender.py), with the gates  *)
(* both pass: opt-out, cooldown per lead and the daily cap; and the        *)
(* WhatsApp templates (services/wa_templates.py), which pass none.         *)
(*                                                                         *)
(* A sender is a request with its own session: what it posts is out at     *)
(* once, what it writes is seen when it commits, after the last message.   *)
(*                                                                         *)
(* Abstracted: texts and credentials (both channels are configured); day   *)
(* and cooldown end by choice.  Left out: flush_queue of whatsapp_sender,  *)
(* called by nobody, and the rows _fallback writes for a human, which are  *)
(* neither posted nor counted.  Channel "template" stands for whatsapp     *)
(* rows whose message_type is template.                                    *)
(***************************************************************************)
EXTENDS Naturals, FiniteSets

CONSTANTS
  Recipients,    \* leads
  Anyone,        \* a recipient who is not a lead: no opt-out, no cooldown
  Senders,
  DailyLimit,    \* whatsapp_daily_auto_limit
  MaxOutbox,     \* bound: messages
  MaxReceipts,   \* bound: delivery receipts
  MaxTemplates   \* bound: templates

ASSUME OutboundAssumption ==
  /\ DailyLimit \in Nat /\ MaxOutbox \in Nat /\ MaxReceipts \in Nat /\ MaxTemplates \in Nat /\ Anyone \notin Recipients
  /\ IsFiniteSet(Senders) /\ Senders # {}

VARIABLES
  outbox,     \* outbound_messages
  today,      \* messages whose sent_at is of today
  recent,     \* and those whose sent_at is within the lead's cooldown
  optedOut,   \* leads with opt_out
  sender,
  receipts,   \* received so far
  posts,      \* external: how often each message was posted
  tangled,    \* history: messages in two flushes at once, or posted by one that a restart hit
  unheeded    \* history: texts posted to whom had opted out before the request began

outboxRows == <<outbox, today, recent, optedOut>>
outboundVars == <<outbox, today, recent, optedOut, sender, receipts, posts, tangled, unheeded>>

Outbox == 1..MaxOutbox
Outmail == [status : {"none", "open", "queued", "sent", "failed", "blocked", "held", "undone"},
            channel : {"telegram", "whatsapp", "template"}, to : Recipients \cup {Anyone},
            acknowledged : BOOLEAN, receipt : {"none", "delivered", "failed"}]
NoMail == [status |-> "none", channel |-> "telegram", to |-> Anyone, acknowledged |-> FALSE,
           receipt |-> "none"]
Verdicts == {"none", "sent", "failed", "blocked", "held"}
Sender == [pc : {"idle", "list", "gate", "post"}, own : Recipients \cup {Anyone},
           todo : SUBSET Outbox,           \* loaded and not handled yet, in order of creation
           verdict : [Outbox -> Verdicts], \* what it will write
           deaf : SUBSET Recipients]       \* who had opted out when it began; of texts only
FreeSender == [pc |-> "idle", own |-> Anyone, todo |-> {}, verdict |-> [m \in Outbox |-> "none"],
               deaf |-> {}]

OutboundTypeOK ==
  /\ outbox \in [Outbox -> Outmail] /\ today \subseteq Outbox /\ recent \subseteq Outbox
  /\ optedOut \subseteq Recipients /\ sender \in [Senders -> Sender]
  /\ receipts \in 0..MaxReceipts /\ posts \in [Outbox -> Nat]
  /\ tangled \subseteq Outbox /\ unheeded \subseteq Outbox

OutboundInit ==
  /\ outbox = [m \in Outbox |-> NoMail] /\ today = {} /\ recent = {} /\ optedOut = {}
  /\ sender = [s \in Senders |-> FreeSender] /\ receipts = 0
  /\ posts = [m \in Outbox |-> 0] /\ tangled = {} /\ unheeded = {}

Sends(s, r) == sender' = [sender EXCEPT ![s] = r]
Stands(s, pc) == sender[s].pc = pc
Written(s) == {m \in Outbox : sender[s].verdict[m] # "none"}
Works(s) == sender[s].todo \cup Written(s)
FirstOf(S) == CHOOSE m \in S : \A n \in S : m <= n

-----------------------------------------------------------------------------
(* enqueue.                                                                *)

Enqueue(m, status, channel, to) ==
  /\ outbox[m].status = "none" /\ \A n \in 1..(m - 1) : outbox[n].status # "none"
  /\ outbox' = [outbox EXCEPT ![m] = [NoMail EXCEPT !.status = status, !.channel = channel, !.to = to]]

\* company_send: a message to a lead who has not opted out is committed to the queue.
CompanySend(s, to) ==
  /\ Stands(s, "idle") /\ to \notin optedOut
  /\ \E m \in Outbox : Enqueue(m, "queued", "telegram", to)
  /\ Sends(s, [FreeSender EXCEPT !.pc = "list", !.own = to, !.deaf = optedOut])
  /\ UNCHANGED <<today, recent, optedOut, receipts, posts, tangled, unheeded>>

\* send_now: the message is not committed before it is sent.
SendNow(s, to) ==
  /\ Stands(s, "idle")
  /\ \E m \in Outbox :
       /\ Enqueue(m, "open", "whatsapp", to)
       /\ Sends(s, [FreeSender EXCEPT !.pc = "gate", !.todo = {m}, !.deaf = optedOut])
  /\ UNCHANGED <<today, recent, optedOut, receipts, posts, tangled, unheeded>>

\* send_business_initiated, outside the 24 hours and with an approved template: posted at once,
\* no opt-out, cooldown or cap asked, and its row written with the same request.
SendTemplate(s, to) ==
  /\ Stands(s, "idle") /\ Cardinality({m \in Outbox : outbox[m].channel = "template"}) < MaxTemplates
  /\ \E m \in Outbox :
       /\ Enqueue(m, "open", "template", to)
       /\ Sends(s, [FreeSender EXCEPT !.pc = "post", !.todo = {m}])
  /\ UNCHANGED <<today, recent, optedOut, receipts, posts, tangled, unheeded>>

-----------------------------------------------------------------------------
(* flush_queue and _send_with_ack.                                         *)

\* Every Telegram message that is queued, its own and those that others left or still send.
ListQueue(s) ==
  /\ Stands(s, "list")
  /\ LET rows == {m \in Outbox : outbox[m].status = "queued"}
     IN /\ Sends(s, [sender[s] EXCEPT !.pc = "gate", !.todo = rows])
        /\ tangled' = tangled \cup {m \in rows : \E q \in Senders \ {s} : m \in Works(q)}
  /\ UNCHANGED <<outboxRows, receipts, posts, unheeded>>

NoCount(s, S) == {}  \* mutant: what was sent is not counted
Counts(s, S) == {m \in S : outbox[m].status = "sent"}

\* _outreach_block_reason.  The lead of the request itself was read when it began.
OptedOut(s, m) == outbox[m].to \in optedOut /\ outbox[m].to # sender[s].own
Cooling(s, m) == outbox[m].to # Anyone /\ \E n \in Counts(s, recent) : outbox[n].to = outbox[m].to
Full(s) == Cardinality(Counts(s, today)) >= DailyLimit

NoGate(s, m) == "none"  \* mutant: nobody is asked
Gate(s, m) ==
  IF OptedOut(s, m) THEN "blocked"
  ELSE IF outbox[m].channel = "whatsapp" /\ (Cooling(s, m) \/ Full(s)) THEN "held"
  ELSE "none"

CheckGate(s) ==
  /\ Stands(s, "gate") /\ sender[s].todo # {}
  /\ LET m == FirstOf(sender[s].todo)
     IN Sends(s, IF Gate(s, m) = "none" THEN [sender[s] EXCEPT !.pc = "post"]
                 ELSE [sender[s] EXCEPT !.todo = @ \ {m}, !.verdict[m] = Gate(s, m)])
  /\ UNCHANGED <<outboxRows, receipts, posts, tangled, unheeded>>

Judge(s, m, verdict) ==
  Sends(s, [sender[s] EXCEPT !.pc = "gate", !.todo = @ \ {m}, !.verdict[m] = verdict])

\* The provider takes the message, whether or not its answer arrives.
PostOut(s) ==
  /\ Stands(s, "post")
  /\ LET m == FirstOf(sender[s].todo)
     IN /\ posts' = [posts EXCEPT ![m] = @ + 1]
        /\ unheeded' = unheeded \cup {n \in {m} : outbox[n].to \in sender[s].deaf}
        /\ \E verdict \in {"sent", "failed"} : Judge(s, m, verdict)
  /\ UNCHANGED <<outboxRows, receipts, tangled>>

PostOutFails(s) ==
  /\ Stands(s, "post") /\ Judge(s, FirstOf(sender[s].todo), "failed")
  /\ UNCHANGED <<outboxRows, receipts, posts, tangled, unheeded>>

\* Commits what it decided of every message, whatever the rows say by now.
CommitFlush(s) ==
  /\ Stands(s, "gate") /\ sender[s].todo = {}
  /\ LET verdict == sender[s].verdict
         sent == {m \in Outbox : verdict[m] = "sent"}
         failed == {m \in Outbox : verdict[m] = "failed"}
     IN /\ outbox' = [m \in Outbox |-> IF verdict[m] = "none" THEN outbox[m]
                        ELSE [outbox[m] EXCEPT !.status = verdict[m], !.acknowledged = @ \/ m \in sent]]
        /\ today' = (today \cup sent) \ failed /\ recent' = (recent \cup sent) \ failed
  /\ Sends(s, FreeSender)
  /\ UNCHANGED <<optedOut, receipts, posts, tangled, unheeded>>

-----------------------------------------------------------------------------
(* acknowledge_status.                                                     *)

\* Receipts come in any order; a failed one takes the message out of the counts.
AcknowledgeStatus(m, receipt) ==
  /\ receipts < MaxReceipts /\ receipts' = receipts + 1
  /\ outbox[m].channel # "telegram" /\ outbox[m].acknowledged /\ outbox[m].receipt # receipt
  /\ outbox' = [outbox EXCEPT ![m].receipt = receipt,
                              ![m].status = IF receipt = "failed" THEN "failed" ELSE @]
  /\ UNCHANGED <<today, recent, optedOut, sender, posts, tangled, unheeded>>

OptOut(l) ==
  /\ l \notin optedOut /\ optedOut' = optedOut \cup {l}
  /\ UNCHANGED <<outbox, today, recent, sender, receipts, posts, tangled, unheeded>>

CooldownOver(l) ==
  /\ \E m \in recent : outbox[m].to = l
  /\ recent' = {m \in recent : outbox[m].to # l}
  /\ UNCHANGED <<outbox, today, optedOut, sender, receipts, posts, tangled, unheeded>>

Midnight ==
  /\ today # {} /\ today' = {}
  /\ UNCHANGED <<outbox, recent, optedOut, sender, receipts, posts, tangled, unheeded>>

\* What was not committed is undone: a message of the queue is queued again.
OutboundRestart ==
  /\ \E s \in Senders : ~Stands(s, "idle")
  /\ sender' = [s \in Senders |-> FreeSender]
  /\ outbox' = [m \in Outbox |-> IF outbox[m].status = "open" THEN [outbox[m] EXCEPT !.status = "undone"]
                                 ELSE outbox[m]]
  /\ tangled' = tangled \cup UNION {Written(s) : s \in Senders}
  /\ UNCHANGED <<today, recent, optedOut, receipts, posts, unheeded>>

OutboundNext ==
  \/ \E s \in Senders :
       \/ \E l \in Recipients : CompanySend(s, l)
       \/ \E to \in Recipients \cup {Anyone} : SendNow(s, to) \/ SendTemplate(s, to)
       \/ ListQueue(s) \/ CheckGate(s) \/ PostOut(s) \/ PostOutFails(s) \/ CommitFlush(s)
  \/ \E m \in Outbox, receipt \in {"delivered", "failed"} : AcknowledgeStatus(m, receipt)
  \/ \E l \in Recipients : OptOut(l) \/ CooldownOver(l)
  \/ Midnight \/ OutboundRestart

OutboundSpec == OutboundInit /\ [][OutboundNext]_outboundVars

-----------------------------------------------------------------------------
\* A message that no two flushes held goes out at most once, and did when it says sent.
PostedOnce ==
  \A m \in Outbox \ tangled :
    /\ posts[m] <= 1
    /\ outbox[m].status = "sent" => posts[m] = 1
    /\ outbox[m].status \in {"blocked", "held"} => posts[m] = 0

\* WhatsApp texts whose sending the provider confirmed.
SentOn(S) == {m \in S : outbox[m].channel = "whatsapp" /\ outbox[m].status = "sent"}

\* The gate is passed before the post and the count is written after it, so each other sender
\* may exceed a limit by one text, and no more.  Not bounded by the code, and so not by this: the
\* templates, which ask no gate (wa_templates.py:214), though they count for the texts' gates,
\* and posts whose answer was lost, whose rows say failed and are not counted.
LimitsHold ==
  /\ Cardinality(SentOn(today)) < DailyLimit + Cardinality(Senders)
  /\ \A l \in Recipients : Cardinality({m \in SentOn(recent) : outbox[m].to = l}) <= Cardinality(Senders)

\* What is left of "opt-outs ... are always blocked, a daily auto-send cap and a per-lead
\* cooldown prevent spam loops" (whatsapp_sender.py:13) beside templates: who had opted out
\* when a request began gets no text from it, the texts confirmed as sent exceed the limits by
\* no more than the senders at work at once, and a message, template or text, goes out once
\* and was posted when it is "marked sent" (:9).
OutboundSafe == unheeded = {} /\ PostedOnce /\ LimitsHold
=============================================================================
