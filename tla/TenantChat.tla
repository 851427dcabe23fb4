----------------------------- MODULE TenantChat -----------------------------
(***************************************************************************)
(* The agent that answers a subscriber's own customers on the subscriber's *)
(* WhatsApp number (services/tenant_reply.py), the subscriber's staff in   *)
(* the portal and the owner's controls (interfaces/portal_routes.py), for  *)
(* one project.                                                            *)
(*                                                                         *)
(* A worker is a webhook's message or a request of the staff, with its own *)
(* session: it goes on with the project and the contact as it loaded them  *)
(* and writes when it commits.                                             *)
(*                                                                         *)
(* Abstracted: texts; retrieval, store tools and the language model decide *)
(* between an answer and a handoff by choice; the usage limit is a reason  *)
(* for a handoff.                                                          *)
(***************************************************************************)
EXTENDS Naturals, FiniteSets

CONSTANTS
  Contacts, Workers,
  MaxReplies,   \* bound: drafts written
  MaxCalls,     \* bound: workers begun
  MaxTurns,     \* bound: changes of the settings
  NoContact

ASSUME TenantAssumption ==
  /\ MaxReplies \in Nat /\ MaxCalls \in Nat /\ MaxTurns \in Nat /\ NoContact \notin Contacts

VARIABLES
  replyMode,  \* reply_mode of the project
  token,      \* the project has a number and a token of its own
  contact,    \* tenant_contacts
  reply,      \* automation_reply_drafts of the project
  worker,
  calls, turns, \* begun, and settings changed, so far
  sent,       \* external: how often the contact got each reply
  promised,   \* history: contacts the agent told that a human takes over, not released since
  forgotten,  \* history: contacts whose promise a restart hit before it was committed
  disputed    \* history: replies two workers decided at once, or lost by a restart once sent

tenantRows == <<replyMode, token, contact, reply>>
tenantHistory == <<sent, promised, forgotten, disputed>>
tenantVars == <<replyMode, token, contact, reply, worker, calls, turns,
                sent, promised, forgotten, disputed>>

Replies == 1..MaxReplies
Reply == [status : {"none", "open", "pending", "sent", "failed", "rejected", "undone"},
          to : Contacts \cup {NoContact}, kind : {"reply", "handoff", "human"}]
NoReply == [status |-> "none", to |-> NoContact, kind |-> "reply"]

\* job: message, approve, reject, staff (a reply of the staff), release.
Worker == [job : {"none", "message", "approve", "reject", "staff", "release"},
           pc : {"idle", "answer", "send", "commit"},
           to : Contacts \cup {NoContact}, text : {"stop", "human", "ask"},
           auto : BOOLEAN, token : BOOLEAN, \* the project as it was loaded
           handoff : BOOLEAN,               \* it hands the chat over, or found it handed over
           reply : 0..MaxReplies, verdict : {"none", "pending", "sent", "failed", "rejected"}]
FreeWorker == [job |-> "none", pc |-> "idle", to |-> NoContact, text |-> "ask", auto |-> FALSE,
               token |-> FALSE, handoff |-> FALSE, reply |-> 0, verdict |-> "none"]

TenantTypeOK ==
  /\ replyMode \in {"off", "review", "auto"} /\ token \in BOOLEAN
  /\ contact \in [Contacts -> [optOut : BOOLEAN, handoff : BOOLEAN]]
  /\ reply \in [Replies -> Reply] /\ worker \in [Workers -> Worker]
  /\ calls \in 0..MaxCalls /\ turns \in 0..MaxTurns /\ sent \in [Replies -> Nat]
  /\ promised \subseteq Contacts /\ forgotten \subseteq Contacts /\ disputed \subseteq Replies

TenantInit ==
  /\ replyMode = "review" /\ token = FALSE
  /\ contact = [c \in Contacts |-> [optOut |-> FALSE, handoff |-> FALSE]]
  /\ reply = [d \in Replies |-> NoReply] /\ worker = [w \in Workers |-> FreeWorker]
  /\ calls = 0 /\ turns = 0 /\ sent = [d \in Replies |-> 0]
  /\ promised = {} /\ forgotten = {} /\ disputed = {}

Working(w, r) == worker' = [worker EXCEPT ![w] = r]
Step(w, pc) == worker[w].pc = pc
Called(w) == Step(w, "idle") /\ calls < MaxCalls /\ calls' = calls + 1

-----------------------------------------------------------------------------
(* handle_inbound.                                                         *)

Silent(c) == contact[c].optOut \/ contact[c].handoff

\* The project, its mode and the contact are read; the chat of a contact who opted out or
\* whom a human answers is left alone.  A "stop" is only recorded.
Hear(w, c, text) ==
  /\ Called(w) /\ replyMode # "off"
  /\ text = "stop" \/ ~Silent(c)
  /\ Working(w, [FreeWorker EXCEPT !.job = "message", !.pc = IF text = "stop" THEN "commit" ELSE "answer",
                   !.to = c, !.text = text, !.auto = replyMode = "auto", !.token = token])
  /\ UNCHANGED <<tenantRows, turns, tenantHistory>>

FirstFree(d) == reply[d].status = "none" /\ \A e \in 1..(d - 1) : reply[e].status # "none"

\* The draft, after store tools, retrieval and model: an answer, or a handoff when the
\* contact asks for a human or nothing answers.
Answer(w) ==
  /\ Step(w, "answer")
  /\ \E d \in Replies, handoff \in BOOLEAN :
       /\ FirstFree(d) /\ (worker[w].text = "human" => handoff)
       /\ reply' = [reply EXCEPT ![d] = [status |-> "open", to |-> worker[w].to,
                                         kind |-> IF handoff THEN "handoff" ELSE "reply"]]
       /\ Working(w, [worker[w] EXCEPT !.reply = d, !.verdict = "pending", !.handoff = handoff,
                        !.pc = IF worker[w].auto /\ worker[w].token THEN "send" ELSE "commit"])
  /\ UNCHANGED <<replyMode, token, contact, calls, turns, tenantHistory>>

-----------------------------------------------------------------------------
(* send_draft: with no token, or with words of a sales pitch, a draft      *)
(* stays as it is.                                                         *)

Posted(w) ==
  LET d == worker[w].reply
  IN /\ sent' = [sent EXCEPT ![d] = @ + 1]
     /\ promised' = promised \cup {c \in {reply[d].to} : worker[w].job = "message" /\ worker[w].handoff}

\* Meta takes the message, whether or not its answer arrives.
Send(w) ==
  /\ Step(w, "send") /\ Posted(w)
  /\ \E verdict \in {"sent", "failed"} : Working(w, [worker[w] EXCEPT !.pc = "commit", !.verdict = verdict])
  /\ UNCHANGED <<tenantRows, calls, turns, forgotten, disputed>>

SendFails(w) ==
  /\ Step(w, "send")
  /\ \E verdict \in {"failed", worker[w].verdict} :
       Working(w, [worker[w] EXCEPT !.pc = "commit", !.verdict = verdict])
  /\ UNCHANGED <<tenantRows, calls, turns, tenantHistory>>

Unmarked(w) ==  \* mutant: handoff_at is not written
  IF worker[w].job = "release" THEN [contact EXCEPT ![worker[w].to].handoff = FALSE] ELSE contact

\* The columns of the contact that the worker changed.
Kept(w) ==
  CASE worker[w].job = "message" ->
         [contact EXCEPT ![worker[w].to] = [optOut |-> @.optOut \/ worker[w].text = "stop",
                                            handoff |-> @.handoff \/ worker[w].handoff]]
    [] worker[w].job = "release" ->
         [contact EXCEPT ![worker[w].to].handoff = @ /\ ~worker[w].handoff]
    [] OTHER -> contact

FinishWork(w) ==
  /\ Step(w, "commit")
  /\ LET d == worker[w].reply
     IN reply' = IF worker[w].verdict = "none" THEN reply
                 ELSE [reply EXCEPT ![d].status = worker[w].verdict]
  /\ contact' = Kept(w)
  /\ promised' = promised \ {c \in {worker[w].to} : worker[w].job = "release" /\ worker[w].handoff}
  /\ Working(w, FreeWorker)
  /\ UNCHANGED <<replyMode, token, calls, turns, sent, forgotten, disputed>>

-----------------------------------------------------------------------------
(* The portal: _decide, portal_manual_reply, portal_release.               *)

AnyReply(d) == reply[d].status \in {"pending", "sent", "failed"}  \* mutant: decided ones too
Undecided(d) == reply[d].status = "pending"

Dispute(d) == disputed' = disputed \cup {e \in {d} : \E v \in Workers : worker[v].reply = e}

Approval(w, d) ==
  /\ Called(w) /\ Undecided(d) /\ Dispute(d)
  /\ Working(w, [FreeWorker EXCEPT !.job = "approve", !.to = reply[d].to, !.reply = d,
                   !.pc = IF token THEN "send" ELSE "commit"])
  /\ UNCHANGED <<tenantRows, turns, sent, promised, forgotten>>

Rejection(w, d) ==
  /\ Called(w) /\ Undecided(d) /\ Dispute(d)
  /\ Working(w, [FreeWorker EXCEPT !.job = "reject", !.reply = d, !.verdict = "rejected", !.pc = "commit"])
  /\ UNCHANGED <<tenantRows, turns, sent, promised, forgotten>>

\* The staff answers a contact: a draft that is sent at once, or waits for a token.
StaffReply(w, c) ==
  /\ Called(w)
  /\ \E d \in Replies :
       /\ FirstFree(d)
       /\ reply' = [reply EXCEPT ![d] = [status |-> "open", to |-> c, kind |-> "human"]]
       /\ Working(w, [FreeWorker EXCEPT !.job = "staff", !.to = c, !.reply = d, !.verdict = "pending",
                        !.pc = IF token THEN "send" ELSE "commit"])
  /\ UNCHANGED <<replyMode, token, contact, turns, tenantHistory>>

\* Writes handoff_at only where it found one.
Release(w, c) ==
  /\ Called(w)
  /\ Working(w, [FreeWorker EXCEPT !.job = "release", !.to = c, !.handoff = contact[c].handoff, !.pc = "commit"])
  /\ UNCHANGED <<tenantRows, turns, tenantHistory>>

-----------------------------------------------------------------------------
(* portal_set_settings, owner_set_mode and owner_set_token.                *)

SetReplyMode(m) ==
  /\ turns < MaxTurns /\ turns' = turns + 1 /\ m # replyMode /\ replyMode' = m
  /\ UNCHANGED <<token, contact, reply, worker, calls, tenantHistory>>

SetToken ==
  /\ turns < MaxTurns /\ turns' = turns + 1 /\ token' = ~token
  /\ UNCHANGED <<replyMode, contact, reply, worker, calls, tenantHistory>>

Promising(w, c) == worker[w].job = "message" /\ worker[w].to = c /\ worker[w].handoff

\* Open transactions are rolled back; what was posted stays posted.
TenantRestart ==
  /\ \E w \in Workers : ~Step(w, "idle")
  /\ worker' = [w \in Workers |-> FreeWorker]
  /\ reply' = [d \in Replies |-> IF reply[d].status = "open" THEN [reply[d] EXCEPT !.status = "undone"]
                                 ELSE reply[d]]
  /\ disputed' = disputed \cup {d \in Replies : \E w \in Workers :
                                  worker[w].reply = d /\ worker[w].verdict \in {"sent", "failed"}}
  /\ forgotten' = forgotten \cup {c \in Contacts : \E w \in Workers : Promising(w, c)}
  /\ UNCHANGED <<replyMode, token, contact, calls, turns, sent, promised>>

TenantNext ==
  \/ \E w \in Workers :
       \/ \E c \in Contacts : \/ \E text \in {"stop", "human", "ask"} : Hear(w, c, text)
                              \/ StaffReply(w, c) \/ Release(w, c)
       \/ \E d \in Replies : Approval(w, d) \/ Rejection(w, d)
       \/ Answer(w) \/ Send(w) \/ SendFails(w) \/ FinishWork(w)
  \/ \E m \in {"off", "review", "auto"} : SetReplyMode(m)
  \/ SetToken \/ TenantRestart

TenantSpec == TenantInit /\ [][TenantNext]_tenantVars

-----------------------------------------------------------------------------
\* Whom the agent told that a human takes over is marked as handed over, or will be with the
\* commit of that worker, until the staff releases the chat, so that the agent stays silent
\* (c.handoff_at, tenant_reply.py:266); a restart in between forgets it.
HandoffKept ==
  \A c \in promised \ forgotten : contact[c].handoff \/ \E w \in Workers : Promising(w, c)

\* A reply nobody else was deciding goes out at most once, once when it says sent and never
\* when it was rejected ("draft already ...", portal_routes.py:258).
RepliedOnce ==
  \A d \in Replies \ disputed :
    /\ sent[d] <= 1
    /\ reply[d].status = "sent" => sent[d] = 1
    /\ reply[d].status = "rejected" => sent[d] = 0

\* The chat as a contact of a subscriber sees it: a promise of a human is kept by silence, and
\* no reply arrives twice or after its rejection (tenant_reply.py:264, portal_routes.py:257).
TenantChatSafe == HandoffKept /\ RepliedOnce
=============================================================================
