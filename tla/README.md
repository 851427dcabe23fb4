# Verification of the agent platform

TLA+ models, TLC runs and TLAPS proofs for the FastAPI service in `src/src`: an
agency platform that runs agent tasks and workflows, takes orders and payments,
sells subscriptions to client projects, connects to the clients' stores (Salla,
Zid) and messages their customers. Paths below are relative to the repository's
root; `automation/...` stands for `src/automation/...`.

The service is one process: one uvicorn worker, one asyncio event loop, one
PostgreSQL database at READ COMMITTED behind SQLAlchemy's async ORM. Three facts
about that platform shape every model:

* **Cooperative scheduling.** Code between two `await`s runs without
  interruption, so it is one action. Every `await` (a database round trip, a call
  of a gateway, a queue operation that blocks) is a place where everything else
  may happen.
* **Stale sessions.** Sessions are made with `expire_on_commit=False`. A handler
  reads a row once and keeps working on its copy; it does not see later commits.
* **Dirty columns.** A commit writes only the attributes that differ from what
  was *loaded*. A handler that loaded `status = paid` and sets it to `paid` writes
  nothing, even if the row says something else by then. `Settlement!Written` and
  `StoreConnection!Dirty` are this rule.

## 1. Inventory

### Components that are modelled

| Component | State | Operations | Talks to |
|---|---|---|---|
| Background queue, `automation/queue_worker.py` | heap, `_running_tasks`, `_completed_tasks`, `_accepting`, the queue's join counter, status and retry count of each task | `enqueue`, `cancel_task`, worker loop, `_execute_task` and its exception paths, `_backoff`, `start`, `stop`, `_abandon_remaining` | agents (awaited with a timeout), callbacks, the lifespan of `main.py` |
| Workflow engine, `automation/workflow_engine.py`, `core/state_manager.py` | status of the workflow and of each step, the running asyncio tasks | `execute`, `_execute_workflow`, `_execute_step`, `cancel_workflow`; `can_execute_step`, `get_next_executable_steps` | agents, the caller's task |
| Orders and settlement, `services/payments.py`, payment routes of `main.py` | `payments`, `client_projects`, `company_decisions` rows; the order at PayPal | checkout, PayPal order, poll, capture, webhook, confirmation, paid outcome, activation | PayPal, the owner, renewals |
| Renewals, `services/renewals.py` | renewal order and period end on the project row | the daily pass: list, expire, raise, note | settlement (shares the rows) |
| Store integration, `integrations/` | `store_connections`, `store_oauth_nonces`, `store_webhook_events`, a lock per connection | install, OAuth callback, question with refresh and retry, webhooks, disconnect | the store platform, the portal, reply drafts |
| Inbound webhooks, `whatsapp_webhook.py`, `telegram_webhook.py`, `botpress_routes.py` | `inbound_messages`, leads | record, deduplicate, answer, tell the owner | Meta, Telegram, Botpress, drafts, leads |
| Reply drafts and lead pipeline, `smart_reply.py`, `tenant_reply.py`, `lead_pipeline.py` | drafts, reply mode, stage and follow-ups of a lead, contacts of a subscriber | hear, draft, approve, reject, send, stage, payment link, hourly follow-ups; handoff to a human and its release | webhooks, WhatsApp, payments, the owner, the subscriber's staff |
| Outbound messages, `whatsapp_sender.py`, `telegram_sender.py`, `wa_templates.py` | `outbound_messages` | enqueue, flush, send, receipts; gates for opt-out, cooldown and daily cap | Meta, Telegram, leads |
| Leads and campaigns, `lead_importer.py`, `lead_campaigns.py`, `sales_routes.py`, `intent_classify.py` | `acquisition_leads`, `lead_events`, `campaigns`, `campaign_leads` | import of a workbook, merge of its rows, batches, the owner's and the customers' changes of a status | the owner, webhooks, senders, payments |
| Invoices, credit notes and collections, `zatca.py`, `collections.py` | number series, tax invoices, reminders and overage payments | draw a number, issue, credit, mail the invoice, daily collection pass | payments, usage, mail |
| Usage metering, `services/usage.py` | counters and events of a usage window | record a conversation, a call, a fee | webhooks, collections |
| Schedules, `automation/scheduler.py` | rows of `schedules`, APScheduler's job store | add, enable, disable, remove, registration after a boot | the daily and the hourly passes |
| Model providers and agent runtime, `core/model_provider.py`, `services/agent_runtime.py` | a circuit breaker per provider; a task's draft, review and correction | call with retries, fallback chain, quality gate | providers, the queue and the workflow engine |
| Founding seats, `services/founding.py` | founding flag and revocation of a project, price of an order | price, take a seat, revoke | settlement |

What makes each of them hard, and what has to hold:

* **Queue.** Workers, clients and `stop()` interleave at every await; a task has
  several ways out (result, timeout, failure with or without retry, cancellation in
  the heap, in the backoff or while running, shutdown) and `task_done()` must be
  called once on each. Correct: accounting is exact, nothing runs twice at once, no
  accepted task is lost, shutdown ends and leaves nothing behind.
* **Workflow engine.** Any dependency graph, including cyclic and dangling ones, steps
  that fail or are skipped, and two sources of cancellation at once. Correct: the verdict
  is the graph's, the order and the limit are kept, cancelled means stopped, every run ends.
* **Settlement and renewals.** Five handlers and a daily pass work on the same
  rows with stale sessions; PayPal repeats, delays and loses; a restart may come
  between the two or three commits of one outcome. Correct: paid means money,
  access is paid for, no period is bought twice or lost, what is decided stays.
* **Store integration.** Refresh tokens are single use; a refresh awaits the
  platform between reading and writing the row while an uninstall, an install or
  another question works on it. Correct: a token is presented once, an uninstalled
  store keeps no tokens, a nonce works once, one store belongs to one tenant.
* **Conversations.** A message is delivered again, two people decide on one draft, a
  draft is posted before it is committed, the customer opts out or pays while it waits.
  Correct: one answer per message, one post per approval, nothing after an opt-out,
  bounded follow-ups, a promise of a human is kept.
* **Outbound.** Gates are read before a post and written after it; a flush commits after
  its last message. Correct: nobody who opted out is written to, each message goes out
  once, the limits hold up to the senders at work.
* **Leads.** Imports and batches select first and write later, without unique keys, while
  customers and the owner change the same rows. Correct: one lead per company, one batch
  per lead, opt-outs survive imports, the log explains the status; and the merge of a
  workbook's rows joins exactly what belongs together.
* **Invoices, usage, collections.** Series without a row to lock, claims before mails,
  counters read and written back. Correct: gapless numbers, credits within the invoice,
  one letter, one reminder per step, one bill per window and for what was used.
* **Schedules.** Two stores that are written one after the other and outlive the process.
  Correct: jobs and active rows agree once a boot's registration is over.
* **Model gateway.** Tasks share breakers and every failure has a fallback. Correct: a
  strict deliverable was reviewed, a provider that is down is left alone.
* **Founding seats.** Counted before they are taken. Correct: the number of seats, and a
  revocation that stays.

### Components that are not modelled

| Component | Why |
|---|---|
| Portal login (`core/portal_auth.py`, `core/owner_auth.py`) | codes and sessions of one request each, no protocol between them |
| Startup and shutdown (`main.py`) | a fixed sequence; the queue's own start and stop are in `QueueWorker`, the registration of schedules in `Schedules` |
| Triggers (`automation/trigger_engine.py`) | they match an event and start one task; two of their targets import modules that do not exist (`src.services.agent_service`, `workflow_service`) |
| Tenant architecture layer | context variables, scores and validation within one request |
| Company brain, governance, revenue analysis | read the database, score and report; single-row upserts by one scheduled task |
| Monitoring and limits | a throttle, an atomic counter, a sliding window under a thread lock |
| Content, documents and search | text and file generation, embeddings, mail and publishing: pure functions and input/output |
| Interfaces, settings, models, database | thin handlers over the services; the tables a model needs are mapped by that model |

`PROJECT.json` lists every component with its files, and the hazards with their lines and
the properties that cover them.

## 2. Modules

| Module | Models | Kind |
|---|---|---|
| `QueueWorker` | the queue and its workers | detailed |
| `TaskLedger` | what a client of the queue may rely on: every task goes new, waiting, active, closed; limits on waiting and active ones | abstract; `QueueWorker!ImplementsLedger` maps to it |
| `Settlement` | orders, PayPal, activation and renewals of one project: composes `payments.py`, the routes of `main.py` and `renewals.py` over shared rows | detailed |
| `SettlementEvents` | `Settlement` with the deliveries PayPal owes: the event of a completed capture comes until it is answered 2xx, and never again | extension, for the liveness of captures |
| `Entitlement` | the subscription that is sold: a paid order extends the period once, a lapse waits for the grace window | abstract; `Settlement!ImplementsEntitlement` maps to it |
| `WorkflowEngine` | one run of a workflow over any graph | detailed |
| `StoreConnection` | connections, nonces, webhooks and questions of the tenants, with the platform | detailed |
| `SalesChat` | the company's own WhatsApp conversations: composes webhook, drafts, decisions, pipeline and follow-ups | detailed |
| `TenantChat` | the agent on a subscriber's number, its staff and settings | detailed |
| `Outbound` | the table of messages, both senders and their gates | detailed |
| `Intake` | sales reported by the social media agent | detailed |
| `Leads` | the CRM: imports, batches, every change of a status | detailed |
| `LeadMerge` | the union-find that makes leads of a workbook's rows | algorithm, one step per turn of a loop, with its reference definition |
| `Books` | invoices, credit notes and the invoice e-mail | detailed |
| `Collections` | usage counters, reminders and overage bills | detailed |
| `Schedules` | rows and jobs over boots | detailed |
| `ModelGateway` | retries, breakers, fallback chain, quality gate | detailed |
| `Founding` | the offer with a limited number of seats | detailed |
| `QueueWorkerProofs`, `SettlementProofs`, `WorkflowEngineProofs`, `StoreConnectionProofs` | inductive invariants and theorems of these four | proofs |
| `SalesProofs` | the same for `SalesChat`, `Leads` and `LeadMerge` | proofs |
| `MessageProofs` | for `Intake`, `TenantChat` and `Outbound` | proofs |
| `MoneyProofs` | for `Books`, `Founding` and `Collections` | proofs |
| `RuntimeProofs` | for `ModelGateway` and `Schedules` | proofs |
| `MC...` | constants for TLC; `MCSalesChat` and `MCOffice` put components that share no state into one run | instances |

Operators marked "mutant" next to a definition are plausible bugs of the code behind it
(a dropped guard, a missing reset, a swapped order). They are never part of a
specification. Each property of a passing run is violated when one definition of
the model is replaced by its mutant, under that run's own bounds, which shows that
the run would notice the bug.

Variables named as history record what a property has to tell apart and the code does not
store; no guard of an action reads one.

### QueueWorker

`stamp[t]` is the position of a task's entry in the heap (0: none), `status`,
`retries` the fields of `QueueTask`; `pc[w]` and `job[w]` say where a worker is
suspended: in `get()`, in the agent call, in the callback, or in the backoff.
`unfinished` is the counter behind `join()`. `Take` runs from `get()` to the agent
call; `Succeed`, `TimeOut`, `Fail`, `Unwind` are the ways out of `_execute_task`,
each through the same `Finally` as in the code. `Stop(wait)`, `Drained`,
`DrainTimesOut`, `Abandon` are the stages of `stop()`. `records` counts appends to
`_completed_tasks`; the deque's `maxlen` of 1000 is left out. `Start` needs the queue down;
the code's guard, `not _running`, is already true while `stop()` still gathers its workers. A
start in that gap is left out, because the lifespan of `main.py`, the only caller, starts once
and stops once.

### Settlement

`status`, `project`, `decisions`, `won` are rows; `order` is the order at PayPal.
`req[r]` is one handler in flight: its program counter and the session it loaded
(`st`, `proj`) with PayPal's last answer (`seen`). Webhook and capture re-read the payment after
the gateway's answer, poll and confirmation keep the copy they began with, as in the code.
`BeginPoll`, `BeginWebhook`, `BeginConfirm`, `BeginPayPal`, `BeginRenewals` are the
entry points with their early returns; `CreateOrder`, `Fetch`, `Apply` are the PayPal
calls and what is written after them; `ReadMarker`, `ReadProject`, `Extend`, `Decide`
are `_apply_paid_outcome` and `activate_subscription`, with their separate commits;
`Expire`, `SkipRenewal`, `RaiseRenewal`, `NoteRenewal` are the daily pass. A period
end of 0 stands for NULL. A tick of the clock is a day. Repeating a
`PayPal-Request-Id` returns the order it created before, which is why `CreateOrder`
never makes a second one. Transfer notices and receipts are not there: they change
no status.

`SettlementEvents` adds what `Settlement` leaves to chance. `due` are the orders whose
completed capture PayPal has not been told was heard; `Deliver` is such an event reaching an
undecided order, `AnswerDecided` the 2xx for one that is settled or flagged, and `HandleEvent`
a step of a handler, which answers 2xx when it ends without a gateway error. `undone` is history: orders
whose settled or flagged status a handler overwrote without having seen it, or whose outcome a restart cut
off after `paid` was committed.

Left out: prices and promotions, staffing, matching old orders by phone, the in-process replay cache of `POST /api/payments`,
the owner's one-off backfill, the reminder draft.

### WorkflowEngine

`Execute` is `execute()` up to its first await; `Look` is one turn of the loop in
`_execute_workflow`; `BeginStep`, `SkipStep`, `EndStep` are `_execute_step`. `child[s]`
is the step's coroutine in the current `gather`; the semaphore admits in the order
of the definition. `CancelWorkflow` and `CancelCaller` cancel the run's task or the
task that awaits `execute()`; `UnwindStep` and `UnwindRun` deliver the cancellation.
Conditions are free choices, since they are expressions over data. What the model makes visible and the code does:

* dependents of a SKIPPED step never run, so the workflow fails as blocked;
* steps in flight when a workflow is cancelled keep the status `running`;
* the loop's test for `CANCELLED` never fires, because cancellation reaches the
  run as an exception first; `retry_count`, `persist` and `cleanup` are unused.

### StoreConnection

`row[p]` is the tenant's row; access and refresh token are one token, because they
are written and cleared together. `live` and `spent` are the platform's knowledge of
tokens. `lookup[l]`, `callback[c]`, `handler[h]` are the requests in flight:
`StartLookup` to `CallEnds`/`CallUnauthorized` is `answer_store_question` with
`ensure_fresh` and `force_refresh` (`Acquire` takes the connection's lock and re-reads
the row); `IssueNonce` to `SaveInstall` is the install; `ClaimEvent`, `LoadRows`,
`CommitRows` are a webhook or a disconnect. Signatures, time windows, rate limits and
the nonce's expiry only drop requests; a dropped request is one that never comes. Zid takes the same paths
without the authorize event. `burnt`, `raced` and `twins` are history: tokens whose replacement
was lost before it was stored; rows cleared, or stores linked, under a request that
still had to write; and tokens that one authorize event put into several rows. The last
happens because the event is applied to every active row with its merchant's id
(`salla/webhooks.py:86-91`): two tenants linked to one store by overlapping installs then have
one refresh token, and each presents it under its own lock. `save_policy` and the text of the answers are left out.

### SalesChat

`handler[h]` is a request, or the hourly pass, with its session: `was` and `now` are the
pipeline rows as loaded and as changed (`pay` is `payment_id`, `link` says that `payment_url`
is set), `wrote` the drafts it decided. `Deliver` and
`Record` are a webhook delivery up to its first commit (`_already_seen`, then the second
lookup of `process_inbound_payload`); `Load`, `Queue`, `Post` and `Commit` are
`handle_inbound`, `queue_or_send` and `_send_draft`; `Approve`, `Reject`, `MoveStage`,
`RequestLink` are the owner's routes (a request for another plan forgets the link and keeps the
payment, which still marks the lead paid); `StartPass` and `Chase` are `run_followups`. `Post`
passes the opt-out gate on the lead the session holds, `PostFails` is also the way of the
templates. `draft` rows move from open (written, not committed) to pending, sent, failed or
rejected. A restart undoes what is open; the follow-ups a pass had posted by then (`Severed`)
count in `chased`, though the database knows nothing of them. Wording, intent and draft scores are choices.
`Committing` is what every commit does to rows and drafts; `CreateInvoice` is one too, since
`create_payment` commits the session in the middle of a request. `posted`, `deaf`, `contested`,
`twice`, `overlapped` and `chased` are history.

### TenantChat

`worker[w]` is one message of a contact or one request of the staff, with the project's
mode and token as loaded. `Hear` is `touch_contact` and the early returns of
`handle_inbound` (off, opted out, handed over); `Answer` chooses between a reply and a
handoff, `Send`/`SendFails` post, `FinishWork` commits everything of the worker at once.
`Approval`, `Rejection`, `StaffReply`, `Release`, `SetReplyMode`, `SetToken` are the portal.

### Outbound and Intake

`outbox` are the rows, `sender[s]` a request that flushes the Telegram queue
(`ListQueue`, `CheckGate`, `PostOut`, `CommitFlush`) or sends on WhatsApp at once
(`SendNow`, `CompanySend`). `SendTemplate` is `send_business_initiated` outside the 24 hours:
posted at once, no gate asked, its row in the same table (channel `template` for
`message_type` template), so that it counts for the gates of texts. `today` and `recent` are what the cap and the cooldown count;
`Midnight` and `CooldownOver` end them. `AcknowledgeStatus` is Meta's receipt.
`whatsapp_sender.flush_queue` is called by nobody and left out, as are the rows of `_fallback`,
which wait for a human.

In `Intake` a handler goes `DeliverSale` (not seen), `RecordSale` (commit, or a collision
on the event id), `FindLead`, `WriteLead`, `Tell`. `FindLead` ends the request when two
leads fit, as `scalar_one_or_none` does, after the sale is recorded. `Nameless` are the reports
without the optional event id: each delivery draws a fresh uuid, so `Fresh` is always true of
them and `recorded`, `told` and `lost` are counts.

### Leads and LeadMerge

`lead[k]` are the rows of a company's key: `dedup_key` is not unique, so there may be
several. `told` is the `status_after` of the row's last event. A desk is a request:
`HearLead`, `SetLead`, `BarLead`, `PlanFollowup`, `ReachOut` and `WinLead` load a lead and
`CommitLead` writes the columns they changed together with the event; `Import` and
`CommitImport` are `persist_leads`, which may go on to `build_campaign`; `Numbering`,
`SelectLeads` and `CommitCampaign` are its three awaits.

In `LeadMerge` `group[i]` is `find(i)`, `first` the three dictionaries of `merge_records`;
`MatchExact` and `MatchName` are one turn of its two loops. The reference definition is
`Linked`, what identifies two records: a number, an address, or the name of the first
record of that name when one of the two has no number. `MergeSafe` says that the groups
are the connected components of `Linked`.

### Books and Collections

A clerk draws a number under the lock of its series' row (`SelectSeries`, or `InsertSeries`
for the first one, where two clerks collide), and number and document are committed
together (`Issue`). `ReadNotes` sums the credit notes before the number is drawn.
`ClaimLetter`, `SendLetter`, `ReleaseLetter` are `_send_invoice_once`.

`Collections` has recorders, which look for the event (`BeginRecord`), read the counter
(`ReadUsage`) and write it (`Count`), and passes, which remind and mark (`Remind`, `Mark`),
list the closed windows (`ListOverage`) and bill them one by one (`BillOverage`, `Charge`).

### Schedules, ModelGateway, Founding

`Schedules`: `plan` are the rows, `jobs` the job store, `caller[c]` the second half of a
call still to do, `boot` the registration in the background with the rows it listed. Every
write may fail: the job store (`AddJob`, `DropSchedule`, `LoadJob`), the refresh after a
committed row (`AddJob`), the row behind a dropped job (`WriteRow`), the whole load
(`LoadFails`) and the ensure functions (`EnsureFails`, `EnsureJob`). `refused` remembers the
schedules hit, until a boot lists them again.

`ModelGateway`: a task asks (`Ask`, through the breaker), the call answers or fails, and
`NextLink` tries again, goes down the chain or gives up; `purpose` says whether the draft,
its review, the correction or the review of that is asked for. `failures` are the breakers.

`Founding`: `OpenOrder`, `PriceOrder`, `SaveOrder` are the pricing of an order,
`Activate`, `CountSeats`, `CommitActivation` the seat of an activation.

## 3. Runs

| Run | Properties | Bounds | What it shows |
|---|---|---|---|
| `QueueWorker_run` | `TypeOK` `JoinBalance` `FoundInOnePlace` `CancelledNeverRuns` `ImplementsLedger` `EveryTaskSettles` `StopReturns` | 3 tasks of 2 priorities, 2 workers, heap of 2, one retry, one callback, `stop()` with drain, fair | accounting, nothing lost or recorded twice, tombstones, the refinement of `TaskLedger`; `stop()` returns even when agents hang; if agent calls end, every queued task settles |
| `QueueWorker_nowait` | `NothingLeftBehind` | 2 tasks, `stop(wait=False)` | **violated**: a task in its backoff is left QUEUED and found nowhere |
| `Settlement_safety` | `PaidMeansMoney` `AccessIsPaidFor` `WonOnlyAfterActivation` | a first order and a renewal that is for another configuration with a wrong capture; 2 handlers at once, 1 restart, 4 days | paid means money, access is paid for, won only after activation, under stale writes |
| `Settlement_serial` | `NeverChargedTwice` `OneRenewalPerPeriod` `SettledIsNotRedecided` `ImplementsEntitlement` | 2 client orders, 2 renewals, 6 days, one handler at a time, 1 failing gateway call | refinement of `Entitlement`, decided stays decided, one renewal per period, never charged twice |
| `Settlement_live` | `CapturedIsHonoured` | 1 order, 2 handlers at once (poll, capture, webhook, asking for an order, confirmation), 2 failing gateway calls, 1 restart, 2 days, fair | every captured order ends in access or in review, unless its status was overwritten by a handler that had not seen it or a restart cut off the outcome of `paid` |
| `Settlement_twice` | `ExtendsOnce` | restart between the two commits of an outcome | **violated**: the same order extends the period twice |
| `Settlement_paidlost` | `PaidRenewalExtends` | restart after the confirmation's first commit, fair | **violated**: a paid renewal never extends the period |
| `WorkflowEngine_run` | `VerdictIsDeserved` `AnswerIsFinal` `StepsRunOnceInOrder` `CancelStopsIt` `RunEnds` | all 4096 graphs on 3 steps (with cycles, self-loops and an unknown id), 2 at a time, fair | verdict, order, limit, cancellation, termination |
| `StoreConnection_run` | `RefreshedOnce` `OneExchangePerNonce` `Cleared` `LinkedOnce` `NoSpentTokenBack` | one tenant with one nonce, 2 questions, 2 callbacks, 2 webhook or disconnect requests; or two tenants, 1 store, 2 nonces, one busy actor; 1 event, 3 tokens and 1 restart, or 4 tokens and no restart for two tenants (`SmallSpec`) | a refresh token is presented once and never put back, a nonce works once, uninstall clears, one store is linked once |
| `StoreConnection_cleared` | `AlwaysCleared` | 1 tenant, no restart | **violated**: tokens reappear in an uninstalled row |
| `SalesChat_run` | `OptOutHonoured` `DecidedOnce` `AnsweredOnce` `FollowupsBounded` `LeadsSafe` `MergeSafe` `PaidStaysPaid` | 1 lead with 2 messages (a question, then stop), each delivered up to twice, 2 handlers, 4 requests, 2 drafts, 1 invoice, 1 follow-up, 1 restart; or 1 company, 2 desks, 4 requests; or every workbook of up to 3 rows over 2 numbers, 1 address, 2 names | the conversations, the CRM and the merge of an import |
| `Office_run` | `BooksSafe` `Collected` `TenantChatSafe` `GatewaySafe` `JobsMatchSchedules` `OutboundSafe` `IntakeSafe` `FoundingSafe` | two actors of each kind; 2 payments of 2 and 1 units and 3 errands; 2 windows, 2 records, 2 passes; 1 contact, 2 replies, 4 requests, 2 changes of settings; 2 tasks, 2 providers, threshold 2, 2 attempts; 2 schedules, 1 restart; 3 messages, 1 of them a template, a cap of 1, 1 receipt; 3 reports of one customer, 1 without an event id and delivered up to 3 times; 2 projects, 3 orders, 1 seat | eight components one at a time: numbering and letters, reminders and bills, a subscriber's chat, breakers and the quality gate, jobs and rows, sends, reported sales, seats |

In `SalesChat_run` and `Office_run` the components share no state. One component, chosen at
the start, moves in each behaviour; the states are those of the components one after the
other and nothing about a component is lost. Values such as `x1` and `x2` stand for the two
clerks, the two senders and so on, so that one symmetry set fits all of them.

Why the bounds suffice. The interesting queue cases need a full heap with a task in
backoff (heap 2, third task), an overtaking priority and two workers. A lost or
doubled period needs two orders and two handlers that overlap on the project row,
and one restart; a month of two days, with a grace and a lead of one, puts
renewal due, period over and grace over on different days within the clock's bound. Three
steps make every shape of dependency the loop distinguishes: chain, fork, join, cycle,
dangling. A token race needs two questions, an old token, its replacement and one issued by
an install or authorize event; two tenants with the token of one event need a fourth. Two decisions on a draft, two deliveries of a message and a
payment under a stale handler need two handlers and one lead each, a third request makes the
row they meet on, the fourth repeats it. Two invoices collide on a new series; a credit in
parts needs an invoice of two units. Two passes and two recorders reach every overlap a third
could add to, since the excuses (`crowded`, `raced`, `twins`, `doubled`) need only two. A breaker that
is passed before it opens needs two tasks, a threshold of two and two attempts. A row that
joins two others by different fields needs three rows, two numbers and an address. Three
reports are a customer who comes back with another number, in a report without an event id, and is then reported by number
alone. A schedule meets a failing load or row in one boot and needs one restart to be loaded
after it. One template is enough to fill a cap of one. For every safety and action property of the passing runs the proofs below say the
same without bounds, under the premises that section 5 names; only liveness rests on the
bounds alone.

Symmetry is used only on actors that run the same code and only in runs without
liveness. `CHECK_DEADLOCK FALSE` stands where the bounded clock, restarts, tokens, requests
or the end of a workflow make the system stop; `QueueWorker` is checked for deadlock.

**Fairness.** `QueueWorker!LoopFairness` says only that the event loop resumes what is
ready and that sleeps and the bounded drain end; `AgentFairness`, a premise of
`EveryTaskSettles` alone, adds that agent calls end, which the task's
`timeout_seconds` guarantees (`queue_worker.py:293`), and that callbacks return. `WorkflowEngine`
assumes weak fairness of its loop: each agent call is bounded by the step's `timeout_seconds`
(`services/agent_runtime.py:158`). `Settlement!HandlerFairness` is the event loop again;
`SettlementEvents!EventsSpec` adds no more than PayPal owes: an event not yet answered with 2xx
is delivered again (strong fairness of `Deliver` or `AnswerDecided`, since a delivery can only start
when a handler is free); nobody need poll, confirm or decide a held capture, and after the
answer no event need come. `Settlement!PayPalFairness`, which `Settlement_paidlost` uses, is
stronger, with webhooks for ever and the end of held captures: its counterexample is not for
want of an event. The other components have no liveness property: what is lost by a restart or a failing
call there is not taken up again by the code.

## 4. Where code and documents disagree

Runs marked violated, with the quoted lines, are `findings` in `PROJECT.json`:

1. `stop(wait=False)` leaves a task in backoff QUEUED, although `_abandon_remaining`
   should "Fail whatever the cancelled workers left behind". No caller in the repository passes
   `wait=False`.
2. `activate_subscription` compares with `last_payment_id` only; with a restart between
   its commit and the decision's and another order in between, the first order extends
   again.
3. `confirm_payment_received` commits `paid` before anything is granted; after a restart
   there, every later path answers "already paid" or "open", and only a poll helps.
4. A refresh that waits for the platform while an uninstall is processed stores its
   tokens in the uninstalled row.

The models contain more behaviour that contradicts a comment or a test and that no run
reports on its own. The properties leave these cases out by name (a history variable, or one
handler at a time) and show that nothing else breaks the promise.

Settlement and store:

* two handlers at once can lose a month (read-modify-write of the period end, against
  `payments.py:1044-1045`); a poll that was told PENDING, or a slow
  `create_paypal_order`, overwrites `paid` with the earlier status (against `payments.py:578`), and if
  the webhook's event was answered by then nothing but a further poll brings the money to account;
  the same holds of a restart behind the commit of `paid`, after which the event is a no-op
  (`payments.py:915`). `CapturedIsHonoured` names these two (`undone`) and excludes a third; a restart between raising and noting a renewal raises a second
  one (against `renewals.py:8-14`); the daily pass can expire a project from a listing that is
  older than its activation (against `renewals.py:21-23`);
* a refresh that overlaps the install of another store leaves a token of the old store in the
  row; a delayed first delivery of an uninstall wipes an installation made after it
  (`salla/webhooks.py:78`).

Conversations and messages:

* `wa_templates.send_business_initiated` posts templates without asking for opt-out, cooldown or
  daily cap (`wa_templates.py:214-225`), although "opt-outs ... are always blocked" and cap and
  cooldown "prevent spam loops" (`whatsapp_sender.py:13`): with the messages that decisions, weekly
  reports and the owner send this way (`smart_reply.py:212`, `weekly_reports.py:204`,
  `ops_routes.py:232`) every limit can be exceeded without bound. A post whose answer is lost is
  written as failed and not counted. `OutboundSafe` bounds the texts confirmed as sent;
* a pass of follow-ups posts at once and commits at its end (`lead_pipeline.py:206`): a restart in
  between loses drafts and counts, and the next pass posts again, one follow-up per customer and
  restart beyond the two intended; `FollowupsBounded` has the restarts in its bound;
* `_already_seen` and the lookup in `process_inbound_payload` are two reads, so a redelivery
  between them is answered again (against `tests/test_smart_automation.py:215`);
* a WhatsApp opt-out never moves the pipeline to `lost`: `smart_reply.py:307-309` returns
  before (against `tests/test_smart_automation.py:271`, which calls the pipeline directly);
* a handler that loaded a lead before its payment writes its stage over `paid` (against
  `lead_pipeline.py:65`); two link drafts at once create two invoices;
* a subscriber's customer who opts out while the mode is off is not recorded, approvals and
  replies of the staff go past the opt-out, and a handoff draft approved after the release
  promises a human to a chat that is not handed over;
* delivery receipts are applied in any order (`whatsapp_sender.py:386-388`); nobody calls
  `whatsapp_sender.flush_queue`.

Leads:

* an import resets `followup_count` and overwrites contact and source, although it should
  "never clobber sales activity" (`lead_importer.py:479`); website and conversation leads have
  no key, so an import doubles them;
* `merge_records` joins two different valid numbers through a shared address or a namesake
  without a number, although its docstring says "never merging two records that carry different
  valid phones"; `TwoNumbersExplained` is what does hold;
* two imports at once double a company, since `dedup_key` is not unique; two short names without
  number and address share a key within one import; a company known by its address becomes a
  second lead when it is imported with a number;
* two batches built at once take the same leads and the same number; a batch or a stale status
  change is written over DO_NOT_CONTACT; a batch logs no event (against `models/crm.py:120`);
* `promote_lead` ranks WON, LOST, FOLLOW_UP and DO_NOT_CONTACT with NEW, so a question about
  the price makes such a lead INTERESTED.

Money, schedules, models, sales:

* an overage payment's unique key is on its own new id, so overlapping passes bill twice, and a
  restart between a reminder and its mark repeats it (against `models/billing.py:10`); events
  of a closed window that arrive after its bill are never billed; concurrent recorders lose a
  use; three partial credit notes may exceed the invoice's VAT by rounding (`zatca.py:316`);
* founding seats are "never more than 15" (`founding.py:6`) only when activations take turns;
* the evaluation loop may rewrite a strict answer after its final gate;
* enable and disable at once can leave an inactive schedule with a job, and a removal during the
  registration an orphan; `_remove_job_quiet` swallows every failure;
* a load that fails is swallowed (`scheduler.py:113-114`), and the registration ends with active
  schedules that have no job until the next boot, although it should "Register every active schedule"
  (`:94`); so does, without a reboot, a failing select or commit behind a dropped job (`:187-226`) and a
  failing refresh behind a committed row (`:180`);
* `eventId` is optional (`botpress_routes.py:176`) and a report without one is recorded under a new
  uuid at each delivery (`:500`): its redelivery is told again, although "a replay answers
  `duplicate` instead of ... waking the fleet twice" (`:38-39`). With an event id the promise holds;
* a customer whose number changed leaves two leads with one number; the next report by number
  alone raises after the sale is recorded, and its redelivery is answered as a duplicate
  (against `botpress_routes.py:395`, "must not lose the sale").

## 5. Proofs

TLAPS proves the theorems below for every number of tasks, workers, orders, handlers,
steps, clerks, rows and so on, under the named assumption of each module
(`QueueAssumption`, `SettlementAssumption`, ...), which only say that the constants have
their types, that limits are positive where the code needs them to be and, where a
property counts, that the counted sets are finite.

**`QueueWorkerProofs`.** `IInv` is `Shape` (the types, with `unfinished` only an integer),
`Phases` (while down there is no worker; once `stop()` was called the queue is closed),
`Fresh` (a task no client handed in is nowhere), `RunningIsHeld` and `JoinBalance`. That
`unfinished` is never negative is not inductive: it follows from `JoinBalance`, which in
turn needs `RunningIsHeld`, since `task_done()` is balanced only if the task leaving a
worker is held by no other worker and has no entry. Theorems: `TypeCorrect`,
`JoinIsExact`, `SingleExecution`, `ClosedQueueStaysClosed` (`NoRetryWhileStopping`),
`TombstonesAreFinal` (`CancelledNeverRuns`), `RetriesAreBounded` (`RetryBudget`).

`FInv` adds what `FoundInOnePlace` needs: no worker is in a backoff while the workers are
cancelled (`Calm`), which is where the assumption comes in that every `stop()` waits; how a
task is marked while its worker is in the callback or the backoff (`Marked`); and that a
task that may still run is not yet on record (`NoEarlyRecord`). Theorem: `NothingIsLost`; the run
`QueueWorker_nowait` shows that the assumption is needed. `QueueKeepsLedger` is the
refinement, from `IInv` alone: `RoomAndSlots` turns the heap's and the workers' counts into the
ledger's, and every action moves at most one task between two places, except `Abandon`,
which closes what is left.

**`SettlementProofs`.** `IInv` joins `TypeOK`, `PaidMeansMoney`, `AccessIsPaidFor` and
`WonOnlyAfterActivation` with `HandlersOK`, what a handler in flight knows of its order:
if it has seen the capture completed, PayPal has completed it; if it is past the
settlement, the money was received; if it is about to extend, the order is for the
project's configuration; if it is about to resolve, the order has extended the period. A
handler in flight may write rows that others changed long since; the argument works because
`HandlersOK` speaks only of facts that no step takes back (`Lasting`). `LastExtended`
says that the order in `last_payment_id` has extended the period: without it the early
return "already activated" could let an order be won that never was. Theorems:
`TypeCorrect`, `NothingPaidWithoutMoney`, `NoAccessWithoutMoney`, `ActivationComesFirst`.

What two handlers at once can break is proved for one at a time (`MaxInFlight = 1`), for any
orders and any restarts: `SerialInv` adds that the others are idle (`Alone`), that a session says what
the rows still say (`SessionsOK`) and what PayPal knows of an order without a row or
a confirmed one (`Unknown`). Theorems: `OneWayOfPaying` (`NeverChargedTwice`), `DecisionsLast`
(`SettledIsNotRedecided`). Without restarts (`MaxCrashes = 0`) a handler that began
also ends, and `SteadyInv` adds what it is about to finish: an order that extended the period is
decided or about to be (`ExtendedIsDecided`), and an open order raised for the current period
is the one on the project or about to be (`RaisedIsNoted`). Theorems: `RenewedOncePerPeriod`
(`OneRenewalPerPeriod`) and the refinement `SettlementKeepsEntitlement`, whose steps are
`Extend`, `Expire` and a new day; every other one is a stutter. The runs `Settlement_twice` and
`Settlement_paidlost` show what a restart does to the same promises.

**`WorkflowEngineProofs`.** `IInv` joins the type invariant and the three invariants of the
run with `Phases` (which statuses of the workflow go with which stage of the run) and
`Round` (whatever left `pending` has its dependencies completed, a waiting coroutine's
step is still pending, one inside an await has a running step, and in a run that nobody
cancels a running step has its coroutine). `Round` is what makes the verdict right: when
the round is over no step runs, so with nothing executable a pending step has an unmet
dependency. Theorems: `TypeCorrect`, `SemaphoreHolds`, `VerdictCorrect`, `AnswerCorrect`,
`StepsInOrder`, `CancelIsFinal`.

**`StoreConnectionProofs`.** Four invariants on top of the types (`Shape`). `NonceInv`: a callback
past its claim has used its nonce, so no second one gets there. `CalmInv`: whoever is about to write
a row knows its status, unless a request in between set `raced` (`LookupCalm`,
`CallbackCalm`, `HandlerCalm`), and a callback past its check has no active neighbour at its
store (`CallbackAlone`); from it follow `Cleared` and `LinkedOnce`. `TokenInv` follows a token: it is
new until it is stored (`NewTokens`, `NewTokensApart`); only the question that holds the
tenant's lock may present the one in the row (`Locked`), and only that tenant has it unless it is a
twin (`OneTenantEach`); a spent one in a row is about to be replaced, or burnt (`SpentInRow`).
`TwinInv` shows that the excuse is no larger than it looks: twins exist only after two installs
of one store overlapped. Theorems: `StoreTypeCorrect`, `NonceBuysOnce`
(`OneExchangePerNonce`), `WipedMeansCleared` (`Cleared`), `OneTenantPerStore` (`LinkedOnce`),
`RefreshOnce` (`RefreshedOnce`), `SpentStaysOut` (`NoSpentTokenBack`), `TwinsNeedARace`.

**`MoneyProofs`.** For `Books` two invariants, since documents and letters do not touch. `DocumentsInv`
adds `Sound`, what each clerk at work is sure of, to the numbering: a clerk about to issue holds its
series' row and its number is the next one; a clerk about to credit holds a sequence number,
and if that is still the next one, which the unique key sees to, its amount fits.
`LetterInv` says that at most one clerk is at a payment's letter and the payment is
claimed while one is. Theorems: `BooksTypeCorrect`, `BooksCorrect` (`BooksSafe`).

For `Founding`, `FoundingInv` counts what is taken and what is granted
(`SeatsReserved`): together they stay within the seats while nobody hurried, and exceed them by
less than the handlers otherwise; `LateOrders` follows a revocation through the pricing of an
order. Theorems: `FoundingTypeCorrect`, `FoundingCorrect` (`FoundingSafe`).

For `Collections`, `CollectionsShape` adds to the types what recorders and passes have read.
`DemandsInv`: unless two passes ran at once (`crowded`) one pass is at work, a stage that was
demanded is marked or about to be, and a window about to be charged has no bill. `CountersInv`
compares each counter, and each value somebody has read of it, with the events it counts: it
never exceeds them unless a use was counted twice, and it equals them where recorders took turns.
A pass reads a counter once and bills later, so the bill needs the same of what the pass saw.
Theorems: `CollectionsTypeCorrect`, `CollectionsCorrect` (`Collected`).

**`RuntimeProofs`.** For `ModelGateway`, `GatewayInv` joins `Reviewed` (what each stage of a task
knows of the versions its reviewer passed), `Breakers` (a provider's strikes are no more than its
failures) and `CallsLetThrough`: the strikes of a provider and the calls under way to it together
stay below the threshold plus the number of tasks, because a call is let through only while the
failures are below the threshold. Theorems: `GatewayTypeCorrect`, `GatewayCorrect` (`GatewaySafe`).

For `Schedules`, `SchedulesInv` holds for every schedule at which no two calls met (`crossed`) and
that no failure hit since it was loaded last (`refused`): one caller is at it (`OneAt`), a row is there
as long as somebody is (`AtRows`), and jobs follow rows but for the half a caller has still to do
(`Matched`). Without `RowFirst`, that a job is added to a row already active, a reboot between
the two writes of a call would break it. Theorems: `SchedulesTypeCorrect`, `SchedulesCorrect`
(`JobsMatchSchedules`).

**`MessageProofs`.** For `Intake`: `HandlersInv`, `ToldInv` (each record of a report was told of, was
lost or is under way with one handler), `LeadsInv` and `ClonesInv`: a handler that found no lead for an
address is the only one about to create one, and there still is none, unless two looked the
address up at once. Theorems: `IntakeTypeCorrect`, `IntakeCorrect` (`IntakeSafe`).

For `TenantChat`, `TenantShape` joins the types with what a worker holds. With it `HandoffKept`
is inductive: a contact that was promised a human is marked, or a worker is at work whose commit
will mark it.
`DraftsInv`: a reply that nobody disputes is decided by one worker, whose verdict says what was
posted, and a rejected one was not. Theorems: `TenantTypeCorrect`, `TenantChatCorrect`
(`TenantChatSafe`).

For `Outbound` three invariants over `OutboundShape`. `HeedInv`: a text about to be posted is not
for anybody who had opted out when the request began. `PostedInv`: a message that no two
flushes held has one holder, and status, verdict and posts agree (`MessageOK`). `LimitInv`: the
texts counted and those in the air (past the gate, not committed) together stay below limit and
senders; the limit alone is not inductive, since a sender passes the gate on a count
that others are about to raise. It is why `OutboundAssumption` asks that the senders be finite and
that there be one. Theorems: `OutboundTypeCorrect`, `OutboundCorrect` (`OutboundSafe`).

**`SalesProofs`.** For `SalesChat`, an action with its many ways on is first shown to be one of a
dozen moves (`OneMoves`, `EveryMove`: begin, hear, record, queue, judge, chase, commit, ...) that
say what a handler does to drafts, rows and history; every invariant goes through
the moves. `ChatShape` has the types and what a handler holds of drafts and rows, in
particular what it may have made of a row it loaded (`Eases`, `Keeps`, `Counts`: a paid row stays
paid, a pass counts one). From it alone follow `OptOutHonoured` and `PaidStaysPaid`: a commit
writes only changed columns, and none that was loaded paid is changed. `OnceInv`: who decides an
uncontested draft is alone, and its verdict says how often it was posted. `AnswerInv`: for a message
not heard twice at once, either one handler carries it or it has at most one draft. `CountInv`, unless
two passes overlapped: what a customer was sent since the count began is within the
count on the row and the restarts so far, and a pass that wrote a follow-up holds a count that includes it.
The restarts cut at most one pass each, and a pass posts at most one follow-up to a customer (`CutOnce`). Theorems:
`ChatTypeCorrect`, `OptOutCorrect` (`OptOutHonoured`), `PaidCorrect` (`PaidStaysPaid`), `OnceCorrect`
(`DecidedOnce`), `AnswersCorrect` (`AnsweredOnce`), `FollowupsCorrect` (`FollowupsBounded`).

The proof of `CountInv` failed at first at `CreateInvoice`: the model committed the
session there without starting the customer's count again, as `Commit` did. No run noticed: it takes
a follow-up, a link and another follow-up, three drafts, and the run has two. Both actions now
share `Committing`.

For `Leads` four invariants, each outside its own history. `ImportsInv` (`twins`): one import
is at work, and the companies it found missing still are. `BuildsInv` (`twins`): one batch is being
built, its number is above every other and its leads are in no batch. `StayOutInv` (`reopened`): an
opted-out lead is not NEW, and no desk that loaded a lead with another status makes it so. `EventsInv`
(`jostled`): one desk is at the lead, and holds it as it is, with status and event in step.
Theorems: `LeadsTypeCorrect`, `LeadsCorrect` (`LeadsSafe`).

For `LeadMerge`, `MergeInv` says of the loops of `merge_records`: each dictionary holds the
first of the records passed, for each of their values (`FirstsKnown`); a record passed is in
the group of that first record (`WithFirst`); and a set of records that no link enters
or leaves is not joined to the rest (`Apart`), which a union over a link preserves
(`UnionSeparates`). At the end `WithFirst` makes linked records one group and `Apart` makes
groups no larger than links; that two numbers never meet by name alone follows by taking, in
a group without addresses and numberless records, the set of all bearers of one number.
Theorems: `MergeTypeCorrect`, `MergeCorrect` (`MergeSafe`), for workbooks of any length.

**Assumptions.** Beyond types: `NoUse`, `None` and the like are not among the values they
stand beside; bounds are natural numbers; there is a first billing window (`MaxWindow >= 1`); senders,
tasks, workers and handlers are finite where a property counts them. The histories that excuse a
case (`contested`, `twice`, `overlapped`, `crowded`, `twins`, ...) are set by the step at which two
requests meet, and section 4 says what the code does then.

**Only model-checked.** Liveness (`StopReturns`, `EveryTaskSettles`, `CapturedIsHonoured`,
`RunEnds`): it needs fairness and ENABLED, which the provers do not handle. The properties of the
runs marked violated, which are false. Every other property of a run is stated by a theorem.

## 6. Not modelled, and why

Section 1 lists the components. Most of the repository's lines are pages, texts, prompts,
catalogues, one-row routes and reports: `main.py` is largely queries and HTML, the catalog is
constants, scripts and `ceo_advisor.py` compute once and print. They keep no state that two
steps could disagree about, so a model of them would restate assignments. Within the modelled
components the following is left out:

* queue: the `maxlen` of the completed tasks, which only drops old records;
* settlement: prices, promotions, staffing, transfer notices and receipts;
* store: `save_policy`, signatures, time windows and limits, which drop requests;
* conversations: texts, classification, scores; edits of a draft; Telegram's webhook, alike but
  for one message per body; voice sessions and transfers, which are single requests;
* leads: segments, scores, texts, notes, tickets, follow-up counters; leads without a key;
* invoices: lines, VAT, QR code; collections: `run_recovery`, a reminder of one stage;
* gateway: streams, prompts, masking, formats of the providers; agents that call around the gate.

The two passes of `merge_records` are the only algorithm here whose result is not evident from
its text. The normalisation of names and numbers before it is character by character.

## 7. Plan

Done: `QueueWorker` with `TaskLedger`, `Settlement` with `Entitlement`, `WorkflowEngine`,
`StoreConnection`, the messages (`SalesChat`, `TenantChat`, `Outbound`, `Intake`), the money
(`Books`, `Collections`, `Founding`), `Schedules`, `ModelGateway`, the leads (`Leads`,
`LeadMerge`), and the proofs of section 5.

Every safety and action property of the passing runs is proved. Worth adding: an abstract
specification for the messages (a contact is told at most once, and by whom), which `SalesChat`,
`TenantChat` and `Outbound` would each implement, and a bound on what each history excuses, as
`TwinsNeedARace` has for tokens. The definitions of all modules are without recursion and their
constants carry the assumptions a proof needs.

## 8. Running

    tlc -workers 2 -config QueueWorker_run.cfg MCQueueWorker
    tlapm QueueWorkerProofs.tla

Every `.cfg` is named after its run; the module of a run is the `MC` module of the same
component, and `MCSettlementEvents` for `Settlement_live`. `StoreConnection_run`, `SalesChat_run`,
`Settlement_serial` and `Office_run` take one to four minutes each.
