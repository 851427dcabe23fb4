------------------------------ MODULE Settlement ------------------------------
(***************************************************************************)
(* How an order becomes money and money becomes access: the payment        *)
(* handlers of src/main.py, the PayPal settlement and the activation of    *)
(* src/services/payments.py, and the renewal pass of                       *)
(* src/services/renewals.py, for the orders of one client project.         *)
(*                                                                         *)
(* The handlers run on one event loop and one READ COMMITTED database. A   *)
(* handler reads a row into its session once and does not see later        *)
(* commits (expire_on_commit is off), and a commit writes only the         *)
(* attributes that differ from what it read. Each action below is the code *)
(* between two points where other handlers may run: a gateway call or a    *)
(* database round trip.                                                    *)
(***************************************************************************)
EXTENDS Integers, FiniteSets

CONSTANTS
  Payments,    \* the orders of the project
  Renewals,    \* those the renewal pass may create; clients create the others
  Mismatched,  \* orders for another package or add-on count than the project's
  OddCaptures, \* orders whose PayPal capture differs from the amount stored
  Requests,    \* handler executions that may be in flight
  Kinds,       \* the handlers an instance exercises
  MaxInFlight, \* how many of them run at the same time
  MaxCrashes,  \* bound on process restarts
  MaxFailures, \* bound on failed gateway calls
  Month,       \* the period an order buys
  Grace,       \* RENEWAL_GRACE
  Lead,        \* RENEWAL_LEAD_DAYS
  MaxTime,     \* bound on the clock
  None

ASSUME SettlementAssumption ==
  /\ Renewals \subseteq Payments
  /\ Mismatched \subseteq Payments
  /\ OddCaptures \subseteq Payments
  /\ Kinds \subseteq {"poll", "capture", "webhook", "confirm", "paypal", "renewals"}
  /\ MaxInFlight \in Nat \ {0}
  /\ MaxCrashes \in Nat
  /\ MaxFailures \in Nat
  /\ Month \in Nat \ {0}
  /\ Grace \in Nat \ {0}
  /\ Lead \in Nat
  /\ MaxTime \in Nat
  /\ None \notin Payments
  /\ IsFiniteSet(Requests)

VARIABLES
  status,      \* Payment.status, "none" while there is no row
  order,       \* state of the order at PayPal; "none": no gateway_payment_id
  project,     \* the ClientProject row
  decisions,   \* company_decisions rows whose reason is the order's marker
  won,         \* orders whose decision is "resolved" (and whose lead is WON)
  req,         \* each handler's program counter and session
  now,
  faults,      \* how many restarts and failed gateway calls there were
  confirmed,   \* history: orders the owner confirmed as received
  extensions,  \* history: how often an order extended the period
  raisedFor    \* history: the period end a renewal order was raised for

rows == <<status, order, project, decisions, won>>
history == <<confirmed, extensions, raisedFor>>
vars == <<rows, req, now, faults, history>>

Idle == [pc |-> "idle", kind |-> None, p |-> None, st |-> "none",
         seen |-> "none", proj |-> None]

InFlight == {r \in Requests : req[r].pc # "idle"}

OnlyPaid(st) == st = "paid"  \* mutant: a flagged order is open to the buyer

\* Settled or flagged: verify_payment and finalize_paypal_payment leave it alone.
Decided(st) == st \in {"paid", "review"}

OpenButInvoice == {"pending", "authorized", "paid", "review"}  \* mutant

\* renewals._OPEN_STATES
OpenStates == {"pending", "invoice", "authorized", "paid", "review"}

Init ==
  /\ status = [p \in Payments |-> "none"]
  /\ order = [p \in Payments |-> "none"]
  \* end = 0 is NULL: it is older than any grace window.
  /\ project = [status |-> "pending", end |-> 0, last |-> None, renewal |-> None]
  /\ decisions = [p \in Payments |-> 0]
  /\ won = {}
  /\ req = [r \in Requests |-> Idle]
  /\ now = Grace
  /\ faults = [crashes |-> 0, failures |-> 0]
  /\ confirmed = {}
  /\ extensions = [p \in Payments |-> 0]
  /\ raisedFor = [p \in Payments |-> 0]

-----------------------------------------------------------------------------
(* The client, PayPal, time, and the process *)

\* Checkout of a first order or an add-on: create_payment, then "invoice" unless
\* the buyer chose PayPal, whose order is asked for next.
Checkout(p) ==
  /\ p \notin Renewals /\ status[p] = "none"
  /\ \E st \in {"pending", "invoice"} : status' = [status EXCEPT ![p] = st]
  /\ UNCHANGED <<order, project, decisions, won, req, now, faults, history>>

\* The buyer approves the PayPal order.
Approve(p) ==
  /\ order[p] = "created"
  /\ order' = [order EXCEPT ![p] = "approved"]
  /\ UNCHANGED <<status, project, decisions, won, req, now, faults, history>>

\* PayPal decides a capture it held for review.
HeldCaptureEnds(p) ==
  /\ order[p] = "held"
  /\ \E end \in {"completed", "declined"} : order' = [order EXCEPT ![p] = end]
  /\ UNCHANGED <<status, project, decisions, won, req, now, faults, history>>

Tick ==
  /\ now < MaxTime
  /\ now' = now + 1
  /\ UNCHANGED <<rows, req, faults, history>>

\* The process restarts: every handler in flight is gone, the rows stay.
Crash ==
  /\ faults.crashes < MaxCrashes /\ InFlight # {}
  /\ faults' = [faults EXCEPT !.crashes = @ + 1]
  /\ req' = [r \in Requests |-> Idle]
  /\ UNCHANGED <<rows, now, history>>

-----------------------------------------------------------------------------
(* Handlers: the first read and the early returns *)

Goto(r, pc) == req' = [req EXCEPT ![r].pc = pc]
Leave(r) == req' = [req EXCEPT ![r] = Idle]

Begin(r, kind, p, pc) ==
  /\ kind \in Kinds
  /\ req[r].pc = "idle" /\ Cardinality(InFlight) < MaxInFlight
  /\ status[p] # "none"
  /\ req' = [req EXCEPT ![r] = [Idle EXCEPT !.pc = pc, !.kind = kind, !.p = p,
                                            !.st = status[p]]]
  /\ UNCHANGED <<rows, now, faults, history>>

\* GET /api/payments/{id} and POST .../capture: a paid order goes straight to
\* its outcome, an undecided PayPal order is looked up, anything else is only read.
BeginPoll(r, p) ==
  \E kind \in {"poll", "capture"} :
    \/ status[p] = "paid" /\ Begin(r, kind, p, "marker")
    \/ ~Decided(status[p]) /\ order[p] # "none" /\ Begin(r, kind, p, "fetch")

ForgetHeld(r, p) ==  \* mutant: a held capture is taken for settled
  status[p] # "authorized" /\ ~Decided(status[p]) /\ order[p] # "none"
    /\ Begin(r, "webhook", p, "fetch")

\* POST /webhooks/paypal, possibly repeated or late: a paid order is a no-op.
BeginWebhook(r, p) ==
  ~Decided(status[p]) /\ order[p] # "none" /\ Begin(r, "webhook", p, "fetch")

ConfirmAnything(r, p) == status[p] # "paid" /\ Begin(r, "confirm", p, "confirm")  \* mutant

\* POST .../confirm-received: not for paid orders nor for PayPal ones.
BeginConfirm(r, p) ==
  status[p] # "paid" /\ order[p] = "none" /\ Begin(r, "confirm", p, "confirm")

\* POST .../pay-paypal: an order is asked from PayPal.
BeginPayPal(r, p) ==
  ~Decided(status[p]) /\ Begin(r, "paypal", p, "create")

-----------------------------------------------------------------------------
(* Settling an order *)

\* PayPal answers create_paypal_order. The same request id returns the same
\* order; the row becomes "pending" unless it was read as such.
CreateOrder(r) ==
  LET p == req[r].p IN
  /\ req[r].pc = "create"
  /\ order' = [order EXCEPT ![p] = IF @ = "none" THEN "created" ELSE @]
  /\ status' = [status EXCEPT ![p] = IF req[r].st = "pending" THEN @ ELSE "pending"]
  /\ Leave(r)
  /\ UNCHANGED <<project, decisions, won, now, faults, history>>

\* What get_paypal_order may answer; an approved order is captured on the way,
\* except by a poll, which never captures.
Answers(r) ==
  LET p == req[r].p IN
  IF order[p] = "approved" /\ req[r].kind # "poll"
  THEN {"completed", "held", "declined"}
  ELSE {order[p]}

Fetch(r) ==
  /\ req[r].pc = "fetch"
  /\ \E answer \in Answers(r) :
       /\ order' = [order EXCEPT ![req[r].p] = answer]
       /\ req' = [req EXCEPT ![r].pc = "apply", ![r].seen = answer]
  /\ UNCHANGED <<status, project, decisions, won, now, faults, history>>

\* The gateway call times out or fails, perhaps after PayPal captured the order:
\* the handler raises and writes nothing. (An order that was created but never
\* answered is unknown to the row: "none".)
GatewayFails(r) ==
  /\ faults.failures < MaxFailures
  /\ faults' = [faults EXCEPT !.failures = @ + 1]
  /\ \/ req[r].pc = "create" /\ UNCHANGED order
     \/ req[r].pc = "fetch" /\ \E answer \in Answers(r) \cup {order[req[r].p]} :
          order' = [order EXCEPT ![req[r].p] = answer]
  /\ Leave(r)
  /\ UNCHANGED <<status, project, decisions, won, now, history>>

HeldIsPaid(p, seen, st) ==  \* mutant: a pending capture counts as money
  IF seen \in {"completed", "held"} THEN "paid" ELSE IF seen = "declined" THEN "failed" ELSE st

\* apply_paypal_order: the status an order whose row reads `st` gets.
StatusFor(p, seen, st) ==
  CASE seen = "completed" -> IF p \in OddCaptures THEN "review" ELSE "paid"
    [] seen = "declined"  -> "failed"
    [] seen = "held"      -> "authorized"
    [] OTHER              -> st

\* Write an attribute that was read as `read`: unchanged values are not written.
Written(read, new, current) == IF new = read THEN current ELSE new

Apply(r) ==
  LET p == req[r].p
      st == StatusFor(p, req[r].seen, req[r].st) IN
  /\ req[r].pc = "apply"
  /\ status' = [status EXCEPT ![p] = Written(req[r].st, st, @)]
  /\ IF st = "paid" THEN req' = [req EXCEPT ![r].pc = "marker", ![r].st = st]
                    ELSE Leave(r)
  /\ UNCHANGED <<order, project, decisions, won, now, faults, history>>

\* The owner's confirmation is committed.
Confirm(r) ==
  LET p == req[r].p IN
  /\ req[r].pc = "confirm"
  /\ status' = [status EXCEPT ![p] = "paid"]
  /\ confirmed' = confirmed \cup {p}
  /\ req' = [req EXCEPT ![r].pc = "marker", ![r].st = "paid"]
  /\ UNCHANGED <<order, project, decisions, won, now, faults, extensions, raisedFor>>

-----------------------------------------------------------------------------
(* _apply_paid_outcome and activate_subscription *)

ResolveFirst(r) ==  \* mutant: the decision is written before the activation
  /\ req[r].pc = "marker"
  /\ IF decisions[req[r].p] = 0 THEN Goto(r, "resolve") ELSE Leave(r)
  /\ UNCHANGED <<rows, now, faults, history>>

\* The marker decides whether the outcome was applied before; with two markers
\* scalar_one_or_none raises. get_payment and confirm_payment_received still hold
\* the row they settled; the other two read it again first.
ReadMarker(r) ==
  LET p == req[r].p
      isPaid == req[r].kind \in {"poll", "confirm"} \/ status[p] = "paid" IN
  /\ req[r].pc = "marker"
  /\ IF isPaid /\ decisions[p] = 0
     THEN Goto(r, "activate")
     ELSE Leave(r)
  /\ UNCHANGED <<rows, now, faults, history>>

AcceptAll(p) == FALSE  \* mutant
OrderMismatch(p) == p \in Mismatched

\* activate_subscription reads the project: already activated by this very order,
\* refused for another configuration, or to be extended.
ReadProject(r) ==
  LET p == req[r].p IN
  /\ req[r].pc = "activate"
  /\ CASE project.last = p -> Goto(r, "resolve") /\ UNCHANGED status
       [] project.last # p /\ OrderMismatch(p) ->
            /\ status' = [status EXCEPT ![p] = "review"]
            /\ Goto(r, "flag")
       [] OTHER ->
            /\ req' = [req EXCEPT ![r].pc = "extend", ![r].proj = project]
            /\ UNCHANGED status
  /\ UNCHANGED <<order, project, decisions, won, now, faults, history>>

EndFromNow(end) == now + Month  \* mutant

\* A renewal paid early or inside the grace window extends from the old end.
NewEnd(end) == (IF end > now - Grace THEN end ELSE now) + Month

Extend(r) ==
  LET p == req[r].p
      read == req[r].proj IN
  /\ req[r].pc = "extend"
  /\ project' = [status  |-> Written(read.status, "active", project.status),
                 end     |-> NewEnd(read.end),
                 last    |-> p,
                 renewal |-> IF read.renewal = p THEN None ELSE project.renewal]
  /\ extensions' = [extensions EXCEPT ![p] = @ + 1]
  /\ Goto(r, "resolve")
  /\ UNCHANGED <<status, order, decisions, won, now, faults, confirmed, raisedFor>>

\* The Decision row, "resolved" after an activation (which also wins the lead)
\* and "review" after a refusal.
Decide(r) ==
  LET p == req[r].p IN
  /\ req[r].pc \in {"resolve", "flag"}
  /\ decisions' = [decisions EXCEPT ![p] = @ + 1]
  /\ won' = IF req[r].pc = "resolve" THEN won \cup {p} ELSE won
  /\ Leave(r)
  /\ UNCHANGED <<status, order, project, now, faults, history>>

-----------------------------------------------------------------------------
(* run_renewals *)

\* The pass lists the project and decides to expire it or to look at its order.
BeginRenewals(r) ==
  /\ "renewals" \in Kinds
  /\ req[r].pc = "idle" /\ Cardinality(InFlight) < MaxInFlight
  /\ project.status = "active" /\ project.end # 0 /\ project.end <= now + Lead
  /\ req' = [req EXCEPT ![r] =
               [Idle EXCEPT !.kind = "renewals", !.proj = project,
                            !.pc = IF now > project.end + Grace
                                   THEN "expire" ELSE "renew"]]
  /\ UNCHANGED <<rows, now, faults, history>>

Expire(r) ==
  /\ req[r].pc = "expire"
  /\ project' = [project EXCEPT !.status = "expired"]
  /\ Leave(r)
  /\ UNCHANGED <<status, order, decisions, won, now, faults, history>>

\* An order that can still be paid, or is paid, is not raised again.
HasOpenRenewal(proj) == proj.renewal # None /\ status[proj.renewal] \in OpenStates

SkipRenewal(r) ==
  /\ req[r].pc = "renew" /\ HasOpenRenewal(req[r].proj)
  /\ Leave(r)
  /\ UNCHANGED <<rows, now, faults, history>>

\* create_payment commits the order's row ...
RaiseRenewal(r, p) ==
  /\ req[r].pc = "renew" /\ ~HasOpenRenewal(req[r].proj)
  /\ p \in Renewals /\ status[p] = "none"
  /\ status' = [status EXCEPT ![p] = "pending"]
  /\ raisedFor' = [raisedFor EXCEPT ![p] = req[r].proj.end]
  /\ req' = [req EXCEPT ![r].pc = "note", ![r].p = p]
  /\ UNCHANGED <<order, project, decisions, won, now, faults, confirmed, extensions>>

\* ... and a second commit notes it on the project.
NoteRenewal(r) ==
  LET p == req[r].p IN
  /\ req[r].pc = "note"
  /\ status' = [status EXCEPT ![p] = "invoice"]
  /\ project' = [project EXCEPT !.renewal = p]
  /\ Leave(r)
  /\ UNCHANGED <<order, decisions, won, now, faults, history>>

-----------------------------------------------------------------------------
Environment ==
  \/ \E p \in Payments : Checkout(p) \/ Approve(p) \/ HeldCaptureEnds(p)
  \/ Tick \/ Crash

Arrive(r) ==
  \/ \E p \in Payments : BeginPoll(r, p) \/ BeginWebhook(r, p)
                         \/ BeginConfirm(r, p) \/ BeginPayPal(r, p)
  \/ BeginRenewals(r)

Handle(r) ==
  \/ CreateOrder(r) \/ Fetch(r) \/ GatewayFails(r) \/ Apply(r) \/ Confirm(r)
  \/ ReadMarker(r) \/ ReadProject(r) \/ Extend(r) \/ Decide(r)
  \/ Expire(r) \/ SkipRenewal(r) \/ NoteRenewal(r)
  \/ \E p \in Payments : RaiseRenewal(r, p)

Next == Environment \/ \E r \in Requests : Arrive(r) \/ Handle(r)

Spec == Init /\ [][Next]_vars

\* Every handler is resumed by the event loop and its calls return; PayPal decides
\* what it holds and delivers without end, which is more than it owes: FairSpec is for
\* showing what not even that brings about, SettlementEvents counts the deliveries.
HandlerFairness == \A r \in Requests : WF_vars(Handle(r))

PayPalFairness == \A p \in Payments :
  /\ WF_vars(HeldCaptureEnds(p))
  /\ SF_vars(\E r \in Requests : BeginWebhook(r, p))

FairSpec == Spec /\ HandlerFairness /\ PayPalFairness

-----------------------------------------------------------------------------
(* Properties *)

Statuses == {"none", "pending", "invoice", "authorized", "paid", "review", "failed"}
Orders == {"none", "created", "approved", "completed", "held", "declined"}
Projects == [status  : {"pending", "active", "expired"}, end : Nat,
             last    : Payments \cup {None},
             renewal : Payments \cup {None}]
Phases == {"idle", "create", "fetch", "apply", "confirm", "marker", "activate",
           "extend", "resolve", "flag", "expire", "renew", "note"}
Handlers == [pc   : Phases,
             kind : Kinds \cup {None}, p : Payments \cup {None},
             st   : Statuses, seen : Orders, proj : Projects \cup {None}]

TypeOK ==
  /\ status \in [Payments -> Statuses]
  /\ order \in [Payments -> Orders]
  /\ project \in Projects
  /\ decisions \in [Payments -> Nat]
  /\ won \subseteq Payments
  /\ req \in [Requests -> Handlers]
  /\ now \in Nat
  /\ faults \in [crashes : 0 .. MaxCrashes, failures : 0 .. MaxFailures]
  /\ confirmed \subseteq Payments
  /\ extensions \in [Payments -> Nat]
  /\ raisedFor \in [Payments -> Nat]

\* Money that counts: the owner saw it, or PayPal captured the amount asked for.
MoneyReceived(p) ==
  p \in confirmed \/ (order[p] = "completed" /\ p \notin OddCaptures)

\* No interleaving, restart or stale write makes an order "paid" without money:
\* a capture of the stored amount (apply_paypal_order) or the owner's word.
PaidMeansMoney == \A p \in Payments : status[p] = "paid" => MoneyReceived(p)

\* A period is only ever extended by money that was received for an order of the
\* project's own configuration (activate_subscription and order_mismatch).
AccessIsPaidFor ==
  \A p \in Payments : extensions[p] > 0 => MoneyReceived(p) /\ p \notin Mismatched

\* "Activate first": the resolved decision and the WON lead are never there before
\* the order extended the period, whatever is lost in between (_apply_paid_outcome).
WonOnlyAfterActivation == \A p \in won : extensions[p] > 0

\* "A settled or flagged order is never re-decided": what PayPal or the buyer does
\* later leaves it alone. Only an activation that is refused moves paid to review
\* and only the owner moves review to paid.
SettledIsNotRedecided ==
  [][\A p \in Payments : status[p] \in {"paid", "review"} /\ status'[p] # status[p] =>
        \/ status[p] = "paid" /\ status'[p] = "review" /\ p \in Mismatched
        \/ status'[p] = "paid" /\ p \in confirmed']_vars

\* The two ways of paying exclude each other: no order is confirmed as a transfer
\* and captured by PayPal too.
NeverChargedTwice == \A p \in Payments : ~(p \in confirmed /\ order[p] = "completed")

\* "ONE renewal order per period": of the orders that clients leave to bank
\* transfer (no PayPal order ever failed) no two are raised for the same period.
OneRenewalPerPeriod ==
  \A p, q \in Renewals :
    raisedFor[p] # 0 /\ raisedFor[p] = raisedFor[q] /\ order[p] = "none" /\ order[q] = "none"
      => p = q

\* "The same paid order never extends the period twice."
ExtendsOnce ==
  [][\A p \in Payments : extensions[p] > 0 /\ extensions'[p] # extensions[p]
        => project'.end <= project.end]_vars

\* Without restarts and concurrent handlers this is the subscription of Entitlement.
E == INSTANCE Entitlement WITH
  access <- project.status, until <- project.end,
  spent <- {p \in Payments : extensions[p] > 0}, today <- now

ImplementsEntitlement == E!EntitlementSpec

\* "When the renewal order is paid, the normal paid path extends the period."
PaidRenewalExtends ==
  \A p \in Renewals : status[p] = "paid" ~> (extensions[p] > 0 \/ status[p] = "review")
=============================================================================
