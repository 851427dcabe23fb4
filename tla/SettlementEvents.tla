--------------------------- MODULE SettlementEvents ---------------------------
(***************************************************************************)
(* Settlement together with the deliveries PayPal owes: it sends the event *)
(* of a completed capture again until POST /webhooks/paypal answers it     *)
(* with success (paypal_webhook in src/main.py, handle_paypal_webhook in   *)
(* src/services/payments.py) and then never again. Settlement itself is    *)
(* unchanged: a webhook without an owed event is a repetition or one of    *)
(* the other events, which may come but need not.                          *)
(***************************************************************************)
EXTENDS Settlement

VARIABLES
  due,      \* orders whose PAYMENT.CAPTURE.COMPLETED has not been answered 2xx
  bearers,  \* webhook executions that were started by such an event
  undone    \* history: orders whose settled or flagged status was overwritten unseen,
            \* or whose outcome a restart cut off

deliveries == <<due, bearers, undone>>
allVars == <<vars, deliveries>>

EventsInit == Init /\ due = {} /\ bearers = {} /\ undone = {}

-----------------------------------------------------------------------------
Completing == {p \in Payments : order[p] # "completed" /\ order'[p] = "completed"}

\* A handler that had not seen the settled or flagged status writes over it.
TakenBack(r) ==
  {p \in Payments : p = req[r].p /\ Decided(status[p])
                    /\ status'[p] # status[p] /\ req[r].st # status[p]}

\* Between the commit of `paid` and the decision, the outcome is still to come.
Outcome == {"marker", "activate", "extend", "resolve", "flag"}

\* The world without the restart.
World ==
  /\ Tick \/ \E p \in Payments : Checkout(p) \/ Approve(p) \/ HeldCaptureEnds(p)
  /\ due' = due \cup Completing
  /\ UNCHANGED <<bearers, undone>>

\* A delivery that dies with the process is not answered and stays due.
CrashUnanswered ==
  /\ Crash
  /\ bearers' = {}
  /\ undone' = undone \cup {req[r].p : r \in {s \in InFlight : req[s].pc \in Outcome}}
  /\ UNCHANGED due

\* An owed event reaches an undecided order.
Deliver(r, p) ==
  /\ p \in due /\ BeginWebhook(r, p)
  /\ bearers' = bearers \cup {r}
  /\ UNCHANGED <<due, undone>>

\* "Replays are a 200 no-op": so is the first delivery of a settled or flagged order.
AnswerDecided(p) ==
  /\ p \in due /\ Decided(status[p])
  /\ due' = due \ {p}
  /\ UNCHANGED <<vars, bearers, undone>>

\* A webhook that ends without a gateway error answers 2xx; an error is a 502.
Answers2xx(r) == r \in bearers /\ req'[r].pc = "idle" /\ faults' = faults

HandleEvent(r) ==
  /\ Handle(r)
  /\ due' = (due \ {p \in Payments : p = req[r].p /\ Answers2xx(r)}) \cup Completing
  /\ bearers' = IF req'[r].pc = "idle" THEN bearers \ {r} ELSE bearers
  /\ undone' = undone \cup TakenBack(r)

EventsNext ==
  \/ World \/ CrashUnanswered
  \/ \E p \in Payments : AnswerDecided(p)
  \/ \E r \in Requests :
       \/ Arrive(r) /\ UNCHANGED deliveries
       \/ HandleEvent(r)
       \/ \E p \in Payments : Deliver(r, p)

\* Every handler is resumed and its calls return; an owed event is delivered again
\* and again while there is a free handler, and is never answered unless it came.
EventsSpec ==
  /\ EventsInit /\ [][EventsNext]_allVars
  /\ \A r \in Requests : WF_allVars(HandleEvent(r))
  /\ \A p \in Payments :
       SF_allVars(AnswerDecided(p) \/ \E r \in Requests : Deliver(r, p))

-----------------------------------------------------------------------------
(* Property *)

\* Whatever PayPal captured ends in access or in a flag for the owner, while captures,
\* polls, webhooks and the asking for an order run side by side, gateway calls fail or
\* lose their answer and the process restarts, unless a settled or flagged status was
\* taken back or the outcome of `paid` cut off. Such orders may be lost for good if nobody
\* polls: a poll that was told PENDING, or a slow create_paypal_order, writes over the
\* status of a webhook whose event is then answered (against the comment at
\* payments.py:578), and after a restart behind the commit of `paid` the event is a no-op
\* (payments.py:915). That no third case exists is what is checked.
CapturedIsHonoured ==
  \A p \in Payments :
    order[p] = "completed" ~> (p \in won \/ status[p] = "review" \/ p \in undone)
=============================================================================
