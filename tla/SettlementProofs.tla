--------------------------- MODULE SettlementProofs ---------------------------
(***************************************************************************)
(* What holds of Settlement for any number of orders and handlers, any     *)
(* interleaving of them, any restarts and any failed gateway calls; then   *)
(* what holds when handlers take turns, and when none is cut short.        *)
(***************************************************************************)
EXTENDS Settlement, FiniteSetTheorems, TLAPS

\* What a handler knows of its order. It holds although other handlers write the
\* same rows meanwhile, for it only speaks of facts that no handler takes back.
HandlerOK(r) ==
  LET h == req[r] IN
  /\ h.pc \notin {"idle", "expire", "renew"} => h.p \in Payments
  /\ h.pc \in {"create", "fetch", "apply"} => h.st # "paid"
  /\ h.pc = "apply" /\ h.seen = "completed" => order[h.p] = "completed"
  /\ h.pc \in {"marker", "activate", "extend"} => MoneyReceived(h.p)
  /\ h.pc = "extend" => h.p \notin Mismatched
  /\ h.pc \in {"extend", "expire", "renew"} => h.proj \in Projects
  /\ h.pc = "resolve" => extensions[h.p] > 0

HandlersOK == \A r \in Requests : HandlerOK(r)

\* The order the project names as its last one has extended it.
LastExtended == project.last # None => extensions[project.last] > 0

IInv == TypeOK /\ HandlersOK /\ PaidMeansMoney /\ AccessIsPaidFor
               /\ WonOnlyAfterActivation /\ LastExtended

-----------------------------------------------------------------------------
(* Facts no step takes back *)

\* Captured money, the owner's word and extensions are never undone.
LEMMA Lasting ==
  ASSUME TypeOK, HandlersOK, [Next]_vars
  PROVE  \A p \in Payments :
           /\ order[p] = "completed" => order'[p] = "completed"
           /\ p \in confirmed => p \in confirmed'
           /\ extensions[p] > 0 => extensions'[p] > 0
           /\ MoneyReceived(p) => MoneyReceived(p)'
<1> USE DEF TypeOK, vars, rows, history
<1>1. ASSUME NEW p \in Payments
      PROVE  /\ order[p] = "completed" => order'[p] = "completed"
             /\ p \in confirmed => p \in confirmed'
             /\ extensions[p] > 0 => extensions'[p] > 0
  <2>1. CASE Environment
    BY <2>1 DEF Environment, Checkout, Approve, HeldCaptureEnds, Tick, Crash
  <2>2. ASSUME NEW r \in Requests, Arrive(r) PROVE UNCHANGED <<order, confirmed, extensions>>
    BY <2>2 DEF Arrive, BeginPoll, BeginWebhook, BeginConfirm, BeginPayPal, Begin,
                BeginRenewals
  <2>3. ASSUME NEW r \in Requests, CreateOrder(r) \/ Fetch(r) \/ GatewayFails(r)
        PROVE  /\ order[p] = "completed" => order'[p] = "completed"
               /\ UNCHANGED <<confirmed, extensions>>
    <3>1. req[r].pc \in {"create", "fetch"} /\ req[r].p \in Payments
      BY <2>3 DEF CreateOrder, Fetch, GatewayFails, HandlersOK, HandlerOK
    <3>2. \A x \in Answers(r) : order[req[r].p] = "completed" => x = "completed"
      BY DEF Answers
    <3>. QED BY <2>3, <3>1, <3>2 DEF CreateOrder, Fetch, GatewayFails
  <2>4. ASSUME NEW r \in Requests, Confirm(r)
        PROVE  confirmed \subseteq confirmed' /\ UNCHANGED <<order, extensions>>
    BY <2>4 DEF Confirm
  <2>5. ASSUME NEW r \in Requests, Extend(r)
        PROVE  /\ extensions[p] > 0 => extensions'[p] > 0
               /\ UNCHANGED <<order, confirmed>>
    BY <2>5 DEF Extend, HandlersOK, HandlerOK
  <2>6. ASSUME NEW r \in Requests,
               \/ Apply(r) \/ ReadMarker(r) \/ ReadProject(r) \/ Decide(r)
               \/ Expire(r) \/ SkipRenewal(r) \/ NoteRenewal(r)
               \/ \E q \in Payments : RaiseRenewal(r, q)
        PROVE  UNCHANGED <<order, confirmed, extensions>>
    BY <2>6 DEF Apply, ReadMarker, ReadProject, Decide, Expire, SkipRenewal,
                NoteRenewal, RaiseRenewal
  <2>7. CASE UNCHANGED vars
    BY <2>7
  <2>. QED BY <2>1, <2>2, <2>3, <2>4, <2>5, <2>6, <2>7 DEF Next, Handle
<1>. QED BY <1>1 DEF MoneyReceived

\* A handler that does not move keeps what it knows.
LEMMA OthersKeep ==
  ASSUME TypeOK, HandlersOK, [Next]_vars, NEW r \in Requests, req'[r] = req[r]
  PROVE  HandlerOK(r)'
<1>1. HandlerOK(r)
  BY DEF HandlersOK
<1>. QED BY <1>1, Lasting DEF HandlerOK, TypeOK, Handlers
-----------------------------------------------------------------------------
(* The invariant is inductive *)

LEMMA IdleHandler == Idle \in Handlers
BY DEF Idle, Handlers, Phases, Statuses, Orders

LEMMA Initially == Init => IInv
<1> SUFFICES ASSUME Init PROVE IInv
  OBVIOUS
<1> USE SettlementAssumption DEF Init
<1>1. TypeOK
  BY IdleHandler DEF TypeOK, Statuses, Orders, Projects
<1>2. HandlersOK
  BY DEF HandlersOK, HandlerOK, Idle
<1>3. PaidMeansMoney /\ AccessIsPaidFor /\ WonOnlyAfterActivation /\ LastExtended
  BY DEF PaidMeansMoney, AccessIsPaidFor, WonOnlyAfterActivation, LastExtended
<1>. QED BY <1>1, <1>2, <1>3 DEF IInv

\* A handler's record keeps its type when it moves on.
LEMMA HandlerUpdates ==
  ASSUME NEW h \in Handlers, NEW pc \in Phases
  PROVE  /\ [h EXCEPT !.pc = pc] \in Handlers
         /\ \A st \in Statuses : [h EXCEPT !.pc = pc, !.st = st] \in Handlers
         /\ \A seen \in Orders : [h EXCEPT !.pc = pc, !.seen = seen] \in Handlers
         /\ \A proj \in Projects : [h EXCEPT !.pc = pc, !.proj = proj] \in Handlers
         /\ \A p \in Payments : [h EXCEPT !.pc = pc, !.p = p] \in Handlers
BY DEF Handlers

\* A row of the orders keeps its type when one of them is written.
LEMMA RowUpdates ==
  ASSUME TypeOK, NEW p \in Payments
  PROVE  /\ \A st \in Statuses : [status EXCEPT ![p] = st] \in [Payments -> Statuses]
         /\ \A o \in Orders : [order EXCEPT ![p] = o] \in [Payments -> Orders]
         /\ [decisions EXCEPT ![p] = @ + 1] \in [Payments -> Nat]
         /\ [extensions EXCEPT ![p] = @ + 1] \in [Payments -> Nat]
BY DEF TypeOK

\* Every handler's record keeps its type, whoever moves.
LEMMA HandlerTypes ==
  ASSUME TypeOK, HandlersOK, Next
  PROVE  req' \in [Requests -> Handlers]
<1>0. req \in [Requests -> Handlers] /\ project \in Projects
  BY DEF TypeOK
<1>1. ASSUME NEW r \in Requests, NEW h \in Handlers, req' = [req EXCEPT ![r] = h]
      PROVE  req' \in [Requests -> Handlers]
  BY <1>0, <1>1
<1>2. CASE Environment
  BY <1>0, <1>2, IdleHandler
     DEF Environment, Checkout, Approve, HeldCaptureEnds, Tick, Crash, rows
<1>3. ASSUME NEW r \in Requests, Arrive(r) PROVE req' \in [Requests -> Handlers]
  <2>1. ASSUME NEW kind \in Kinds, NEW p \in Payments, NEW pc \in Phases, Begin(r, kind, p, pc)
        PROVE  req' \in [Requests -> Handlers]
    <3>1. status[p] \in Statuses
      BY DEF TypeOK
    <3>2. [Idle EXCEPT !.pc = pc, !.kind = kind, !.p = p, !.st = status[p]] \in Handlers
      BY <3>1, IdleHandler DEF Handlers
    <3>. QED BY <1>1, <2>1, <3>2 DEF Begin
  <2>2. ASSUME NEW p \in Payments,
               \/ BeginPoll(r, p) \/ BeginWebhook(r, p)
               \/ BeginConfirm(r, p) \/ BeginPayPal(r, p)
        PROVE  req' \in [Requests -> Handlers]
    <3>1. PICK kind \in Kinds, pc \in Phases : Begin(r, kind, p, pc)
      BY <2>2 DEF BeginPoll, BeginWebhook, BeginConfirm, BeginPayPal, Begin, Phases
    <3>. QED BY <2>1, <3>1
  <2>3. CASE BeginRenewals(r)
    <3>1. ASSUME NEW pc \in {"expire", "renew"}
          PROVE  [Idle EXCEPT !.kind = "renewals", !.proj = project, !.pc = pc] \in Handlers
      BY <1>0, <2>3, IdleHandler DEF BeginRenewals, Handlers, Phases
    <3>2. CASE now > project.end + Grace
      BY <1>1, <2>3, <3>1, <3>2 DEF BeginRenewals
    <3>3. CASE ~(now > project.end + Grace)
      BY <1>1, <2>3, <3>1, <3>3 DEF BeginRenewals
    <3>. QED BY <3>2, <3>3
  <2>. QED BY <1>3, <2>2, <2>3 DEF Arrive
<1>4. ASSUME NEW r \in Requests, Handle(r) PROVE req' \in [Requests -> Handlers]
  <2>0. req[r] \in Handlers
    BY <1>0
  <2>1. CASE Leave(r)
    BY <1>1, <2>1, IdleHandler DEF Leave
  <2>2. ASSUME NEW pc \in Phases, Goto(r, pc)
        PROVE  req' \in [Requests -> Handlers]
    BY <1>0, <2>0, <2>2, HandlerUpdates DEF Goto
  <2>3. CASE Fetch(r)
    <3>1. req[r].p \in Payments
      BY <2>3 DEF Fetch, HandlersOK, HandlerOK
    <3>2. Answers(r) \subseteq Orders
      BY <3>1 DEF Answers, Orders, TypeOK
    <3>3. PICK answer \in Orders : req' = [req EXCEPT ![r].pc = "apply", ![r].seen = answer]
      BY <2>3, <3>2 DEF Fetch
    <3>4. [req[r] EXCEPT !.pc = "apply", !.seen = answer] \in Handlers
      BY <2>0, HandlerUpdates DEF Phases
    <3>. QED BY <1>0, <3>3, <3>4
  <2>4. CASE req' = [req EXCEPT ![r].pc = "marker", ![r].st = "paid"]
    <3>1. [req[r] EXCEPT !.pc = "marker", !.st = "paid"] \in Handlers
      BY <2>0, HandlerUpdates DEF Phases, Statuses
    <3>. QED BY <1>0, <2>4, <3>1
  <2>5. CASE req' = [req EXCEPT ![r].pc = "extend", ![r].proj = project]
    <3>1. [req[r] EXCEPT !.pc = "extend", !.proj = project] \in Handlers
      BY <1>0, <2>0, HandlerUpdates DEF Phases
    <3>. QED BY <1>0, <2>5, <3>1
  <2>6. ASSUME NEW p \in Payments, req' = [req EXCEPT ![r].pc = "note", ![r].p = p]
        PROVE  req' \in [Requests -> Handlers]
    <3>1. [req[r] EXCEPT !.pc = "note", !.p = p] \in Handlers
      BY <2>0, HandlerUpdates DEF Phases
    <3>. QED BY <1>0, <2>6, <3>1
  <2>7. CASE Apply(r)
    BY <2>1, <2>4, <2>7 DEF Apply
  <2>8. CASE ReadProject(r)
    BY <2>2, <2>5, <2>8 DEF ReadProject, Phases
  <2>9. CASE ReadMarker(r) \/ Extend(r)
    BY <2>1, <2>2, <2>9 DEF ReadMarker, Extend, Phases
  <2>10. CASE \/ CreateOrder(r) \/ GatewayFails(r) \/ Decide(r)
              \/ Expire(r) \/ SkipRenewal(r) \/ NoteRenewal(r)
    BY <2>1, <2>10 DEF CreateOrder, GatewayFails, Decide, Expire, SkipRenewal, NoteRenewal
  <2>11. CASE Confirm(r)
    BY <2>4, <2>11 DEF Confirm
  <2>12. ASSUME NEW p \in Payments, RaiseRenewal(r, p)
         PROVE  req' \in [Requests -> Handlers]
    BY <2>6, <2>12 DEF RaiseRenewal
  <2>. QED BY <1>4, <2>3, <2>7, <2>8, <2>9, <2>10, <2>11, <2>12 DEF Handle
<1>. QED BY <1>2, <1>3, <1>4 DEF Next

\* Every row keeps its type.
LEMMA Types ==
  ASSUME TypeOK, HandlersOK, Next
  PROVE  TypeOK'
<1> USE DEF rows, history
<1>0. req' \in [Requests -> Handlers]
  BY HandlerTypes
<1>1. ASSUME UNCHANGED <<status, order, project, decisions, now, faults, extensions, raisedFor>>,
             won' \subseteq Payments, confirmed' \subseteq Payments
      PROVE  TypeOK'
  BY <1>0, <1>1 DEF TypeOK
<1>2. CASE Environment
  <2>1. ASSUME NEW p \in Payments, Checkout(p) \/ Approve(p) \/ HeldCaptureEnds(p)
        PROVE  TypeOK'
    BY <1>0, <2>1, RowUpdates
       DEF Checkout, Approve, HeldCaptureEnds, Statuses, Orders, TypeOK
  <2>2. CASE Tick
    BY <1>0, <2>2 DEF Tick, TypeOK
  <2>3. CASE Crash
    <3>1. faults' \in [crashes : 0 .. MaxCrashes, failures : 0 .. MaxFailures]
      BY <2>3, SettlementAssumption DEF Crash, TypeOK
    <3>. QED BY <1>0, <2>3, <3>1 DEF Crash, TypeOK
  <2>. QED BY <1>2, <2>1, <2>2, <2>3 DEF Environment
<1>3. ASSUME NEW r \in Requests, Arrive(r) PROVE TypeOK'
  <2>1. UNCHANGED <<rows, now, faults, history>>
    BY <1>3 DEF Arrive, BeginPoll, BeginWebhook, BeginConfirm, BeginPayPal, Begin,
                BeginRenewals
  <2>. QED BY <1>1, <2>1 DEF TypeOK
<1>4. ASSUME NEW r \in Requests, Handle(r) PROVE TypeOK'
  <2>1. CASE req[r].pc \in {"idle", "expire", "renew"}
    <3>1. CASE Expire(r) \/ SkipRenewal(r)
      BY <1>0, <3>1 DEF Expire, SkipRenewal, Projects, TypeOK
    <3>2. ASSUME NEW p \in Payments, RaiseRenewal(r, p) PROVE TypeOK'
      <4>1. req[r].proj.end \in Nat
        BY <3>2 DEF RaiseRenewal, HandlersOK, HandlerOK, Projects
      <4>2. raisedFor' \in [Payments -> Nat]
        BY <3>2, <4>1 DEF RaiseRenewal, TypeOK
      <4>3. status' \in [Payments -> Statuses]
        BY <3>2, RowUpdates DEF RaiseRenewal, Statuses
      <4>. QED BY <1>0, <3>2, <4>2, <4>3 DEF RaiseRenewal, TypeOK
    <3>. QED BY <1>4, <2>1, <3>1, <3>2
         DEF Handle, CreateOrder, Fetch, GatewayFails, Apply, Confirm, ReadMarker,
             ReadProject, Extend, Decide, NoteRenewal
  <2>2. CASE req[r].pc \notin {"idle", "expire", "renew"}
    <3>0. req[r].p \in Payments
      BY <2>2 DEF HandlersOK, HandlerOK
    <3>1. CASE CreateOrder(r)
      BY <1>0, <3>0, <3>1 DEF CreateOrder, Statuses, Orders, TypeOK
    <3>2. CASE Fetch(r) \/ GatewayFails(r)
      <4>1. Answers(r) \cup {order[req[r].p]} \subseteq Orders
        BY <3>0 DEF Answers, Orders, TypeOK
      <4>2. order' \in [Payments -> Orders]
        BY <3>0, <3>2, <4>1, RowUpdates DEF Fetch, GatewayFails, TypeOK
      <4>3. faults' \in [crashes : 0 .. MaxCrashes, failures : 0 .. MaxFailures]
        BY <3>2, SettlementAssumption DEF Fetch, GatewayFails, TypeOK
      <4>. QED BY <1>0, <3>2, <4>2, <4>3 DEF Fetch, GatewayFails, TypeOK
    <3>3. CASE Apply(r)
      <4>1. req[r].st \in Statuses
        BY DEF TypeOK, Handlers
      <4>2. StatusFor(req[r].p, req[r].seen, req[r].st) \in Statuses
        BY <4>1 DEF StatusFor, Statuses
      <4>3. status' \in [Payments -> Statuses]
        BY <3>0, <3>3, <4>2 DEF Apply, Written, TypeOK
      <4>. QED BY <1>0, <3>3, <4>3 DEF Apply, TypeOK
    <3>4. CASE Confirm(r)
      BY <1>0, <3>0, <3>4, RowUpdates DEF Confirm, Statuses, TypeOK
    <3>5. CASE ReadMarker(r)
      BY <1>1, <3>5 DEF ReadMarker, TypeOK
    <3>6. CASE ReadProject(r)
      <4>1. status' = status \/ status' = [status EXCEPT ![req[r].p] = "review"]
        BY <3>6 DEF ReadProject
      <4>2. status' \in [Payments -> Statuses]
        BY <3>0, <4>1, RowUpdates DEF Statuses, TypeOK
      <4>. QED BY <1>0, <3>6, <4>2 DEF ReadProject, TypeOK
    <3>7. CASE Extend(r)
      <4>1. req[r].proj \in Projects
        BY <3>7 DEF Extend, HandlersOK, HandlerOK
      <4>2. NewEnd(req[r].proj.end) \in Nat
        BY <4>1, SettlementAssumption DEF NewEnd, Projects, TypeOK
      <4>3. project' \in Projects
        BY <3>0, <3>7, <4>1, <4>2 DEF Extend, Projects, Written, TypeOK
      <4>. QED BY <1>0, <3>0, <3>7, <4>3, RowUpdates DEF Extend, TypeOK
    <3>8. CASE Decide(r)
      BY <1>0, <3>0, <3>8, RowUpdates DEF Decide, TypeOK
    <3>9. CASE NoteRenewal(r)
      <4>1. project' \in Projects
        BY <3>0, <3>9 DEF NoteRenewal, Projects, TypeOK
      <4>2. status' \in [Payments -> Statuses]
        BY <3>0, <3>9, RowUpdates DEF NoteRenewal, Statuses
      <4>. QED BY <1>0, <3>9, <4>1, <4>2 DEF NoteRenewal, TypeOK
    <3>. QED BY <1>4, <2>2, <3>1, <3>2, <3>3, <3>4, <3>5, <3>6, <3>7, <3>8, <3>9
         DEF Handle, Expire, SkipRenewal, RaiseRenewal
  <2>. QED BY <2>1, <2>2
<1>. QED BY <1>2, <1>3, <1>4 DEF Next

\* What a handler learns it learns from the rows, in the step that tells it; the
\* others keep what they know.
LEMMA HandlersLearn ==
  ASSUME IInv, Next
  PROVE  HandlersOK'
<1> SUFFICES ASSUME NEW s \in Requests PROVE HandlerOK(s)'
  BY DEF HandlersOK
<1> USE DEF IInv
<1>1. \A p \in Payments : /\ order[p] = "completed" => order'[p] = "completed"
                          /\ p \in confirmed => p \in confirmed'
                          /\ extensions[p] > 0 => extensions'[p] > 0
  BY Lasting
<1>2. HandlerOK(s)
  BY DEF HandlersOK
<1>3. CASE req'[s] = req[s]
  BY <1>3, OthersKeep
<1>4. ASSUME req'[s] # req[s]
      PROVE  Crash \/ Arrive(s) \/ Handle(s)
  <2>1. CASE Environment
    BY <1>4, <2>1 DEF Environment, Checkout, Approve, HeldCaptureEnds, Tick
  <2>2. ASSUME NEW r \in Requests, r # s, Arrive(r)
        PROVE  FALSE
    BY <1>4, <2>2 DEF Arrive, BeginPoll, BeginWebhook, BeginConfirm, BeginPayPal, Begin,
                      BeginRenewals, TypeOK
  <2>3. ASSUME NEW r \in Requests, r # s, Handle(r)
        PROVE  FALSE
    BY <1>4, <2>3 DEF Handle, CreateOrder, Fetch, GatewayFails, Apply, Confirm, ReadMarker,
                      ReadProject, Extend, Decide, Expire, SkipRenewal, NoteRenewal,
                      RaiseRenewal, Leave, Goto, TypeOK
  <2>. QED BY <2>1, <2>2, <2>3 DEF Next
<1>5. CASE req'[s] = Idle
  BY <1>5 DEF HandlerOK, Idle
<1>6. CASE Crash
  BY <1>5, <1>6 DEF Crash
<1>7. CASE Arrive(s)
  <2>1. ASSUME NEW kind \in Kinds, NEW p \in Payments,
               \/ status[p] = "paid" /\ Begin(s, kind, p, "marker")
               \/ status[p] # "paid" /\ Begin(s, kind, p, "confirm")
               \/ status[p] # "paid" /\ Begin(s, kind, p, "fetch")
               \/ status[p] # "paid" /\ Begin(s, kind, p, "create")
        PROVE  HandlerOK(s)'
    <3>1. status[p] = "paid" => MoneyReceived(p)
      BY DEF PaidMeansMoney
    <3>2. /\ UNCHANGED <<order, confirmed>>
          /\ \E pc \in {"marker", "confirm", "fetch", "create"} :
               /\ req'[s] = [Idle EXCEPT !.pc = pc, !.kind = kind, !.p = p, !.st = status[p]]
               /\ pc = "marker" => status[p] = "paid"
               /\ pc \in {"fetch", "create"} => status[p] # "paid"
      BY <2>1 DEF Begin, TypeOK, rows, history
    <3>. QED BY <3>1, <3>2 DEF HandlerOK, Idle, MoneyReceived
  <2>2. CASE BeginRenewals(s)
    BY <2>2 DEF BeginRenewals, HandlerOK, Idle, TypeOK
  <2>3. ASSUME NEW p \in Payments,
               \/ BeginPoll(s, p) \/ BeginWebhook(s, p)
               \/ BeginConfirm(s, p) \/ BeginPayPal(s, p)
        PROVE  HandlerOK(s)'
    <3>1. PICK kind \in Kinds :
            \/ status[p] = "paid" /\ Begin(s, kind, p, "marker")
            \/ status[p] # "paid" /\ Begin(s, kind, p, "confirm")
            \/ status[p] # "paid" /\ Begin(s, kind, p, "fetch")
            \/ status[p] # "paid" /\ Begin(s, kind, p, "create")
      BY <2>3 DEF BeginPoll, BeginWebhook, BeginConfirm, BeginPayPal, Begin, Decided
    <3>. QED BY <2>1, <3>1
  <2>. QED BY <1>7, <2>2, <2>3 DEF Arrive
<1>8. CASE CreateOrder(s) \/ GatewayFails(s) \/ Decide(s) \/ Expire(s)
           \/ SkipRenewal(s) \/ NoteRenewal(s)
  BY <1>5, <1>8 DEF CreateOrder, GatewayFails, Decide, Expire, SkipRenewal, NoteRenewal,
                    Leave, TypeOK
<1>9. CASE Fetch(s)
  BY <1>2, <1>9 DEF Fetch, HandlerOK, TypeOK
<1>10. CASE Apply(s)
  <2>1. CASE StatusFor(req[s].p, req[s].seen, req[s].st) = "paid"
    <3>1. MoneyReceived(req[s].p)
      BY <1>2, <1>10, <2>1 DEF Apply, StatusFor, HandlerOK, MoneyReceived
    <3>2. UNCHANGED <<order, confirmed>> /\ req[s].p \in Payments
      BY <1>2, <1>10 DEF Apply, HandlerOK, history
    <3>3. req'[s] = [req[s] EXCEPT !.pc = "marker", !.st = "paid"]
      BY <1>10, <2>1 DEF Apply, TypeOK
    <3>4. req'[s].pc = "marker" /\ req'[s].p = req[s].p
      BY <3>3 DEF TypeOK, Handlers
    <3>. QED BY <3>1, <3>2, <3>4 DEF HandlerOK, MoneyReceived
  <2>. QED BY <1>5, <1>10, <2>1 DEF Apply, Leave, TypeOK
<1>11. CASE Confirm(s)
  BY <1>2, <1>11 DEF Confirm, HandlerOK, MoneyReceived, TypeOK
<1>12. CASE ReadMarker(s)
  <2>1. UNCHANGED <<order, confirmed>> /\ req[s].p \in Payments /\ MoneyReceived(req[s].p)
    BY <1>2, <1>12 DEF ReadMarker, HandlerOK, rows, history
  <2>2. CASE req' = [req EXCEPT ![s].pc = "activate"]
    <3>1. req'[s].pc = "activate" /\ req'[s].p = req[s].p
      BY <2>2 DEF TypeOK, Handlers
    <3>. QED BY <2>1, <3>1 DEF HandlerOK, MoneyReceived
  <2>. QED BY <1>5, <1>12, <2>2 DEF ReadMarker, Goto, Leave, TypeOK
<1>13. CASE ReadProject(s)
  <2>1. /\ UNCHANGED <<order, confirmed, extensions>>
        /\ req[s].p \in Payments /\ MoneyReceived(req[s].p) /\ req[s] \in Handlers
    BY <1>2, <1>13 DEF ReadProject, HandlerOK, history, TypeOK
  <2>2. CASE req' = [req EXCEPT ![s].pc = "resolve"] /\ project.last = req[s].p
    <3>1. req'[s].pc = "resolve" /\ req'[s].p = req[s].p
      BY <2>2 DEF TypeOK, Handlers
    <3>2. extensions[req[s].p] > 0
      BY <2>1, <2>2, SettlementAssumption DEF LastExtended
    <3>. QED BY <2>1, <3>1, <3>2 DEF HandlerOK
  <2>3. CASE req' = [req EXCEPT ![s].pc = "flag"]
    <3>1. req'[s].pc = "flag" /\ req'[s].p = req[s].p
      BY <2>3 DEF TypeOK, Handlers
    <3>. QED BY <2>1, <3>1 DEF HandlerOK
  <2>4. CASE req' = [req EXCEPT ![s].pc = "extend", ![s].proj = project]
             /\ req[s].p \notin Mismatched
    <3>1. req'[s] = [req[s] EXCEPT !.pc = "extend", !.proj = project]
      BY <2>4 DEF TypeOK
    <3>2. /\ req'[s].pc = "extend" /\ req'[s].p = req[s].p
          /\ req'[s].proj = project /\ project \in Projects
      BY <2>1, <3>1 DEF Handlers, TypeOK
    <3>. QED BY <2>1, <2>4, <3>2 DEF HandlerOK, MoneyReceived
  <2>. QED BY <1>13, <2>2, <2>3, <2>4 DEF ReadProject, Goto, OrderMismatch
<1>14. CASE Extend(s)
  BY <1>2, <1>14 DEF Extend, Goto, HandlerOK, TypeOK
<1>15. ASSUME NEW p \in Payments, RaiseRenewal(s, p) PROVE HandlerOK(s)'
  BY <1>15 DEF RaiseRenewal, HandlerOK, TypeOK
<1>. QED BY <1>3, <1>4, <1>6, <1>7, <1>8, <1>9, <1>10, <1>11, <1>12, <1>13, <1>14,
            <1>15 DEF Handle
\* What the properties say of the rows, step by step.
LEMMA Rows ==
  ASSUME IInv, Next
  PROVE  (PaidMeansMoney /\ AccessIsPaidFor /\ WonOnlyAfterActivation /\ LastExtended)'
<1> USE DEF IInv
<1>0. \A p \in Payments : /\ order[p] = "completed" => order'[p] = "completed"
                          /\ p \in confirmed => p \in confirmed'
                          /\ extensions[p] > 0 => extensions'[p] > 0
  BY Lasting
<1>1. ASSUME NEW p \in Payments, MoneyReceived(p) PROVE MoneyReceived(p)'
  BY <1>0, <1>1 DEF MoneyReceived
<1>2. PaidMeansMoney'
  <2> SUFFICES ASSUME NEW p \in Payments, status'[p] = "paid" PROVE MoneyReceived(p)'
    BY DEF PaidMeansMoney
  <2>1. CASE status[p] = "paid"
    BY <1>1, <2>1 DEF PaidMeansMoney
  <2>2. ASSUME status[p] # "paid", NEW r \in Requests, Confirm(r) PROVE MoneyReceived(p)'
    BY <2>2 DEF Confirm, MoneyReceived, TypeOK
  <2>3. ASSUME status[p] # "paid", NEW r \in Requests, Apply(r) PROVE MoneyReceived(p)'
    <3>1. req[r].p = p /\ StatusFor(p, req[r].seen, req[r].st) = "paid"
      BY <2>3 DEF Apply, Written, TypeOK
    <3>2. HandlerOK(r) /\ req[r].pc = "apply"
      BY <2>3 DEF Apply, HandlersOK
    <3>3. order[p] = "completed" /\ p \notin OddCaptures
      BY <3>1, <3>2 DEF StatusFor, HandlerOK
    <3>. QED BY <1>1, <3>3 DEF MoneyReceived
  <2>4. ASSUME NEW r \in Requests, CreateOrder(r) \/ NoteRenewal(r) \/ ReadProject(r)
        PROVE  status[p] = "paid"
    BY <2>4 DEF CreateOrder, NoteRenewal, ReadProject, TypeOK
  <2>5. ASSUME NEW r \in Requests, NEW q \in Payments, RaiseRenewal(r, q)
        PROVE  status[p] = "paid"
    BY <2>5 DEF RaiseRenewal, TypeOK
  <2>6. CASE Environment
    BY <2>1, <2>6 DEF Environment, Checkout, Approve, HeldCaptureEnds, Tick, Crash, rows, TypeOK
  <2>7. ASSUME NEW r \in Requests, Arrive(r) PROVE status' = status
    BY <2>7 DEF Arrive, BeginPoll, BeginWebhook, BeginConfirm, BeginPayPal, Begin,
                BeginRenewals, rows
  <2>8. ASSUME NEW r \in Requests,
               \/ Fetch(r) \/ GatewayFails(r) \/ ReadMarker(r) \/ Extend(r) \/ Decide(r)
               \/ Expire(r) \/ SkipRenewal(r)
        PROVE  status' = status
    BY <2>8 DEF Fetch, GatewayFails, ReadMarker, Extend, Decide, Expire, SkipRenewal, rows
  <2>. QED BY <2>1, <2>2, <2>3, <2>4, <2>5, <2>6, <2>7, <2>8 DEF Next, Handle
<1>3. ASSUME NEW r \in Requests, Extend(r)
      PROVE  (AccessIsPaidFor /\ WonOnlyAfterActivation /\ LastExtended)'
  <2>1. /\ req[r].p \in Payments /\ MoneyReceived(req[r].p)
        /\ req[r].p \notin Mismatched
    BY <1>3 DEF Extend, HandlersOK, HandlerOK
  <2>2. \A p \in Payments : extensions'[p] = IF p = req[r].p THEN extensions[p] + 1
                                                             ELSE extensions[p]
    BY <1>3 DEF Extend, TypeOK
  <2>3. extensions'[req[r].p] > 0 /\ project'.last = req[r].p
    BY <1>3, <2>1, <2>2 DEF Extend, TypeOK
  <2>4. won' = won /\ order' = order /\ confirmed' = confirmed
    BY <1>3 DEF Extend
  <2>5. AccessIsPaidFor'
    BY <2>1, <2>2, <2>4 DEF AccessIsPaidFor, MoneyReceived
  <2>. QED BY <1>0, <2>3, <2>4, <2>5 DEF WonOnlyAfterActivation, LastExtended, TypeOK
<1>4. ASSUME NEW r \in Requests, Decide(r)
      PROVE  (AccessIsPaidFor /\ WonOnlyAfterActivation /\ LastExtended)'
  <2>1. won' \subseteq won \cup {req[r].p}
    BY <1>4 DEF Decide
  <2>2. req[r].pc = "flag" => won' = won
    BY <1>4 DEF Decide
  <2>3. req[r].pc = "resolve" => extensions[req[r].p] > 0
    BY DEF HandlersOK, HandlerOK
  <2>4. UNCHANGED <<order, project, confirmed, extensions>> /\ req[r].pc \in {"resolve", "flag"}
    BY <1>4 DEF Decide, history
  <2>. QED BY <2>1, <2>2, <2>3, <2>4
       DEF AccessIsPaidFor, WonOnlyAfterActivation, LastExtended, MoneyReceived
<1>5. ASSUME UNCHANGED <<extensions, won>>, project'.last = project.last
      PROVE  (AccessIsPaidFor /\ WonOnlyAfterActivation /\ LastExtended)'
  <2>1. AccessIsPaidFor'
    BY <1>0, <1>5 DEF AccessIsPaidFor, MoneyReceived
  <2>. QED BY <1>5, <2>1 DEF WonOnlyAfterActivation, LastExtended
<1>6. ASSUME Environment PROVE UNCHANGED <<extensions, won, project>>
  BY <1>6 DEF Environment, Checkout, Approve, HeldCaptureEnds, Tick, Crash, rows, history
<1>7. ASSUME NEW r \in Requests, Arrive(r) PROVE UNCHANGED <<extensions, won, project>>
  BY <1>7 DEF Arrive, BeginPoll, BeginWebhook, BeginConfirm, BeginPayPal, Begin,
              BeginRenewals, rows, history
<1>8. ASSUME NEW r \in Requests, Expire(r) \/ NoteRenewal(r)
      PROVE  UNCHANGED <<extensions, won>> /\ project'.last = project.last
  BY <1>8 DEF Expire, NoteRenewal, history, TypeOK, Projects
<1>9. ASSUME NEW r \in Requests,
             \/ CreateOrder(r) \/ Fetch(r) \/ GatewayFails(r) \/ Apply(r) \/ Confirm(r)
             \/ ReadMarker(r) \/ ReadProject(r) \/ SkipRenewal(r)
             \/ \E p \in Payments : RaiseRenewal(r, p)
      PROVE  UNCHANGED <<extensions, won, project>>
  BY <1>9 DEF CreateOrder, Fetch, GatewayFails, Apply, Confirm, ReadMarker, ReadProject,
              SkipRenewal, RaiseRenewal, rows, history
<1>10. (AccessIsPaidFor /\ WonOnlyAfterActivation /\ LastExtended)'
  BY <1>3, <1>4, <1>5, <1>6, <1>7, <1>8, <1>9 DEF Next, Handle
<1>. QED BY <1>2, <1>10

LEMMA Inductive == IInv /\ [Next]_vars => IInv'
<1> SUFFICES ASSUME IInv, [Next]_vars PROVE IInv'
  OBVIOUS
<1>1. CASE Next
  BY <1>1, Types, HandlersLearn, Rows DEF IInv
<1>2. CASE UNCHANGED vars
  <2> USE <1>2 DEF IInv, vars, rows, history
  <2>1. TypeOK'
    BY DEF TypeOK
  <2>2. HandlersOK'
    BY OthersKeep DEF HandlersOK
  <2>3. (PaidMeansMoney /\ AccessIsPaidFor /\ WonOnlyAfterActivation /\ LastExtended)'
    BY DEF PaidMeansMoney, AccessIsPaidFor, WonOnlyAfterActivation, LastExtended,
           MoneyReceived
  <2>. QED BY <2>1, <2>2, <2>3
<1>. QED BY <1>1, <1>2

\* The strengthened invariant holds in every reachable state.
THEOREM Invariance == Spec => []IInv
BY Initially, Inductive, PTL DEF Spec

\* Every row and every handler's session keeps its type.
THEOREM TypeCorrect == Spec => []TypeOK
BY Invariance, PTL DEF IInv

\* An order reads "paid" only if PayPal captured the amount stored for it or the
\* owner confirmed the transfer, whatever stale sessions write over one another.
THEOREM NothingPaidWithoutMoney == Spec => []PaidMeansMoney
BY Invariance, PTL DEF IInv

\* Only received money for the project's own configuration extends its period.
THEOREM NoAccessWithoutMoney == Spec => []AccessIsPaidFor
BY Invariance, PTL DEF IInv

\* A lead is won and a decision resolved only after the activation.
THEOREM ActivationComesFirst == Spec => []WonOnlyAfterActivation
BY Invariance, PTL DEF IInv

-----------------------------------------------------------------------------
(* One handler at a time: what a session read is what the rows still say *)

Alone == \A r, s \in InFlight : r = s

\* A handler's session is not stale while no other handler runs.
SessionOK(r) ==
  LET h == req[r] IN
  /\ h.pc \notin {"idle", "expire", "renew"} => status[h.p] # "none"
  /\ h.pc \in {"create", "fetch", "apply"} => h.st = status[h.p] /\ ~Decided(h.st)
  /\ h.pc \in {"fetch", "apply"} => order[h.p] # "none"
  /\ h.pc = "confirm" => order[h.p] = "none"
  /\ h.pc = "note" => status[h.p] = "pending" /\ order[h.p] = "none"

SessionsOK == \A r \in Requests : SessionOK(r)

\* An order without a row is unknown to PayPal, a confirmed one stays so.
Unknown ==
  \A p \in Payments :
    /\ status[p] = "none" => order[p] = "none"
    /\ p \in confirmed => order[p] = "none" /\ Decided(status[p])

SerialInv == IInv /\ Alone /\ SessionsOK /\ Unknown

\* While handler r runs the others are idle, and they stay so.
LEMMA OthersIdle ==
  ASSUME TypeOK, Alone, NEW r \in Requests, Handle(r)
  PROVE  /\ req[r].pc # "idle"
         /\ \A s \in Requests : s # r => req[s].pc = "idle" /\ req'[s] = req[s]
<1>1. req[r].pc # "idle"
  BY DEF Handle, CreateOrder, Fetch, GatewayFails, Apply, Confirm, ReadMarker, ReadProject,
         Extend, Decide, Expire, SkipRenewal, NoteRenewal, RaiseRenewal
<1>2. ASSUME NEW s \in Requests, s # r PROVE req'[s] = req[s]
  BY <1>2 DEF Handle, CreateOrder, Fetch, GatewayFails, Apply, Confirm, ReadMarker,
              ReadProject, Extend, Decide, Expire, SkipRenewal, NoteRenewal, RaiseRenewal,
              Leave, Goto, TypeOK
<1>. QED BY <1>1, <1>2 DEF Alone, InFlight

\* Where a payment handler stops first, and what it has read there.
FirstStops == {"marker", "fetch", "confirm", "create"}
Session(kind, p, pc) ==
  [Idle EXCEPT !.pc = pc, !.kind = kind, !.p = p, !.st = status[p]]
Read(r, kind, p, pc) ==
  /\ req'[r] = Session(kind, p, pc)
  /\ status[p] # "none"
  /\ pc \in {"fetch", "create"} => ~Decided(status[p])
  /\ pc = "fetch" => order[p] # "none"
  /\ pc = "confirm" => order[p] = "none"

\* A handler arrives when none is in flight, and the rows stay as it read them.
LEMMA FirstRead ==
  ASSUME TypeOK, MaxInFlight = 1, NEW r \in Requests, Arrive(r)
  PROVE  /\ UNCHANGED <<rows, now, faults, history>>
         /\ \A s \in Requests : req[s].pc = "idle"
         /\ \A s \in Requests : s # r => req'[s] = req[s]
         /\ \/ BeginRenewals(r)
            \/ \E kind \in Kinds, p \in Payments, pc \in FirstStops : Read(r, kind, p, pc)
<1>1. Cardinality(InFlight) < 1 => InFlight = {}
  <2>1. IsFiniteSet(InFlight)
    BY FS_Subset, SettlementAssumption DEF InFlight
  <2>. QED BY <2>1, FS_CardinalityType, FS_EmptySet
<1>2. CASE BeginRenewals(r)
  BY <1>1, <1>2 DEF BeginRenewals, InFlight, TypeOK
<1>3. ASSUME NEW p \in Payments,
             \/ BeginPoll(r, p) \/ BeginWebhook(r, p)
             \/ BeginConfirm(r, p) \/ BeginPayPal(r, p)
      PROVE  \E kind \in Kinds, pc \in FirstStops :
               /\ Begin(r, kind, p, pc)
               /\ pc \in {"fetch", "create"} => ~Decided(status[p])
               /\ pc = "fetch" => order[p] # "none"
               /\ pc = "confirm" => order[p] = "none"
  BY <1>3 DEF BeginPoll, BeginWebhook, BeginConfirm, BeginPayPal, Begin, FirstStops
<1>4. ASSUME NEW kind \in Kinds, NEW p \in Payments, NEW pc \in FirstStops, Begin(r, kind, p, pc)
      PROVE  /\ UNCHANGED <<rows, now, faults, history>>
             /\ \A s \in Requests : req[s].pc = "idle"
             /\ \A s \in Requests : s # r => req'[s] = req[s]
             /\ req'[r] = Session(kind, p, pc)
             /\ status[p] # "none"
  BY <1>1, <1>4 DEF Begin, InFlight, TypeOK, Session
<1>5. CASE \E p \in Payments : BeginPoll(r, p) \/ BeginWebhook(r, p)
                               \/ BeginConfirm(r, p) \/ BeginPayPal(r, p)
  <2>1. PICK p \in Payments, kind \in Kinds, pc \in FirstStops :
          /\ Begin(r, kind, p, pc)
          /\ pc \in {"fetch", "create"} => ~Decided(status[p])
          /\ pc = "fetch" => order[p] # "none"
          /\ pc = "confirm" => order[p] = "none"
    BY <1>3, <1>5
  <2>2. /\ UNCHANGED <<rows, now, faults, history>>
        /\ \A s \in Requests : req[s].pc = "idle"
        /\ \A s \in Requests : s # r => req'[s] = req[s]
        /\ Read(r, kind, p, pc)
    BY <1>4, <2>1 DEF Read
  <2>. QED BY <2>2
<1>. QED BY <1>2, <1>5 DEF Arrive

\* What a step of a lone handler can do to an order's row and to PayPal's order.
LEMMA RowSteps ==
  ASSUME SerialInv, [Next]_vars, NEW p \in Payments
  PROVE  /\ status'[p] = "none" => status[p] = "none"
         /\ status[p] \in {"paid", "review"} /\ status'[p] # status[p] =>
              \/ status[p] = "paid" /\ status'[p] = "review" /\ p \in Mismatched
              \/ status'[p] = "paid" /\ p \in confirmed'
         /\ order'[p] = "none" => order[p] = "none"
         /\ order[p] = "none" /\ order'[p] # "none" =>
              status[p] # "none" /\ ~Decided(status[p])
         /\ p \in confirmed' =>
              p \in confirmed \/ (order[p] = "none" /\ order' = order /\ status'[p] = "paid")
<1> DEFINE Goal == /\ status'[p] = "none" => status[p] = "none"
                   /\ status[p] \in {"paid", "review"} /\ status'[p] # status[p] =>
                        \/ status[p] = "paid" /\ status'[p] = "review" /\ p \in Mismatched
                        \/ status'[p] = "paid" /\ p \in confirmed'
                   /\ order'[p] = "none" => order[p] = "none"
                   /\ order[p] = "none" /\ order'[p] # "none" =>
                        status[p] # "none" /\ ~Decided(status[p])
                   /\ p \in confirmed' =>
                        p \in confirmed
                        \/ (order[p] = "none" /\ order' = order /\ status'[p] = "paid")
<1> USE DEF SerialInv, IInv, TypeOK
<1>1. CASE UNCHANGED <<status, order, confirmed>>
  BY <1>1
<1>2. CASE Environment
  BY <1>2 DEF Environment, Checkout, Approve, HeldCaptureEnds, Tick, Crash, rows, history
<1>3. ASSUME NEW r \in Requests, Arrive(r) PROVE Goal
  BY <1>1, <1>3 DEF Arrive, BeginPoll, BeginWebhook, BeginConfirm, BeginPayPal, Begin,
                    BeginRenewals, rows, history
<1>4. ASSUME NEW r \in Requests, Handle(r) PROVE Goal
  <2>0. HandlerOK(r) /\ SessionOK(r)
    BY DEF HandlersOK, SessionsOK
  <2>1. CASE CreateOrder(r)
    BY <2>0, <2>1 DEF CreateOrder, HandlerOK, SessionOK, Decided, history
  <2>2. CASE Fetch(r) \/ GatewayFails(r)
    <3>1. UNCHANGED <<status, confirmed>>
      BY <2>2 DEF Fetch, GatewayFails, history
    <3>2. order'[p] = "none" <=> order[p] = "none"
      BY <2>0, <2>2 DEF Fetch, GatewayFails, Answers, HandlerOK, SessionOK
    <3>. QED BY <3>1, <3>2
  <2>3. CASE Apply(r)
    <3>1. UNCHANGED <<order, confirmed>> /\ req[r].p \in Payments
          /\ req[r].st = status[req[r].p] /\ ~Decided(status[req[r].p])
          /\ status[req[r].p] # "none"
      BY <2>0, <2>3 DEF Apply, HandlerOK, SessionOK, history
    <3>2. StatusFor(req[r].p, req[r].seen, req[r].st) # "none"
      BY <3>1 DEF StatusFor
    <3>. QED BY <2>3, <3>1, <3>2 DEF Apply, Written, Decided
  <2>4. CASE Confirm(r)
    BY <2>0, <2>4 DEF Confirm, HandlerOK, SessionOK
  <2>5. CASE ReadProject(r)
    BY <2>0, <2>5 DEF ReadProject, OrderMismatch, HandlerOK, history
  <2>6. CASE NoteRenewal(r)
    BY <2>0, <2>6 DEF NoteRenewal, HandlerOK, SessionOK, history
  <2>7. CASE \E q \in Payments : RaiseRenewal(r, q)
    BY <2>7 DEF RaiseRenewal
  <2>8. CASE \/ ReadMarker(r) \/ Extend(r) \/ Decide(r) \/ Expire(r) \/ SkipRenewal(r)
    BY <1>1, <2>8 DEF ReadMarker, Extend, Decide, Expire, SkipRenewal, rows, history
  <2>. QED BY <1>4, <2>1, <2>2, <2>3, <2>4, <2>5, <2>6, <2>7, <2>8 DEF Handle
<1>5. CASE UNCHANGED vars
  BY <1>1, <1>5 DEF vars, rows, history
<1>. QED BY <1>2, <1>3, <1>4, <1>5 DEF Next

\* A lone handler knows at its next stop what the rows say there.
LEMMA SessionKeeps ==
  ASSUME SerialInv, NEW r \in Requests, Handle(r)
  PROVE  SessionOK(r)'
<1> USE DEF SerialInv, IInv, TypeOK
<1>0. HandlerOK(r) /\ SessionOK(r) /\ req[r] \in Handlers
  BY DEF HandlersOK, SessionsOK
<1>1. CASE req'[r] = Idle
  BY <1>1 DEF SessionOK, Idle
<1>2. ASSUME NEW pc \in {"marker", "activate", "extend", "resolve", "flag"},
             req'[r].pc = pc, req'[r].p = req[r].p, status'[req[r].p] # "none"
      PROVE  SessionOK(r)'
  BY <1>2 DEF SessionOK
<1>3. CASE \/ CreateOrder(r) \/ GatewayFails(r) \/ Decide(r) \/ Expire(r)
           \/ SkipRenewal(r) \/ NoteRenewal(r)
  BY <1>1, <1>3 DEF CreateOrder, GatewayFails, Decide, Expire, SkipRenewal, NoteRenewal, Leave
<1>4. CASE Fetch(r)
  <2>1. /\ req[r].p \in Payments /\ status[req[r].p] # "none" /\ order[req[r].p] # "none"
        /\ req[r].st = status[req[r].p] /\ ~Decided(req[r].st) /\ status' = status
    BY <1>0, <1>4 DEF Fetch, HandlerOK, SessionOK
  <2>2. PICK answer \in Answers(r) :
          /\ order' = [order EXCEPT ![req[r].p] = answer]
          /\ req' = [req EXCEPT ![r].pc = "apply", ![r].seen = answer]
    BY <1>4 DEF Fetch
  <2>3. answer # "none" /\ order'[req[r].p] = answer
    BY <2>1, <2>2 DEF Answers
  <2>4. req'[r].pc = "apply" /\ req'[r].p = req[r].p /\ req'[r].st = req[r].st
    BY <1>0, <2>2 DEF Handlers
  <2>. QED BY <2>1, <2>3, <2>4 DEF SessionOK
<1>5. CASE Apply(r)
  <2>1. CASE StatusFor(req[r].p, req[r].seen, req[r].st) = "paid"
    <3>1. req'[r].pc = "marker" /\ req'[r].p = req[r].p
      BY <1>0, <1>5, <2>1 DEF Apply, Handlers
    <3>2. status'[req[r].p] # "none"
      BY <1>0, <1>5, <2>1 DEF Apply, Written, HandlerOK, SessionOK
    <3>. QED BY <1>2, <3>1, <3>2
  <2>. QED BY <1>1, <1>5, <2>1 DEF Apply, Leave
<1>6. CASE Confirm(r)
  <2>1. req'[r].pc = "marker" /\ req'[r].p = req[r].p
    BY <1>0, <1>6 DEF Confirm, Handlers
  <2>2. status'[req[r].p] # "none"
    BY <1>0, <1>6 DEF Confirm, HandlerOK
  <2>. QED BY <1>2, <2>1, <2>2
<1>7. CASE ReadMarker(r) \/ ReadProject(r) \/ Extend(r)
  <2>1. status'[req[r].p] # "none"
    BY <1>0, <1>7 DEF ReadMarker, ReadProject, Extend, HandlerOK, SessionOK, rows
  <2>2. ASSUME NEW pc \in {"activate", "resolve", "flag"}, Goto(r, pc)
        PROVE  SessionOK(r)'
    <3>1. req'[r].pc = pc /\ req'[r].p = req[r].p
      BY <1>0, <2>2 DEF Goto, Handlers
    <3>. QED BY <1>2, <2>1, <3>1
  <2>3. CASE req' = [req EXCEPT ![r].pc = "extend", ![r].proj = project]
    <3>1. req'[r].pc = "extend" /\ req'[r].p = req[r].p
      BY <1>0, <2>3 DEF Handlers
    <3>. QED BY <1>2, <2>1, <3>1
  <2>. QED BY <1>1, <1>7, <2>2, <2>3 DEF ReadMarker, ReadProject, Extend, Leave
<1>8. ASSUME NEW p \in Payments, RaiseRenewal(r, p) PROVE SessionOK(r)'
  <2>1. req'[r].pc = "note" /\ req'[r].p = p
    BY <1>0, <1>8 DEF RaiseRenewal, Handlers
  <2>2. status'[p] = "pending" /\ order'[p] = "none"
    BY <1>8 DEF RaiseRenewal, Unknown
  <2>. QED BY <2>1, <2>2 DEF SessionOK
<1>. QED BY <1>3, <1>4, <1>5, <1>6, <1>7, <1>8 DEF Handle

LEMMA SerialInductive ==
  ASSUME MaxInFlight = 1, SerialInv, [Next]_vars
  PROVE  SerialInv'
<1> USE DEF SerialInv
<1>1. IInv'
  BY Inductive
<1>2. Unknown'
  <2> SUFFICES ASSUME NEW p \in Payments
               PROVE  /\ status'[p] = "none" => order'[p] = "none"
                      /\ p \in confirmed' => order'[p] = "none" /\ Decided(status'[p])
    BY DEF Unknown, Decided
  <2>. QED BY RowSteps DEF Unknown, Decided
<1>3. CASE req' = req
  <2>1. Alone'
    BY <1>3 DEF Alone, InFlight
  <2>2. ASSUME NEW r \in Requests PROVE SessionOK(r)'
    <3>1. CASE UNCHANGED rows
      BY <1>3, <3>1 DEF SessionOK, SessionsOK, rows
    <3>2. CASE Environment
      <4>0. HandlerOK(r) /\ SessionOK(r)
        BY DEF IInv, HandlersOK, SessionsOK
      <4>1. ASSUME NEW p \in Payments, status[p] # "none"
            PROVE  status'[p] = status[p]
        BY <3>2, <4>1 DEF Environment, Checkout, Approve, HeldCaptureEnds, Tick, Crash, rows,
                          IInv, TypeOK
      <4>2. ASSUME NEW p \in Payments
            PROVE  order'[p] = "none" <=> order[p] = "none"
        BY <3>2 DEF Environment, Checkout, Approve, HeldCaptureEnds, Tick, Crash, rows,
                    IInv, TypeOK
      <4>. QED BY <1>3, <4>0, <4>1, <4>2 DEF SessionOK, HandlerOK
    <3>3. CASE \E s \in Requests : Arrive(s)
      BY <3>1, <3>3, FirstRead DEF IInv
    <3>4. ASSUME NEW s \in Requests, Handle(s) PROVE SessionOK(r)'
      <4>1. CASE s = r
        BY <3>4, <4>1, SessionKeeps
      <4>2. CASE s # r
        BY <3>4, <4>2, OthersIdle DEF IInv, SessionOK
      <4>. QED BY <4>1, <4>2
    <3>. QED BY <3>1, <3>2, <3>3, <3>4 DEF Next, vars
  <2>. QED BY <1>1, <1>2, <2>1, <2>2 DEF SessionsOK
<1>4. CASE Environment /\ req' # req
  <2>1. req' = [r \in Requests |-> Idle]
    BY <1>4 DEF Environment, Checkout, Approve, HeldCaptureEnds, Tick, Crash
  <2>2. Alone' /\ SessionsOK'
    BY <2>1 DEF Alone, InFlight, SessionsOK, SessionOK, Idle
  <2>. QED BY <1>1, <1>2, <2>2
<1>5. ASSUME NEW r \in Requests, Arrive(r) PROVE Alone' /\ SessionsOK'
  <2>1. /\ UNCHANGED rows
        /\ \A s \in Requests : s # r => req'[s].pc = "idle"
    BY <1>5, FirstRead DEF IInv
  <2>2. SessionOK(r)'
    <3>1. CASE BeginRenewals(r)
      BY <3>1 DEF BeginRenewals, SessionOK, Idle, IInv, TypeOK
    <3>2. CASE ~BeginRenewals(r)
      <4>1. PICK kind \in Kinds, p \in Payments, pc \in FirstStops : Read(r, kind, p, pc)
        BY <1>5, <3>2, FirstRead DEF IInv
      <4>2. req'[r].pc = pc /\ req'[r].p = p /\ req'[r].st = status[p]
        BY <4>1 DEF Read, Session, Idle
      <4>. QED BY <2>1, <4>1, <4>2 DEF Read, FirstStops, SessionOK, rows
    <3>. QED BY <3>1, <3>2
  <2>3. ASSUME NEW s \in Requests, s # r PROVE SessionOK(s)'
    BY <2>1, <2>3 DEF SessionOK
  <2>. QED BY <2>1, <2>2, <2>3 DEF Alone, InFlight, SessionsOK
<1>6. ASSUME NEW r \in Requests, Handle(r) PROVE Alone' /\ SessionsOK'
  <2>1. \A s \in Requests : s # r => req'[s].pc = "idle"
    BY <1>6, OthersIdle DEF IInv
  <2>2. ASSUME NEW s \in Requests, s # r PROVE SessionOK(s)'
    BY <2>1, <2>2 DEF SessionOK
  <2>. QED BY <1>6, <2>1, <2>2, SessionKeeps DEF Alone, InFlight, SessionsOK
<1>. QED BY <1>1, <1>2, <1>3, <1>4, <1>5, <1>6 DEF Next, vars

LEMMA SerialInitially == Init => SerialInv
<1> SUFFICES ASSUME Init PROVE SerialInv
  OBVIOUS
<1>1. Alone /\ SessionsOK /\ Unknown
  BY DEF Init, Alone, InFlight, SessionsOK, SessionOK, Unknown, Idle
<1>. QED BY <1>1, Initially DEF SerialInv

\* With one handler at a time no order is both confirmed as a transfer and
\* captured by PayPal, whatever restarts and failed gateway calls there are.
THEOREM OneWayOfPaying == ASSUME MaxInFlight = 1 PROVE Spec => []NeverChargedTwice
<1>1. SerialInv /\ [Next]_vars => SerialInv'
  BY SerialInductive
<1>2. SerialInv => NeverChargedTwice
  BY DEF SerialInv, Unknown, NeverChargedTwice
<1>. QED BY <1>1, <1>2, SerialInitially, PTL DEF Spec

\* With one handler at a time a settled or flagged order is re-decided only by
\* a refused activation and by the owner.
THEOREM DecisionsLast == ASSUME MaxInFlight = 1 PROVE Spec => SettledIsNotRedecided
<1>1. SerialInv /\ [Next]_vars => SerialInv'
  BY SerialInductive
<1>2. SerialInv /\ [Next]_vars =>
        [\A p \in Payments : status[p] \in {"paid", "review"} /\ status'[p] # status[p] =>
            \/ status[p] = "paid" /\ status'[p] = "review" /\ p \in Mismatched
            \/ status'[p] = "paid" /\ p \in confirmed']_vars
  BY RowSteps
<1>. QED BY <1>1, <1>2, SerialInitially, PTL DEF Spec, SettledIsNotRedecided

-----------------------------------------------------------------------------
(* ... and no restart: a handler that began ends *)

\* What a lone handler that nothing interrupts knows of the other rows.
PlanOK(r) ==
  LET h == req[r] IN
  /\ h.pc \in {"activate", "extend"} => decisions[h.p] = 0
  /\ h.pc \in {"extend", "expire", "renew"} => h.proj = project
  /\ h.pc = "expire" => project.status = "active" /\ now > project.end + Grace
  /\ h.pc = "renew" => project.end # 0
  /\ h.pc = "note" => project.end # 0 /\ raisedFor[h.p] = project.end

PlansOK == \A r \in Requests : PlanOK(r)

\* An order that extended the period is decided, or is about to be.
ExtendedIsDecided ==
  \A p \in Payments : extensions[p] > 0 =>
    decisions[p] > 0 \/ \E r \in Requests : req[r].pc = "resolve" /\ req[r].p = p

\* Only PayPal makes an order fail, and only a raised order is for a period.
OrderFacts ==
  \A p \in Payments :
    /\ status[p] = "none" => raisedFor[p] = 0
    /\ status[p] = "failed" => order[p] # "none"
    /\ raisedFor[p] # 0 => p \in Renewals

\* Nothing is raised for a later period than the current one, and the open order
\* raised for the current one is the one on the project, or about to be.
RaisedIsNoted ==
  \A p \in Payments :
    /\ raisedFor[p] <= project.end
    /\ raisedFor[p] # 0 /\ raisedFor[p] = project.end /\ order[p] = "none" =>
         project.renewal = p \/ \E r \in Requests : req[r].pc = "note" /\ req[r].p = p

SteadyInv == /\ SerialInv /\ PlansOK /\ ExtendedIsDecided
             /\ OrderFacts /\ RaisedIsNoted /\ OneRenewalPerPeriod

\* An extension moves the end of the period forward, early or late.
LEMMA PeriodsGrow ==
  ASSUME NEW end \in Nat, now \in Nat
  PROVE  NewEnd(end) \in Nat /\ NewEnd(end) > end
BY SettlementAssumption DEF NewEnd

\* Without restarts a step of the environment writes no session.
LEMMA NobodyStops ==
  ASSUME MaxCrashes = 0, TypeOK, Environment
  PROVE  /\ UNCHANGED <<project, decisions, won, req, history>>
         /\ now' \in Nat /\ now' >= now
         /\ \A p \in Payments :
              /\ order'[p] = "none" => order[p] = "none"
              /\ status'[p] = status[p]
                 \/ (p \notin Renewals /\ status'[p] \in {"pending", "invoice"})
<1>1. ~Crash
  BY DEF Crash, TypeOK
<1>. QED BY <1>1 DEF Environment, Checkout, Approve, HeldCaptureEnds, Tick, rows, history, TypeOK

\* A handler that goes on from where only its own order matters.
LEMMA PlanKeeps ==
  ASSUME SteadyInv, NEW r \in Requests, Handle(r)
  PROVE  PlanOK(r)'
<1> USE DEF SteadyInv, SerialInv, IInv, TypeOK
<1>0. HandlerOK(r) /\ SessionOK(r) /\ PlanOK(r) /\ req[r] \in Handlers
  BY DEF HandlersOK, SessionsOK, PlansOK
<1>1. CASE req'[r] = Idle
  BY <1>1 DEF PlanOK, Idle
<1>2. CASE req'[r].pc \in {"apply", "marker", "resolve", "flag"}
  BY <1>2 DEF PlanOK
<1>3. CASE \/ CreateOrder(r) \/ GatewayFails(r) \/ Decide(r) \/ Expire(r)
           \/ SkipRenewal(r) \/ NoteRenewal(r)
  BY <1>1, <1>3 DEF CreateOrder, GatewayFails, Decide, Expire, SkipRenewal, NoteRenewal, Leave
<1>4. CASE Fetch(r) \/ Apply(r) \/ Confirm(r) \/ Extend(r)
  <2>1. req'[r] = Idle \/ req'[r].pc \in {"apply", "marker", "resolve"}
    BY <1>0, <1>4 DEF Fetch, Apply, Confirm, Extend, Goto, Leave, Handlers
  <2>. QED BY <1>1, <1>2, <2>1
<1>5. CASE ReadMarker(r)
  <2>1. CASE Leave(r)
    BY <1>1, <2>1 DEF Leave
  <2>2. CASE ~Leave(r)
    <3>1. req'[r].pc = "activate" /\ req'[r].p = req[r].p /\ decisions[req[r].p] = 0
          /\ decisions' = decisions
      BY <1>0, <1>5, <2>2 DEF ReadMarker, Goto, Handlers, rows
    <3>. QED BY <3>1 DEF PlanOK
  <2>. QED BY <2>1, <2>2
<1>6. CASE ReadProject(r)
  <2>0. decisions[req[r].p] = 0 /\ decisions' = decisions /\ project' = project
    BY <1>0, <1>6 DEF ReadProject, PlanOK
  <2>1. CASE \E pc \in {"resolve", "flag"} : Goto(r, pc)
    <3>1. req'[r].pc \in {"resolve", "flag"}
      BY <1>0, <2>1 DEF Goto, Handlers
    <3>. QED BY <1>2, <3>1
  <2>2. CASE req' = [req EXCEPT ![r].pc = "extend", ![r].proj = project]
    <3>1. req'[r].pc = "extend" /\ req'[r].p = req[r].p /\ req'[r].proj = project
      BY <1>0, <2>2 DEF Handlers
    <3>. QED BY <2>0, <3>1 DEF PlanOK
  <2>. QED BY <1>6, <2>1, <2>2 DEF ReadProject
<1>7. ASSUME NEW p \in Payments, RaiseRenewal(r, p) PROVE PlanOK(r)'
  <2>1. req'[r].pc = "note" /\ req'[r].p = p
    BY <1>0, <1>7 DEF RaiseRenewal, Handlers
  <2>2. project' = project /\ req[r].proj = project /\ project.end # 0
    BY <1>0, <1>7 DEF RaiseRenewal, PlanOK
  <2>3. raisedFor'[p] = project.end
    BY <1>7, <2>2 DEF RaiseRenewal
  <2>. QED BY <2>1, <2>2, <2>3 DEF PlanOK
<1>. QED BY <1>3, <1>4, <1>5, <1>6, <1>7 DEF Handle

LEMMA PlansInductive ==
  ASSUME MaxInFlight = 1, MaxCrashes = 0, SteadyInv, [Next]_vars
  PROVE  PlansOK'
<1> SUFFICES ASSUME NEW r \in Requests PROVE PlanOK(r)'
  BY DEF PlansOK
<1> USE DEF SteadyInv, SerialInv
<1>0. TypeOK /\ HandlerOK(r) /\ SessionOK(r) /\ PlanOK(r)
  BY DEF IInv, HandlersOK, SessionsOK, PlansOK
<1>1. CASE Environment
  <2>1. /\ UNCHANGED <<project, decisions, req, raisedFor>>
        /\ now' \in Nat /\ now' >= now /\ now \in Nat /\ project.end \in Nat
    BY <1>0, <1>1, NobodyStops DEF TypeOK, Projects, history
  <2>. QED BY <1>0, <2>1, SettlementAssumption DEF PlanOK
<1>2. ASSUME NEW s \in Requests, Arrive(s) PROVE PlanOK(r)'
  <2>1. UNCHANGED <<rows, now, faults, history>>
    BY <1>0, <1>2, FirstRead
  <2>2. CASE r # s
    BY <1>0, <1>2, <2>2, FirstRead DEF PlanOK
  <2>3. CASE r = s /\ BeginRenewals(s)
    BY <1>0, <2>1, <2>3 DEF BeginRenewals, PlanOK, Idle, TypeOK, rows
  <2>4. CASE r = s /\ ~BeginRenewals(s)
    <3>1. PICK kind \in Kinds, p \in Payments, pc \in FirstStops : Read(s, kind, p, pc)
      BY <1>0, <1>2, <2>4, FirstRead
    <3>2. req'[r].pc \in FirstStops
      BY <2>4, <3>1 DEF Read, Session, Idle
    <3>. QED BY <3>2 DEF PlanOK, FirstStops
  <2>. QED BY <2>2, <2>3, <2>4
<1>3. ASSUME NEW s \in Requests, Handle(s) PROVE PlanOK(r)'
  <2>1. CASE r = s
    BY <1>3, <2>1, PlanKeeps
  <2>2. CASE r # s
    BY <1>0, <1>3, <2>2, OthersIdle DEF PlanOK
  <2>. QED BY <2>1, <2>2
<1>4. CASE UNCHANGED vars
  BY <1>0, <1>4 DEF PlanOK, vars, rows, history
<1>. QED BY <1>1, <1>2, <1>3, <1>4 DEF Next

LEMMA DecidedInductive ==
  ASSUME MaxInFlight = 1, MaxCrashes = 0, SteadyInv, [Next]_vars
  PROVE  ExtendedIsDecided'
<1> SUFFICES ASSUME NEW p \in Payments, extensions'[p] > 0
             PROVE  decisions'[p] > 0 \/ \E r \in Requests : req'[r].pc = "resolve" /\ req'[r].p = p
  BY DEF ExtendedIsDecided
<1> USE DEF SteadyInv, SerialInv, IInv
<1>1. CASE UNCHANGED <<extensions, decisions, req>>
  BY <1>1 DEF ExtendedIsDecided
<1>2. CASE Environment
  BY <1>1, <1>2, NobodyStops DEF history
<1>3. ASSUME NEW s \in Requests, Arrive(s) PROVE decisions'[p] > 0
  BY <1>3, FirstRead DEF ExtendedIsDecided, rows, history
<1>4. ASSUME NEW s \in Requests, Handle(s)
      PROVE  decisions'[p] > 0 \/ \E r \in Requests : req'[r].pc = "resolve" /\ req'[r].p = p
  <2>0. /\ \A r \in Requests : r # s => req[r].pc = "idle"
        /\ req[s] \in Handlers /\ HandlerOK(s) /\ decisions \in [Payments -> Nat]
        /\ extensions \in [Payments -> Nat]
    BY <1>4, OthersIdle DEF TypeOK, HandlersOK
  <2>1. CASE Decide(s)
    <3>1. extensions' = extensions /\ req[s].p \in Payments
      BY <2>0, <2>1 DEF Decide, HandlerOK, history
    <3>. QED BY <2>0, <2>1, <3>1 DEF Decide, ExtendedIsDecided
  <2>2. CASE Extend(s)
    <3>1. req'[s].pc = "resolve" /\ req'[s].p = req[s].p
      BY <2>0, <2>2 DEF Extend, Goto, Handlers, TypeOK
    <3>2. p # req[s].p => extensions'[p] = extensions[p]
      BY <2>0, <2>2 DEF Extend
    <3>3. decisions' = decisions /\ req[s].pc = "extend"
      BY <2>2 DEF Extend
    <3>. QED BY <2>0, <3>1, <3>2, <3>3 DEF ExtendedIsDecided
  <2>3. CASE ~Decide(s) /\ ~Extend(s)
    <3>1. UNCHANGED <<extensions, decisions>> /\ req[s].pc # "resolve"
      BY <1>4, <2>3 DEF Handle, CreateOrder, Fetch, GatewayFails, Apply, Confirm, ReadMarker,
         ReadProject, Expire, SkipRenewal, NoteRenewal, RaiseRenewal, rows, history
    <3>. QED BY <2>0, <3>1 DEF ExtendedIsDecided
  <2>. QED BY <2>1, <2>2, <2>3
<1>. QED BY <1>1, <1>2, <1>3, <1>4 DEF Next, vars, rows, history

LEMMA RenewalsInductive ==
  ASSUME MaxInFlight = 1, MaxCrashes = 0, SteadyInv, [Next]_vars
  PROVE  (OrderFacts /\ RaisedIsNoted /\ OneRenewalPerPeriod)'
<1> USE DEF SteadyInv, SerialInv, IInv
<1>0. /\ project \in Projects /\ raisedFor \in [Payments -> Nat]
      /\ Renewals \subseteq Payments
      /\ \A p \in Payments : /\ status'[p] = "none" => status[p] = "none"
                             /\ order'[p] = "none" => order[p] = "none"
  BY RowSteps, SettlementAssumption DEF TypeOK
<1>1. ASSUME NEW p \in Payments, status'[p] = "failed", status[p] # "failed"
      PROVE  order[p] # "none"
  <2>1. ASSUME NEW s \in Requests, Apply(s) PROVE order[p] # "none"
    <3>1. HandlerOK(s) /\ SessionOK(s)
      BY DEF HandlersOK, SessionsOK
    <3>2. req[s].p = p
      BY <1>1, <2>1, <3>1 DEF Apply, HandlerOK, TypeOK
    <3>. QED BY <2>1, <3>1, <3>2 DEF Apply, SessionOK
  <2>2. CASE Environment
    BY <1>1, <2>2, NobodyStops DEF TypeOK
  <2>3. ASSUME NEW s \in Requests, Arrive(s) PROVE FALSE
    BY <1>1, <2>3, FirstRead DEF rows
  <2>4. ASSUME NEW s \in Requests, Handle(s), ~Apply(s) PROVE FALSE
    <3>1. HandlerOK(s)
      BY DEF HandlersOK
    <3>. QED BY <1>1, <2>4, <3>1 DEF Handle, CreateOrder, Fetch, GatewayFails, Confirm,
         ReadMarker, ReadProject, Extend, Decide, Expire, SkipRenewal, NoteRenewal,
         RaiseRenewal, rows, TypeOK, HandlerOK
  <2>. QED BY <1>1, <2>1, <2>2, <2>3, <2>4 DEF Next, vars, rows
<1>2. ASSUME UNCHANGED raisedFor
      PROVE  (OrderFacts /\ OneRenewalPerPeriod)'
  <2>1. OrderFacts'
    BY <1>0, <1>1, <1>2 DEF OrderFacts
  <2>2. OneRenewalPerPeriod'
    BY <1>0, <1>2 DEF OneRenewalPerPeriod
  <2>. QED BY <2>1, <2>2
<1>3. ASSUME UNCHANGED <<raisedFor>>,
             project'.end = project.end, project'.renewal = project.renewal,
             \/ req' = req
             \/ \A r \in Requests : req[r].pc # "note"
      PROVE  RaisedIsNoted'
  <2> SUFFICES ASSUME NEW p \in Payments
               PROVE  /\ raisedFor'[p] <= project'.end
                      /\ raisedFor'[p] # 0 /\ raisedFor'[p] = project'.end /\ order'[p] = "none" =>
                           project'.renewal = p
                           \/ \E r \in Requests : req'[r].pc = "note" /\ req'[r].p = p
    BY DEF RaisedIsNoted
  <2>. QED BY <1>0, <1>3 DEF RaisedIsNoted
<1>4. CASE Environment
  BY <1>2, <1>3, <1>4, NobodyStops DEF history
<1>5. ASSUME NEW s \in Requests, Arrive(s)
      PROVE  (OrderFacts /\ RaisedIsNoted /\ OneRenewalPerPeriod)'
  BY <1>2, <1>3, <1>5, FirstRead DEF rows, history
<1>6. CASE UNCHANGED vars
  BY <1>2, <1>3, <1>6 DEF vars, rows, history
<1>7. ASSUME NEW s \in Requests, Handle(s)
      PROVE  (OrderFacts /\ RaisedIsNoted /\ OneRenewalPerPeriod)'
  <2>0. /\ \A r \in Requests : r # s => req[r].pc = "idle" /\ req'[r] = req[r]
        /\ req[s] \in Handlers /\ HandlerOK(s) /\ SessionOK(s) /\ PlanOK(s)
    BY <1>7, OthersIdle DEF TypeOK, HandlersOK, SessionsOK, PlansOK
  <2>1. CASE Extend(s)
    <3>1. /\ raisedFor' = raisedFor /\ req[s].proj = project
          /\ project'.end = NewEnd(project.end) /\ project.end \in Nat
      BY <1>0, <2>0, <2>1 DEF Extend, PlanOK, Projects
    <3>2. project'.end \in Nat /\ project'.end > project.end
      BY <3>1, PeriodsGrow DEF TypeOK
    <3>3. \A p \in Payments : raisedFor'[p] < project'.end
      BY <1>0, <3>1, <3>2 DEF RaisedIsNoted
    <3>4. RaisedIsNoted'
      BY <1>0, <3>1, <3>2, <3>3 DEF RaisedIsNoted
    <3>. QED BY <1>2, <3>1, <3>4
  <2>2. CASE NoteRenewal(s)
    <3>1. /\ raisedFor' = raisedFor /\ project'.end = project.end
          /\ project'.renewal = req[s].p
      BY <1>0, <2>2 DEF NoteRenewal, Projects, history
    <3>2. /\ req[s].p \in Payments /\ raisedFor[req[s].p] = project.end
          /\ project.end # 0 /\ order[req[s].p] = "none"
      BY <2>0, <2>2 DEF NoteRenewal, HandlerOK, SessionOK, PlanOK
    <3>3. ASSUME NEW p \in Payments, raisedFor[p] = project.end, order[p] = "none"
          PROVE  p = req[s].p
      BY <3>2, <3>3 DEF OneRenewalPerPeriod, OrderFacts
    <3>4. RaisedIsNoted'
      BY <1>0, <3>1, <3>2, <3>3 DEF RaisedIsNoted
    <3>. QED BY <1>2, <3>1, <3>4
  <2>3. ASSUME NEW q \in Payments, RaiseRenewal(s, q)
        PROVE  (OrderFacts /\ RaisedIsNoted /\ OneRenewalPerPeriod)'
    <3>1. /\ req[s].proj = project /\ project' = project /\ order' = order
          /\ project.end # 0 /\ ~HasOpenRenewal(project) /\ q \in Renewals
          /\ status[q] = "none" /\ status'[q] = "pending"
          /\ raisedFor' = [raisedFor EXCEPT ![q] = project.end]
          /\ \A r \in Requests : req[r].pc # "note"
      BY <2>0, <2>3 DEF RaiseRenewal, PlanOK, TypeOK
    <3>2. req'[s].pc = "note" /\ req'[s].p = q
      BY <2>0, <2>3 DEF RaiseRenewal, Handlers, TypeOK
    <3>3. ASSUME NEW p \in Payments, p # q, raisedFor[p] = project.end, order[p] = "none"
          PROVE  FALSE
      <4>1. project.renewal = p
        BY <3>1, <3>3 DEF RaisedIsNoted
      <4>2. status[p] \in OpenStates
        BY <3>1, <3>3 DEF OrderFacts, OpenStates, TypeOK, Statuses
      <4>. QED BY <3>1, <3>3, <4>1, <4>2, SettlementAssumption DEF HasOpenRenewal
    <3>4. OrderFacts'
      BY <1>0, <1>1, <3>1 DEF OrderFacts
    <3>5. RaisedIsNoted'
      <4> SUFFICES ASSUME NEW p \in Payments
                   PROVE  /\ raisedFor'[p] <= project'.end
                          /\ raisedFor'[p] # 0 /\ raisedFor'[p] = project'.end
                             /\ order'[p] = "none" =>
                               project'.renewal = p
                               \/ \E r \in Requests : req'[r].pc = "note" /\ req'[r].p = p
        BY DEF RaisedIsNoted
      <4>1. CASE p = q
        BY <1>0, <3>1, <3>2, <4>1 DEF Projects
      <4>2. CASE p # q
        BY <1>0, <3>1, <3>3, <4>2 DEF RaisedIsNoted
      <4>. QED BY <4>1, <4>2
    <3>6. OneRenewalPerPeriod'
      BY <1>0, <3>1, <3>3 DEF OneRenewalPerPeriod
    <3>. QED BY <3>4, <3>5, <3>6
  <2>4. CASE /\ ~Extend(s) /\ ~NoteRenewal(s)
             /\ ~\E q \in Payments : RaiseRenewal(s, q)
    <3>1. /\ raisedFor' = raisedFor /\ project'.end = project.end
          /\ project'.renewal = project.renewal /\ req[s].pc # "note"
      BY <1>0, <1>7, <2>4 DEF Handle, CreateOrder, Fetch, GatewayFails, Apply, Confirm,
         ReadMarker, ReadProject, Decide, Expire, SkipRenewal, rows, history, Projects
    <3>. QED BY <1>2, <1>3, <2>0, <3>1
  <2>. QED BY <2>1, <2>2, <2>3, <2>4
<1>. QED BY <1>4, <1>5, <1>6, <1>7 DEF Next

LEMMA SteadyInductive ==
  ASSUME MaxInFlight = 1, MaxCrashes = 0, SteadyInv, [Next]_vars
  PROVE  SteadyInv'
BY SerialInductive, PlansInductive, DecidedInductive, RenewalsInductive DEF SteadyInv

LEMMA SteadyInitially == Init => SteadyInv
<1> SUFFICES ASSUME Init PROVE SteadyInv
  OBVIOUS
<1>1. PlansOK /\ ExtendedIsDecided /\ OrderFacts /\ RaisedIsNoted /\ OneRenewalPerPeriod
  BY SettlementAssumption DEF Init, Idle, PlansOK, PlanOK, ExtendedIsDecided, OrderFacts,
     RaisedIsNoted, OneRenewalPerPeriod
<1>. QED BY <1>1, SerialInitially DEF SteadyInv

\* Handlers that run one at a time and to their end raise one renewal order per
\* period, over any number of periods, orders and failed gateway calls.
THEOREM RenewedOncePerPeriod ==
  ASSUME MaxInFlight = 1, MaxCrashes = 0 PROVE Spec => []OneRenewalPerPeriod
<1>1. SteadyInv /\ [Next]_vars => SteadyInv'
  BY SteadyInductive
<1>2. SteadyInv => OneRenewalPerPeriod
  BY DEF SteadyInv
<1>. QED BY <1>1, <1>2, SteadyInitially, PTL DEF Spec

-----------------------------------------------------------------------------
(* The subscription a lone handler leaves behind is that of Entitlement *)

LEMMA StepMaps ==
  ASSUME MaxInFlight = 1, MaxCrashes = 0, SteadyInv, [Next]_vars
  PROVE  [E!EntitlementNext]_E!entitlementVars
<1> USE DEF SteadyInv, SerialInv, IInv
<1> DEFINE spent == {p \in Payments : extensions[p] > 0}
<1>1. ASSUME UNCHANGED <<project, extensions, now>>
      PROVE  UNCHANGED E!entitlementVars
  BY <1>1 DEF E!entitlementVars
<1>2. CASE Environment
  <2>1. UNCHANGED <<project, extensions>>
    BY <1>2, NobodyStops DEF history
  <2>2. now' = now \/ now' = now + 1
    BY <1>2 DEF Environment, Checkout, Approve, HeldCaptureEnds, Tick, Crash
  <2>3. CASE now' = now
    BY <1>1, <2>1, <2>3
  <2>4. CASE now' = now + 1
    BY <2>1, <2>4 DEF E!EntitlementNext, E!NextDay
  <2>. QED BY <2>2, <2>3, <2>4
<1>3. ASSUME NEW s \in Requests, Arrive(s) PROVE UNCHANGED E!entitlementVars
  BY <1>1, <1>3, FirstRead DEF rows, history
<1>4. ASSUME NEW s \in Requests, Handle(s)
      PROVE  [E!EntitlementNext]_E!entitlementVars
  <2>0. /\ \A r \in Requests : r # s => req[r].pc = "idle"
        /\ HandlerOK(s) /\ PlanOK(s)
    BY <1>4, OthersIdle DEF HandlersOK, PlansOK
  <2>1. CASE Extend(s)
    <3>0. PICK q \in Payments : q = req[s].p
      BY <2>0, <2>1 DEF Extend, HandlerOK
    <3>1. /\ q = req[s].p /\ req[s].proj = project
          /\ decisions[q] = 0 /\ req[s].pc = "extend"
      BY <2>0, <2>1, <3>0 DEF Extend, PlanOK
    <3>2. ~(extensions[q] > 0)
      BY <2>0, <3>1 DEF ExtendedIsDecided, TypeOK
    <3>3. spent' = spent \cup {q} /\ q \notin spent
      <4>1. \A p \in Payments : extensions'[p] > 0 <=> extensions[p] > 0 \/ p = q
        BY <2>1, <3>1 DEF Extend, TypeOK
      <4>. QED BY <3>1, <3>2, <4>1
    <3>4. project'.end = E!Extended(project.end, now) /\ project'.status = "active" /\ now' = now
      BY <2>1, <3>1 DEF Extend, NewEnd, Written, E!Extended
    <3>5. E!Redeem(q)
      BY <3>3, <3>4 DEF E!Redeem
    <3>. QED BY <3>5 DEF E!EntitlementNext
  <2>2. CASE Expire(s)
    <3>1. project.status = "active" /\ now > project.end + Grace
      BY <2>0, <2>2 DEF Expire, PlanOK
    <3>2. /\ project'.status = "expired" /\ project'.end = project.end
          /\ UNCHANGED <<extensions, now>>
      BY <2>2 DEF Expire, history, TypeOK, Projects
    <3>3. E!Lapse
      BY <3>1, <3>2 DEF E!Lapse
    <3>. QED BY <3>3 DEF E!EntitlementNext
  <2>3. CASE NoteRenewal(s)
    <3>1. /\ project'.status = project.status /\ project'.end = project.end
          /\ UNCHANGED <<extensions, now>>
      BY <2>3 DEF NoteRenewal, history, TypeOK, Projects
    <3>. QED BY <3>1 DEF E!entitlementVars
  <2>4. CASE ~Extend(s) /\ ~Expire(s) /\ ~NoteRenewal(s)
    BY <1>1, <1>4, <2>4 DEF Handle, CreateOrder, Fetch, GatewayFails, Apply, Confirm,
       ReadMarker, ReadProject, Decide, SkipRenewal, RaiseRenewal, rows, history
  <2>. QED BY <2>1, <2>2, <2>3, <2>4
<1>5. CASE UNCHANGED vars
  BY <1>1, <1>5 DEF vars, rows, history
<1>. QED BY <1>2, <1>3, <1>4, <1>5 DEF Next

\* Handlers that run one at a time and to their end give every order its period
\* exactly once, and take access away only after the period and its grace.
THEOREM SettlementKeepsEntitlement ==
  ASSUME MaxInFlight = 1, MaxCrashes = 0 PROVE Spec => ImplementsEntitlement
<1>1. Init => E!EntitlementInit
  BY DEF Init, E!EntitlementInit
<1>2. SteadyInv /\ [Next]_vars => SteadyInv'
  BY SteadyInductive
<1>3. SteadyInv /\ [Next]_vars => [E!EntitlementNext]_E!entitlementVars
  BY StepMaps
<1>. QED BY <1>1, <1>2, <1>3, SteadyInitially, PTL
     DEF Spec, ImplementsEntitlement, E!EntitlementSpec
===============================================================================
