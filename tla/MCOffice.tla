------------------------------ MODULE MCOffice ------------------------------
(* Instances for TLC of eight components that share no state: in every behaviour one moves. *)
EXTENDS Books, Collections, TenantChat, ModelGateway, Schedules, Outbound, Intake, Founding, TLC

CONSTANTS p1, p2, k1, a1, a2, g1, g2, v1, e1, e2, e3, m1, n1, n2, f1, f2, b1, b2, b3,
          x1, x2  \* two of whatever is alike: clerks, senders, passes, handlers, ...

VARIABLE moving  \* the component that moves

Components == {"books", "collections", "chat", "gateway", "schedules", "outbound", "intake", "founding"}

OfficeInit ==
  /\ moving \in Components
  /\ BooksInit /\ CollectionsInit /\ TenantInit /\ GatewayInit /\ SchedulesInit
  /\ OutboundInit /\ IntakeInit /\ FoundingInit

\* All components but the one that moves rest.
Rests(c) ==
  /\ c # "books" => UNCHANGED booksVars
  /\ c # "collections" => UNCHANGED collVars
  /\ c # "chat" => UNCHANGED tenantVars
  /\ c # "gateway" => UNCHANGED gatewayVars
  /\ c # "schedules" => UNCHANGED scheduleVars
  /\ c # "outbound" => UNCHANGED outboundVars
  /\ c # "intake" => UNCHANGED intakeVars
  /\ c # "founding" => UNCHANGED foundingVars

OfficeNext ==
  \/ moving = "books" /\ BooksNext /\ Rests("books") /\ UNCHANGED moving
  \/ moving = "collections" /\ CollectionsNext /\ Rests("collections") /\ UNCHANGED moving
  \/ moving = "chat" /\ TenantNext /\ Rests("chat") /\ UNCHANGED moving
  \/ moving = "gateway" /\ GatewayNext /\ Rests("gateway") /\ UNCHANGED moving
  \/ moving = "schedules" /\ SchedulesNext /\ Rests("schedules") /\ UNCHANGED moving
  \/ moving = "outbound" /\ OutboundNext /\ Rests("outbound") /\ UNCHANGED moving
  \/ moving = "intake" /\ IntakeNext /\ Rests("intake") /\ UNCHANGED moving
  \/ moving = "founding" /\ FoundingNext /\ Rests("founding") /\ UNCHANGED moving

officeVars == <<moving, booksVars, collVars, tenantVars, gatewayVars, scheduleVars, outboundVars,
                intakeVars, foundingVars>>
OfficeSpec == OfficeInit /\ [][OfficeNext]_officeVars

\* The first payment's invoice is over two units, so that it can be credited in two parts.
UnevenSubtotals == [p \in Payments |-> IF p = p1 THEN 2 ELSE 1]
OneFallback == <<g2>>

\* The first project has two orders.
OrderedFor == [o \in Orders |-> IF o = b3 THEN f2 ELSE f1]

\* A customer with an address who changes the number to one that is reported without, in a
\* report that has no event id either.
Addresses == [e \in Sales |-> IF e \in {e1, e3} THEN m1 ELSE NoValue]
Numbers == [e \in Sales |-> IF e = e1 THEN n1 ELSE n2]

\* Two values stand for the clerks, uses, recorders, passes, workers, schedules, callers,
\* senders, intakes and handlers of all components, and may be swapped everywhere at once.
Alike == Permutations({x1, x2})
=============================================================================
