------------------------------ MODULE Founding ------------------------------
(***************************************************************************)
(* The founding offer (services/founding.py): a limited number of seats    *)
(* with a discount.  An order is priced while a seat is free, the seat is  *)
(* taken when the order's project is activated                             *)
(* (payments.activate_subscription), and the owner may revoke it.         *)
(*                                                                         *)
(* A handler is a request with its own session.  It reads the project,     *)
(* counts the seats in a second statement, and writes when it commits.     *)
(*                                                                         *)
(* Abstracted: the rest of an activation (Settlement), packages that are   *)
(* not in the offer, prices; the lock of a price expires by choice.        *)
(***************************************************************************)
EXTENDS Naturals, FiniteSets

CONSTANTS
  Projects, Orders, Handlers,
  ProjectOf,     \* the project of each order
  Seats,         \* FOUNDING_OFFER["seats"]
  NoOrder

ASSUME FoundingAssumption ==
  /\ Seats \in Nat /\ ProjectOf \in [Orders -> Projects] /\ NoOrder \notin Orders
  /\ IsFiniteSet(Projects) /\ IsFiniteSet(Handlers) /\ Handlers # {}

VARIABLES
  founder,   \* projects with founding set
  revoked,   \* projects with founding_revoked_at set
  applied,   \* last_payment_id of each project
  order,     \* status and founding price of each order
  handler,
  hurried,   \* history: two handlers had each been granted a seat that neither had taken
  spurned    \* history: orders whose pricing began after their project was revoked

foundingVars == <<founder, revoked, applied, order, handler, hurried, spurned>>

Order == [status : {"none", "unpaid", "paid"}, founding : BOOLEAN]
Handler == [pc : {"idle", "price", "save", "count", "commit"},
            order : Orders \cup {NoOrder},
            granted : BOOLEAN]   \* it will save a founding price, or take a seat
IdleHandler == [pc |-> "idle", order |-> NoOrder, granted |-> FALSE]

FoundingTypeOK ==
  /\ founder \subseteq Projects /\ revoked \subseteq Projects
  /\ applied \in [Projects -> Orders \cup {NoOrder}] /\ order \in [Orders -> Order]
  /\ handler \in [Handlers -> Handler]
  /\ hurried \in BOOLEAN /\ spurned \subseteq Orders

FoundingInit ==
  /\ founder = {} /\ revoked = {} /\ applied = [p \in Projects |-> NoOrder]
  /\ order = [o \in Orders |-> [status |-> "none", founding |-> FALSE]]
  /\ handler = [h \in Handlers |-> IdleHandler]
  /\ hurried = FALSE /\ spurned = {}

-----------------------------------------------------------------------------
\* seats_used and seats_remaining.
Seated == founder \ revoked
AnyVacancy == TRUE  \* mutant: the seats are not counted again
Vacancy == Cardinality(Seated) < Seats

\* Handlers that were granted a seat and have not committed.
Granted == {h \in Handlers : handler[h].pc = "commit" /\ handler[h].granted}

Moves(h, pc, o, granted) ==
  handler' = [handler EXCEPT ![h] = [pc |-> pc, order |-> o, granted |-> granted]]

\* project_has_founding_price: the lock may have expired.
EveryFounder(p, locked) == p \in founder /\ locked  \* mutant: revoked_at is not looked at
HasFoundingPrice(p, locked) == p \in founder /\ p \notin revoked /\ locked

\* create_payment reads the project first.
OpenOrder(h, o) ==
  /\ handler[h].pc = "idle" /\ order[o].status = "none" /\ \A g \in Handlers : handler[g].order # o
  /\ Moves(h, "price", o, FALSE)
  /\ spurned' = IF ProjectOf[o] \in revoked THEN spurned \cup {o} ELSE spurned
  /\ UNCHANGED <<founder, revoked, applied, order, hurried>>

\* eligible_for_order.
PriceOrder(h) ==
  /\ handler[h].pc = "price"
  /\ LET p == ProjectOf[handler[h].order]
     IN \E renewal, locked \in BOOLEAN :
          Moves(h, "save", handler[h].order,
                IF p \in founder THEN HasFoundingPrice(p, locked)
                ELSE ~renewal /\ p \notin revoked /\ Vacancy)
  /\ UNCHANGED <<founder, revoked, applied, order, hurried, spurned>>

SaveOrder(h) ==
  /\ handler[h].pc = "save"
  /\ order' = [order EXCEPT ![handler[h].order] =
                 [status |-> "unpaid", founding |-> handler[h].granted]]
  /\ Moves(h, "idle", NoOrder, FALSE)
  /\ UNCHANGED <<founder, revoked, applied, hurried, spurned>>

PayOrder(o) ==
  /\ order[o].status = "unpaid" /\ order' = [order EXCEPT ![o].status = "paid"]
  /\ UNCHANGED <<founder, revoked, applied, handler, hurried, spurned>>

-----------------------------------------------------------------------------
\* activate_subscription: an order that was applied last is left alone; mark_project counts
\* the seats for an order at the founding price whose project, as loaded, never had one.
Activate(h, o) ==
  /\ handler[h].pc = "idle" /\ order[o].status = "paid" /\ applied[ProjectOf[o]] # o
  /\ Moves(h, IF order[o].founding /\ ProjectOf[o] \notin founder \cup revoked
                THEN "count" ELSE "commit", o, FALSE)
  /\ UNCHANGED <<founder, revoked, applied, order, hurried, spurned>>

CountSeats(h) ==
  /\ handler[h].pc = "count"
  /\ Moves(h, "commit", handler[h].order, Vacancy)
  /\ hurried' = (hurried \/ (Vacancy /\ Granted # {}))
  /\ UNCHANGED <<founder, revoked, applied, order, spurned>>

CommitActivation(h) ==
  /\ handler[h].pc = "commit"
  /\ LET p == ProjectOf[handler[h].order]
     IN /\ founder' = IF handler[h].granted THEN founder \cup {p} ELSE founder
        /\ applied' = [applied EXCEPT ![p] = handler[h].order]
  /\ Moves(h, "idle", NoOrder, FALSE)
  /\ UNCHANGED <<revoked, order, hurried, spurned>>

\* revoke.
Revoke(p) ==
  /\ p \in founder
  /\ founder' = founder \ {p} /\ revoked' = revoked \cup {p}
  /\ UNCHANGED <<applied, order, handler, hurried, spurned>>

FoundingRestart ==
  /\ \E h \in Handlers : handler[h].pc # "idle"
  /\ handler' = [h \in Handlers |-> IdleHandler]
  /\ UNCHANGED <<founder, revoked, applied, order, hurried, spurned>>

FoundingNext ==
  \/ \E h \in Handlers :
       \/ \E o \in Orders : OpenOrder(h, o) \/ Activate(h, o)
       \/ PriceOrder(h) \/ SaveOrder(h) \/ CountSeats(h) \/ CommitActivation(h)
  \/ \E o \in Orders : PayOrder(o)
  \/ \E p \in Projects : Revoke(p)
  \/ FoundingRestart

FoundingSpec == FoundingInit /\ [][FoundingNext]_foundingVars

-----------------------------------------------------------------------------
\* "Never more than 15" (founding.py:6) when activations take their seats one after the other.
SeatsKept == ~hurried => Cardinality(Seated) <= Seats

\* However activations overlap, each handler but one can exceed the offer by one seat.
SeatsBounded == Cardinality(Seated) < Seats + Cardinality(Handlers)

\* "Revoked by the owner: never re-applied automatically" (founding.py:87), even when an
\* activation that loaded the project earlier sets its founding flag again.
RevokedStays == \A o \in spurned : ~order[o].founding

\* The hazards of the offer together: seats counted before they are taken, and a revocation
\* between the reads and the commit of an activation or of an order.
FoundingSafe == SeatsKept /\ SeatsBounded /\ RevokedStays
=============================================================================
