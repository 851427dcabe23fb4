------------------------------- MODULE Intake -------------------------------
(***************************************************************************)
(* Closed sales reported by the social media agent                         *)
(* (interfaces/botpress_routes.py).  A report is recorded under its event  *)
(* id, the customer's lead is found or created, and then the CEO, the      *)
(* queue and the owner are told.  Reports are delivered again until they   *)
(* are answered with a 2xx status, and delivered together.  The event id   *)
(* is optional: a report without one is recorded under a fresh uuid at     *)
(* each delivery.                                                          *)
(*                                                                         *)
(* Abstracted: signatures, validation and the rate limit; what the CEO,    *)
(* the queue and the owner make of it (failures there are caught).  The    *)
(* two questions for a lead are one step.  Leads that were imported from   *)
(* elsewhere are left out.                                                 *)
(***************************************************************************)
EXTENDS Naturals, Sequences, FiniteSets

CONSTANTS
  Sales,        \* reports
  Nameless,     \* those without an event id
  MaxResent,    \* bound: how often a nameless report has been recorded when it comes again
  Intakes,      \* handlers of deliveries
  MailOf,       \* the e-mail address and the telephone number each report
  PhoneOf,      \* gives, NoValue when it gives none
  NoValue,
  NoSale

ASSUME IntakeAssumption ==
  /\ NoSale \notin Sales /\ DOMAIN MailOf = Sales /\ DOMAIN PhoneOf = Sales
  /\ Nameless \subseteq Sales /\ MaxResent \in Nat /\ IsFiniteSet(Intakes)

VARIABLES
  recorded,   \* how many inbound_messages of type "sale" each report has
  leads,      \* acquisition_leads: mail and phone of each
  intake,
  told,       \* how often the CEO, the queue and the owner were told of each report
  lost,       \* history: how often it was recorded and then cut short, by a restart or by
              \* two leads that fit
  mixed       \* history: addresses that two handlers looked up at once

intakeVars == <<recorded, leads, intake, told, lost, mixed>>

Values == {MailOf[e] : e \in Sales} \cup {PhoneOf[e] : e \in Sales} \cup {NoValue}
Intake == [pc : {"idle", "record", "find", "write", "tell"}, sale : Sales \cup {NoSale},
           lead : Nat]   \* the lead it found, 0 for none
IdleIntake == [pc |-> "idle", sale |-> NoSale, lead |-> 0]

IntakeTypeOK ==
  /\ recorded \in [Sales -> Nat] /\ leads \in Seq([mail : Values, phone : Values])
  /\ intake \in [Intakes -> Intake] /\ told \in [Sales -> Nat]
  /\ lost \in [Sales -> Nat] /\ mixed \subseteq Values

IntakeInit ==
  /\ recorded = [e \in Sales |-> 0] /\ leads = << >> /\ intake = [h \in Intakes |-> IdleIntake]
  /\ told = [e \in Sales |-> 0] /\ lost = [e \in Sales |-> 0] /\ mixed = {}

Steps(h, pc, e, lead) == intake' = [intake EXCEPT ![h] = [pc |-> pc, sale |-> e, lead |-> lead]]
Drop(h) == intake' = [intake EXCEPT ![h] = IdleIntake]
Begun(h) == intake[h].pc \in {"find", "write", "tell"}
Having(e) == {h \in Intakes : Begun(h) /\ intake[h].sale = e}

-----------------------------------------------------------------------------
AnyEvent(e) == TRUE  \* mutant: the event id is not unique

\* The id is not in the table yet; a uuid drawn for this delivery never is.
Fresh(e) == e \in Nameless \/ recorded[e] = 0

\* _seen_before: a report whose id is recorded is answered as a duplicate.
DeliverSale(h, e) ==
  /\ intake[h].pc = "idle" /\ Fresh(e)
  /\ e \in Nameless => recorded[e] < MaxResent
  /\ Steps(h, "record", e, 0)
  /\ UNCHANGED <<recorded, leads, told, lost, mixed>>

\* _record_event: the unique key stops a second delivery that passed the question above.
RecordSale(h) ==
  /\ intake[h].pc = "record"
  /\ LET e == intake[h].sale
     IN IF Fresh(e)
        THEN Steps(h, "find", e, 0) /\ recorded' = [recorded EXCEPT ![e] = @ + 1]
        ELSE Drop(h) /\ UNCHANGED recorded
  /\ UNCHANGED <<leads, told, lost, mixed>>

Bearing(field, value) == {l \in DOMAIN leads : value # NoValue /\ leads[l][field] = value}
PhoneOnly(e) == Bearing("phone", PhoneOf[e])  \* mutant: the address is not looked up
Fitting(e) ==
  IF Bearing("mail", MailOf[e]) # {} THEN Bearing("mail", MailOf[e])
  ELSE Bearing("phone", PhoneOf[e])

\* _upsert_lead looks the customer up by address and then by telephone; scalar_one_or_none
\* fails on two leads, and the sale is recorded by now.
FindLead(h) ==
  /\ intake[h].pc = "find"
  /\ LET e == intake[h].sale
         together == {g \in Intakes \ {h} : intake[g].pc = "write"
                                            /\ MailOf[intake[g].sale] = MailOf[e]}
     IN /\ \/ /\ Fitting(e) = {} /\ Steps(h, "write", e, 0) /\ UNCHANGED lost
           \/ \E l \in Fitting(e) :
                /\ Fitting(e) = {l} /\ Steps(h, "write", e, l) /\ UNCHANGED lost
           \/ /\ \E l, k \in Fitting(e) : l # k
              /\ Drop(h) /\ lost' = [lost EXCEPT ![e] = @ + 1]
        /\ mixed' = IF together = {} THEN mixed ELSE mixed \cup {MailOf[e]}
  /\ UNCHANGED <<recorded, leads, told>>

\* A lead that is found gets the telephone number of the report, and keeps its address.
WriteLead(h) ==
  /\ intake[h].pc = "write"
  /\ LET e == intake[h].sale
         l == intake[h].lead
     IN /\ leads' = IF l = 0 THEN Append(leads, [mail |-> MailOf[e], phone |-> PhoneOf[e]])
                    ELSE IF PhoneOf[e] = NoValue THEN leads
                    ELSE [leads EXCEPT ![l].phone = PhoneOf[e]]
        /\ Steps(h, "tell", e, l)
  /\ UNCHANGED <<recorded, told, lost, mixed>>

\* _wake_ceo and _notify_owner.
Tell(h) ==
  /\ intake[h].pc = "tell"
  /\ told' = [told EXCEPT ![intake[h].sale] = @ + 1] /\ Drop(h)
  /\ UNCHANGED <<recorded, leads, lost, mixed>>

IntakeRestart ==
  /\ \E h \in Intakes : intake[h].pc # "idle"
  /\ intake' = [h \in Intakes |-> IdleIntake]
  /\ lost' = [e \in Sales |-> lost[e] + Cardinality(Having(e))]
  /\ UNCHANGED <<recorded, leads, told, mixed>>

IntakeNext ==
  \/ \E h \in Intakes :
       \/ \E e \in Sales : DeliverSale(h, e)
       \/ RecordSale(h) \/ FindLead(h) \/ WriteLead(h) \/ Tell(h)
  \/ IntakeRestart

IntakeSpec == IntakeInit /\ [][IntakeNext]_intakeVars

-----------------------------------------------------------------------------
\* Every record of a report is told of, in progress or lost, and was told of once: no
\* redelivery makes up for what is lost.  A report with an event id is recorded at most once
\* (botpress_routes.py:37, 272).  One without (:176, :500) is recorded and told of again at
\* each redelivery, although the docstring (:38) promises that a replay does not wake the
\* fleet twice.
ToldOnce ==
  \A e \in Sales :
    /\ told[e] + lost[e] + Cardinality(Having(e)) = recorded[e]
    /\ e \notin Nameless => recorded[e] <= 1

\* "A repeat report from the same person updates the existing lead instead of cloning it"
\* (botpress_routes.py:311): an address has one lead, unless two of its reports met.
NoClones ==
  \A l, k \in DOMAIN leads :
    l # k => leads[l].mail # leads[k].mail \/ leads[l].mail \in mixed \cup {NoValue}

\* "Must not lose the sale" (botpress_routes.py:395): redeliveries, a restart after any commit
\* and customers who report twice leave at most one task per event id, a task or an accounted
\* loss per record, and one lead per address.
IntakeSafe == ToldOnce /\ NoClones
=============================================================================
