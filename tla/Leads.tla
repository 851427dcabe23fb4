------------------------------- MODULE Leads -------------------------------
(***************************************************************************)
(* The acquisition CRM: imports of workbooks (services/lead_importer.py),  *)
(* campaign batches (services/lead_campaigns.py), the owner's changes of a *)
(* lead (interfaces/sales_routes.py, main.py), the customers' messages     *)
(* (services/intent_classify.py) and first messages to them                *)
(* (services/whatsapp_sender.py), all on the table of leads.               *)
(*                                                                         *)
(* A desk is a request with its own session: it works on the leads as it   *)
(* loaded them and writes, when it commits, the columns it changed.        *)
(*                                                                         *)
(* Abstracted: a workbook is the set of the keys of its leads (LeadMerge); *)
(* scores and reachability decide by choice who is in a batch; counters of *)
(* follow-ups, notes and texts.  Leads without a key, which come in by the *)
(* website or a conversation and no import finds, are left out.            *)
(***************************************************************************)
EXTENDS Naturals, Sequences

CONSTANTS
  Companies,      \* dedup_key
  Desks,
  Intents,        \* of the messages in this instance
  OwnerChoices,   \* the statuses the owner sets in this instance
  MaxStarts,      \* bound: requests begun
  NoCompany

Ranks == [NEW |-> 0, READY |-> 1, CONTACTED |-> 2, REPLIED |-> 3, INTERESTED |-> 4, DEMO |-> 5,
          PROPOSAL |-> 6]
LeadStatuses == DOMAIN Ranks \cup {"WON", "LOST", "FOLLOW_UP", "DO_NOT_CONTACT"}
AllIntents == {"OPT_OUT", "INTERESTED", "DEMO", "PROPOSAL", "OTHER"}

ASSUME LeadsAssumption ==
  /\ Intents \subseteq AllIntents /\ OwnerChoices \subseteq LeadStatuses
  /\ MaxStarts \in Nat /\ NoCompany \notin Companies

VARIABLES
  lead,       \* acquisition_leads: of each key, the rows
  batches,    \* campaigns: number and leads of each
  desk,
  started,    \* requests begun so far
  twins,      \* history: whether two imports, or two builds of a batch, were at work at once
  jostled,    \* history: leads two desks were at at once
  reopened,   \* history: leads the owner made NEW again
  pestered    \* history: leads chosen for a batch although they had opted out

leadsVars == <<lead, batches, desk, started, twins, jostled, reopened, pestered>>

\* told is the status_after of the lead's last event in lead_events.
LeadRow == [status : LeadStatuses, optOut : BOOLEAN, told : LeadStatuses]
NewLead == [status |-> "NEW", optOut |-> FALSE, told |-> "NEW"]
LeadIds == (Companies \cup {NoCompany}) \X Nat
NoLead == <<NoCompany, 0>>
Desk == [pc : {"idle", "lead", "import", "select", "batch"},
         id : LeadIds, was : LeadRow, now : LeadRow,           \* a lead, as loaded and as changed
         keys : SUBSET Companies, missing : SUBSET Companies,  \* of an import
         number : Nat, chosen : SUBSET LeadIds]                \* of a batch
FreeDesk == [pc |-> "idle", id |-> NoLead, was |-> NewLead, now |-> NewLead,
             keys |-> {}, missing |-> {}, number |-> 0, chosen |-> {}]

LeadsTypeOK ==
  /\ lead \in [Companies -> Seq(LeadRow)]
  /\ batches \in Seq([number : Nat, leads : SUBSET LeadIds]) /\ desk \in [Desks -> Desk]
  /\ started \in 0..MaxStarts /\ twins \subseteq {"import", "build"}
  /\ jostled \subseteq LeadIds /\ reopened \subseteq LeadIds /\ pestered \subseteq LeadIds

LeadsInit ==
  /\ lead = [k \in Companies |-> << >>] /\ batches = << >> /\ desk = [d \in Desks |-> FreeDesk]
  /\ started = 0 /\ twins = {} /\ jostled = {} /\ reopened = {} /\ pestered = {}

AllLeads == {i \in Companies \X (1..started) : i[2] \in DOMAIN lead[i[1]]}
RowOf(i) == lead[i[1]][i[2]]
Sits(d, r) == desk' = [desk EXCEPT ![d] = r]
StartsAt(d) == desk[d].pc = "idle" /\ started < MaxStarts /\ started' = started + 1
HeldBy(d) == {desk[d].id} \cup desk[d].chosen
Jostle(d, S) == jostled' = jostled \cup {i \in S : \E e \in Desks \ {d} : i \in HeldBy(e)}

-----------------------------------------------------------------------------
(* Requests that change one lead and log an event: from the load to the    *)
(* await that follows, and the commit.                                     *)

LoadLead(d, i, row) ==
  /\ StartsAt(d) /\ Jostle(d, {i})
  /\ Sits(d, [FreeDesk EXCEPT !.pc = "lead", !.id = i, !.was = RowOf(i),
                              !.now = [row EXCEPT !.told = row.status]])
  /\ UNCHANGED <<lead, batches, twins, pestered>>

WithStatus(row, status) == [row EXCEPT !.status = status]

\* promote_lead: a status without a rank counts as 0.
Rank(status) == IF status \in DOMAIN Ranks THEN Ranks[status] ELSE 0
Promoted(row, intent) ==
  CASE intent = "OPT_OUT" -> [row EXCEPT !.status = "DO_NOT_CONTACT", !.optOut = TRUE]
    [] intent \in DOMAIN Ranks -> IF Rank(row.status) < Ranks[intent] THEN WithStatus(row, intent) ELSE row
    [] OTHER -> IF row.status \in {"NEW", "READY", "CONTACTED"} THEN WithStatus(row, "REPLIED") ELSE row

\* process_webhook, process_inbound_update: a message of the customer.
HearLead(d, i, intent) == LoadLead(d, i, Promoted(RowOf(i), intent)) /\ UNCHANGED reopened

\* sales_update_status, update_lead_status.
SetLead(d, i, status) ==
  /\ LoadLead(d, i, WithStatus(RowOf(i), status))
  /\ reopened' = reopened \cup {j \in {i} : status = "NEW"}

\* sales_do_not_contact.
BarLead(d, i) == LoadLead(d, i, WithStatus(RowOf(i), "DO_NOT_CONTACT")) /\ UNCHANGED reopened

\* sales_schedule_followup.
PlanFollowup(d, i) ==
  /\ LoadLead(d, i, IF RowOf(i).status \in {"CONTACTED", "REPLIED", "INTERESTED", "DEMO", "PROPOSAL"}
                    THEN WithStatus(RowOf(i), "FOLLOW_UP") ELSE RowOf(i))
  /\ UNCHANGED reopened

\* _outreach_block_reason, _record_lead_event: a message is sent to the lead.
ReachOut(d, i) ==
  /\ ~RowOf(i).optOut /\ RowOf(i).status # "DO_NOT_CONTACT"
  /\ LoadLead(d, i, IF RowOf(i).status \in {"NEW", "READY"} THEN WithStatus(RowOf(i), "CONTACTED")
                    ELSE RowOf(i))
  /\ UNCHANGED reopened

\* _apply_paid_outcome: the lead's order is paid.
WinLead(d, i) ==
  /\ RowOf(i).status # "WON"
  /\ LoadLead(d, i, WithStatus(RowOf(i), "WON")) /\ UNCHANGED reopened

Unlogged(r) == r.was.told  \* mutant: the change is committed without its event
Logged(r) == r.now.told

CommitLead(d) ==
  LET r == desk[d]
  IN /\ r.pc = "lead"
     /\ lead' = [lead EXCEPT ![r.id[1]][r.id[2]] =
          [status |-> IF r.now.status = r.was.status THEN @.status ELSE r.now.status,
           optOut |-> IF r.now.optOut = r.was.optOut THEN @.optOut ELSE r.now.optOut,
           told |-> Logged(r)]]
     /\ Sits(d, FreeDesk)
     /\ UNCHANGED <<batches, started, twins, jostled, reopened, pestered>>

-----------------------------------------------------------------------------
(* persist_leads, and the batch that sales_import_lead_source may go on to.*)

Twins(d, kind, pcs) ==
  twins' = twins \cup {k \in {kind} : \E e \in Desks \ {d} : desk[e].pc \in pcs}

\* next_batch_no: the highest number, and one.
BatchNumbers == {0} \cup {batches[b].number : b \in DOMAIN batches}
NextNumber == 1 + CHOOSE n \in BatchNumbers : \A other \in BatchNumbers : other <= n
Numbering(d) ==
  /\ Twins(d, "build", {"select", "batch"})
  /\ Sits(d, [FreeDesk EXCEPT !.pc = "select", !.number = NextNumber])

Import(d, K) ==
  /\ StartsAt(d) /\ Twins(d, "import", {"import"})
  /\ Sits(d, [FreeDesk EXCEPT !.pc = "import", !.keys = K,
                              !.missing = {k \in K : lead[k] = << >>}])
  /\ UNCHANGED <<lead, batches, jostled, reopened, pestered>>

AllAnew(row) == [row EXCEPT !.status = "NEW"]  \* mutant: no field is left out of the refresh
Refreshed(row) == row  \* the status is left alone, like the opt-out

CommitImport(d, goesOn) ==
  LET r == desk[d]
  IN /\ r.pc = "import"
     /\ lead' = [k \in Companies |-> IF k \in r.missing THEN Append(lead[k], NewLead)
                   ELSE IF k \in r.keys THEN [n \in DOMAIN lead[k] |-> Refreshed(lead[k][n])]
                   ELSE lead[k]]
     /\ IF goesOn THEN Numbering(d) ELSE Sits(d, FreeDesk) /\ UNCHANGED twins
     /\ UNCHANGED <<batches, started, jostled, reopened, pestered>>
-----------------------------------------------------------------------------
(* build_campaign, on its own or after an import.                          *)

BuildCampaign(d) ==
  /\ StartsAt(d) /\ Numbering(d)
  /\ UNCHANGED <<lead, batches, jostled, reopened, pestered>>

Everyone(i) == TRUE  \* mutant: leads of earlier batches are not left out
InNoBatch(i) == \A b \in DOMAIN batches : i \notin batches[b].leads

SelectLeads(d) ==
  /\ desk[d].pc = "select"
  /\ \E S \in SUBSET {i \in AllLeads : RowOf(i).status = "NEW" /\ InNoBatch(i)} :
       /\ Sits(d, [desk[d] EXCEPT !.pc = "batch", !.chosen = S])
       /\ Jostle(d, S) /\ pestered' = pestered \cup {i \in S : RowOf(i).optOut}
  /\ UNCHANGED <<lead, batches, started, twins, reopened>>

CommitCampaign(d) ==
  LET r == desk[d]
  IN /\ r.pc = "batch"
     /\ batches' = Append(batches, [number |-> r.number, leads |-> r.chosen])
     /\ lead' = [k \in Companies |-> [n \in DOMAIN lead[k] |->
          IF <<k, n>> \in r.chosen THEN WithStatus(lead[k][n], "READY") ELSE lead[k][n]]]
     /\ Sits(d, FreeDesk)
     /\ UNCHANGED <<started, twins, jostled, reopened, pestered>>

LeadsNext == \E d \in Desks :
  \/ \E i \in AllLeads :
       \/ \E intent \in Intents : HearLead(d, i, intent)
       \/ \E status \in OwnerChoices : SetLead(d, i, status)
       \/ BarLead(d, i) \/ PlanFollowup(d, i) \/ ReachOut(d, i) \/ WinLead(d, i)
  \/ CommitLead(d)
  \/ \E K \in SUBSET Companies \ {{}} : Import(d, K)
  \/ \E goesOn \in BOOLEAN : CommitImport(d, goesOn)
  \/ BuildCampaign(d) \/ SelectLeads(d) \/ CommitCampaign(d)

LeadsSpec == LeadsInit /\ [][LeadsNext]_leadsVars

-----------------------------------------------------------------------------
\* persist_leads: however often a company is imported it is one lead, unless two imports met.
OneLeadPerCompany == "import" \in twins \/ \A k \in Companies : Len(lead[k]) <= 1

\* build_campaign: batches have numbers of their own and share no lead, unless two builds met.
OneBatchEach == "build" \in twins \/ \A b, c \in DOMAIN batches : b # c =>
  batches[b].number # batches[c].number /\ batches[b].leads \cap batches[c].leads = {}

\* persist_leads ("never clobber sales activity or opt-outs"): no import, message or follow-up
\* brings one who opted out into a later batch; only the owner can, by making the lead NEW.
LeftAlone == pestered \subseteq reopened

\* LeadEvent ("no conversation, draft, note or status change is lost"): a lead's status is what
\* its last event says or READY in a batch, unless two requests were at the lead at once.
EventsTell == \A i \in AllLeads \ jostled :
  \/ RowOf(i).status = RowOf(i).told
  \/ RowOf(i).status = "READY" /\ \E b \in DOMAIN batches : i \in batches[b].leads

\* Leads and campaigns: one lead per company, one batch per lead, opt-outs kept and explained.
LeadsSafe == OneLeadPerCompany /\ OneBatchEach /\ LeftAlone /\ EventsTell
=============================================================================
