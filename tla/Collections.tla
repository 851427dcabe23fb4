---------------------------- MODULE Collections ----------------------------
(***************************************************************************)
(* One subscription's usage counters (services/usage.py) and the daily     *)
(* collection pass that demands what is owed: reminders of the renewal     *)
(* order and a bill for the overage of each closed window                  *)
(* (services/collections.py).                                              *)
(*                                                                         *)
(* Recorders are webhooks and owner requests that count one use, passes    *)
(* are the scheduled one and the owner's; each has its own session.        *)
(*                                                                         *)
(* Abstracted: the three metrics are one counter, packs are of one unit    *)
(* and a use counts one; the owner's alerts about thresholds are left out. *)
(* run_recovery is a reminder sequence of one stage and not repeated here. *)
(***************************************************************************)
EXTENDS Naturals, FiniteSets

CONSTANTS
  Uses,         \* what is counted: a call, a Meta fee, a conversation of 24 hours
  Recorders, Passes,
  Allowance,    \* included in the plan
  MaxWindow,    \* bound: usage windows
  MaxStage,     \* stages of the reminder sequence
  MaxRecords,   \* bound: recorders begun
  MaxRounds,    \* bound: passes begun
  NoUse

ASSUME CollectionsAssumption ==
  Allowance \in Nat /\ MaxWindow \in Nat \ {0} /\ MaxStage \in Nat
  /\ MaxRecords \in Nat /\ MaxRounds \in Nat /\ NoUse \notin Uses

VARIABLES
  window,     \* the current usage window
  stage,      \* the reminder that is due (due_stage); 0: none yet
  opened,     \* windows with a row in subscription_usage
  used,       \* its counter
  events,     \* usage_events of each window, by what they count
  owed,       \* the renewal order is unpaid
  reminded,   \* stages in collection_reminders
  bills,      \* overage payments of each window
  charged,    \* the amount of the last of them
  recorder, pass,
  records, rounds, \* begun so far
  demanded,   \* external: how often each reminder went out
  raced,      \* history: windows two recorders worked on at once, or counted after their bill
  doubled,    \* history: windows with a use that two recorders took for new at once
  crowded     \* history: two passes ran at once, or a restart hit one after it had sent

counters == <<opened, used, events>>
demands == <<owed, reminded, bills, charged, demanded>>
collVars == <<window, stage, opened, used, events, owed, reminded, bills, charged, recorder,
              pass, records, rounds, demanded, raced, doubled, crowded>>

Windows == 1..MaxWindow
Stages == 1..MaxStage

Recorder == [pc : {"idle", "read", "count"}, use : Uses \cup {NoUse}, window : 0..MaxWindow,
             fresh : BOOLEAN, saw : Nat]
FreeRecorder == [pc |-> "idle", use |-> NoUse, window |-> 0, fresh |-> FALSE, saw |-> 0]
Pass == [pc : {"idle", "remind", "mark", "list", "bill", "charge"}, stage : 0..MaxStage,
         window : 0..MaxWindow, todo : SUBSET Windows, saw : [Windows -> Nat], bill : 0..MaxWindow]
FreePass == [pc |-> "idle", stage |-> 0, window |-> 0, todo |-> {},
             saw |-> [w \in Windows |-> 0], bill |-> 0]

CollectionsTypeOK ==
  /\ window \in Windows /\ stage \in 0..MaxStage
  /\ opened \subseteq Windows /\ used \in [Windows -> Nat] /\ events \in [Windows -> SUBSET Uses]
  /\ owed \in BOOLEAN /\ reminded \subseteq Stages
  /\ bills \in [Windows -> Nat] /\ charged \in [Windows -> Nat]
  /\ recorder \in [Recorders -> Recorder] /\ pass \in [Passes -> Pass]
  /\ records \in 0..MaxRecords /\ rounds \in 0..MaxRounds /\ demanded \in [Stages -> Nat]
  /\ raced \subseteq Windows /\ doubled \subseteq Windows /\ crowded \in BOOLEAN

CollectionsInit ==
  /\ window = 1 /\ stage = 0 /\ opened = {} /\ used = [w \in Windows |-> 0]
  /\ events = [w \in Windows |-> {}] /\ owed = TRUE /\ reminded = {}
  /\ bills = [w \in Windows |-> 0] /\ charged = [w \in Windows |-> 0]
  /\ recorder = [r \in Recorders |-> FreeRecorder] /\ pass = [p \in Passes |-> FreePass]
  /\ records = 0 /\ rounds = 0 /\ demanded = [s \in Stages |-> 0]
  /\ raced = {} /\ doubled = {} /\ crowded = FALSE

Records(r, x) == recorder' = [recorder EXCEPT ![r] = x]
Passing(p, x) == pass' = [pass EXCEPT ![p] = x]

-----------------------------------------------------------------------------
(* record_conversation, record_voice, record_meta_fee and _apply.          *)

NewUse(u) == \A w \in Windows : u \notin events[w]

\* A use is counted once (_seen, the open conversation).  Its window is that of its time,
\* which may be over when the webhook comes.
BeginRecord(r, u, w) ==
  /\ recorder[r].pc = "idle" /\ records < MaxRecords /\ records' = records + 1
  /\ w <= window /\ window - w <= 1 /\ NewUse(u)
  /\ Records(r, [FreeRecorder EXCEPT !.pc = "read", !.use = u, !.window = w])
  /\ LET others == {recorder[q] : q \in Recorders \ {r}}
     IN /\ raced' = raced \cup {v \in {w} : \E x \in others : x.window = w}
        /\ doubled' = doubled \cup {v \in Windows : \E x \in others : x.use = u /\ v \in {w, x.window}}
  /\ UNCHANGED <<window, stage, counters, demands, pass, rounds, crowded>>

\* current_usage: the row of the window, or a new one.
ReadUsage(r) ==
  /\ recorder[r].pc = "read"
  /\ LET w == recorder[r].window
     IN Records(r, [recorder[r] EXCEPT !.pc = "count", !.fresh = w \notin opened, !.saw = used[w]])
  /\ UNCHANGED <<window, stage, counters, demands, pass, records, rounds, raced, doubled, crowded>>

\* After the owner's alerts were sent: the counter as read plus the use, with its event.  If
\* another recorder has opened the window meanwhile, the insert fails and nothing is counted.
Count(r) ==
  /\ recorder[r].pc = "count"
  /\ LET x == recorder[r]
     IN IF x.fresh /\ x.window \in opened THEN UNCHANGED <<counters, raced>>
        ELSE /\ opened' = opened \cup {x.window}
             /\ used' = [used EXCEPT ![x.window] = x.saw + 1]
             /\ events' = [events EXCEPT ![x.window] = @ \cup {x.use}]
             /\ raced' = raced \cup {w \in {x.window} : \/ bills[w] > 0
                                                        \/ \E p \in Passes : pass[p].window > w}
  /\ Records(r, FreeRecorder)
  /\ UNCHANGED <<window, stage, demands, pass, records, rounds, doubled, crowded>>

-----------------------------------------------------------------------------
(* run_collections: run_reminders, then bill_overage.                      *)

BeginPass(p) ==
  /\ pass[p].pc = "idle" /\ rounds < MaxRounds /\ rounds' = rounds + 1
  /\ Passing(p, [FreePass EXCEPT !.pc = "remind", !.stage = stage, !.window = window])
  /\ crowded' = (crowded \/ \E q \in Passes : pass[q].pc # "idle")
  /\ UNCHANGED <<window, stage, counters, demands, recorder, records, raced, doubled>>

AnyStage(s) == TRUE  \* mutant: not looked up
NotReminded(s) == s \notin reminded

\* _deliver, when the order is unpaid and this stage was not sent before (_already).
Remind(p) ==
  /\ pass[p].pc = "remind"
  /\ LET s == pass[p].stage
     IN IF s # 0 /\ owed /\ NotReminded(s)
        THEN demanded' = [demanded EXCEPT ![s] = @ + 1] /\ Passing(p, [pass[p] EXCEPT !.pc = "mark"])
        ELSE demanded' = demanded /\ Passing(p, [pass[p] EXCEPT !.pc = "list"])
  /\ UNCHANGED <<window, stage, counters, owed, reminded, bills, charged, recorder, records,
                 rounds, raced, doubled, crowded>>

\* The mark is committed after the delivery; a second one violates uq_collection_stage and
\* ends the pass.
Mark(p) ==
  /\ pass[p].pc = "mark"
  /\ reminded' = reminded \cup {pass[p].stage}
  /\ Passing(p, IF pass[p].stage \in reminded THEN FreePass ELSE [pass[p] EXCEPT !.pc = "list"])
  /\ UNCHANGED <<window, stage, counters, owed, bills, charged, demanded, recorder, records,
                 rounds, raced, doubled, crowded>>

\* The closed windows over their allowance, as they are now.
ListOverage(p) ==
  /\ pass[p].pc = "list"
  /\ Passing(p, [pass[p] EXCEPT !.pc = "bill", !.saw = used,
                   !.todo = {w \in 1..(pass[p].window - 1) : w \in opened /\ used[w] > Allowance}])
  /\ UNCHANGED <<window, stage, counters, demands, recorder, records, rounds, raced, doubled, crowded>>

NotBilled(w) == bills[w] = 0

\* One bill per project and window, as far as this session can see.
BillOverage(p, w) ==
  /\ pass[p].pc = "bill" /\ w \in pass[p].todo
  /\ Passing(p, [pass[p] EXCEPT !.todo = @ \ {w}, !.bill = w, !.pc = IF NotBilled(w) THEN "charge" ELSE "bill"])
  /\ UNCHANGED <<window, stage, counters, demands, recorder, records, rounds, raced, doubled, crowded>>

\* The payment and its mark, whose unique key names the new payment, are committed after the
\* customer was told.
Charge(p) ==
  /\ pass[p].pc = "charge"
  /\ LET w == pass[p].bill
     IN bills' = [bills EXCEPT ![w] = @ + 1] /\ charged' = [charged EXCEPT ![w] = pass[p].saw[w] - Allowance]
  /\ Passing(p, [pass[p] EXCEPT !.pc = "bill"])
  /\ UNCHANGED <<window, stage, counters, owed, reminded, demanded, recorder, records, rounds,
                 raced, doubled, crowded>>

EndPass(p) ==
  /\ pass[p].pc = "bill" /\ pass[p].todo = {} /\ Passing(p, FreePass)
  /\ UNCHANGED <<window, stage, counters, demands, recorder, records, rounds, raced, doubled, crowded>>

-----------------------------------------------------------------------------
NextWindow ==
  /\ window < MaxWindow /\ window' = window + 1
  /\ UNCHANGED <<stage, counters, demands, recorder, pass, records, rounds, raced, doubled, crowded>>

NextStage ==
  /\ stage < MaxStage /\ stage' = stage + 1
  /\ UNCHANGED <<window, counters, demands, recorder, pass, records, rounds, raced, doubled, crowded>>

\* The renewal order is paid (Settlement).
PayRenewal ==
  /\ owed /\ owed' = FALSE
  /\ UNCHANGED <<window, stage, counters, reminded, bills, charged, demanded, recorder, pass,
                 records, rounds, raced, doubled, crowded>>

\* What was not committed is undone; what was sent is not.
CollectionsRestart ==
  /\ \E p \in Passes : pass[p].pc # "idle"
  /\ pass' = [p \in Passes |-> FreePass] /\ recorder' = [r \in Recorders |-> FreeRecorder]
  /\ crowded' = (crowded \/ \E p \in Passes : pass[p].pc = "mark")
  /\ UNCHANGED <<window, stage, counters, demands, records, rounds, raced, doubled>>

CollectionsNext ==
  \/ \E r \in Recorders : \/ \E u \in Uses, w \in Windows : BeginRecord(r, u, w)
                          \/ ReadUsage(r) \/ Count(r)
  \/ \E p \in Passes : \/ BeginPass(p) \/ Remind(p) \/ Mark(p) \/ ListOverage(p)
                       \/ Charge(p) \/ EndPass(p) \/ \E w \in Windows : BillOverage(p, w)
  \/ NextWindow \/ NextStage \/ PayRenewal \/ CollectionsRestart

CollectionsSpec == CollectionsInit /\ [][CollectionsNext]_collVars

-----------------------------------------------------------------------------
\* "each step of the reminder sequence and each overage bill happens exactly once"
\* (models/billing.py:10): not twice, unless two passes ran at once or a restart came between
\* the delivery of a reminder and its mark.
DemandedOnce ==
  /\ \A s \in Stages : demanded[s] <= 1 \/ crowded
  /\ \A w \in Windows : bills[w] <= 1 \/ crowded

\* A bill is for what the customer used in that window beyond the allowance.  When recorders
\* met, or a use was reported after the bill, it may be for less, and only when two
\* deliveries of one use were counted at once for more (usage.py:177, collections.py:241).
BilledForUse ==
  \A w \in Windows : bills[w] > 0 =>
    LET overage == Cardinality(events[w]) - Allowance
    IN /\ w \notin doubled => charged[w] <= overage
       /\ w \notin raced \cup doubled => charged[w] = overage

Collected == DemandedOnce /\ BilledForUse
=============================================================================
