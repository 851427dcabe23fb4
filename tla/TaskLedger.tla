------------------------------ MODULE TaskLedger ------------------------------
(***************************************************************************)
(* What the task queue of src/automation/queue_worker.py promises its      *)
(* clients, without heap, workers or statuses: an accepted task is in one  *)
(* place at a time, waits in a bounded room, is worked on in a bounded     *)
(* number of slots, comes back to the room only while the door is open,    *)
(* and once closed stays closed.                                           *)
(***************************************************************************)
EXTENDS Integers, FiniteSets

CONSTANTS Tasks,  \* the tasks clients may hand in
          Room,   \* how many may wait
          Slots   \* how many may be worked on

VARIABLES place,  \* where each task is
          open    \* whether tasks are accepted

ledgerVars == <<place, open>>

At(p) == {t \in Tasks : place[t] = p}

Move(t, from, to) ==
  /\ place[t] = from
  /\ place' = [place EXCEPT ![t] = to]

LedgerInit ==
  /\ place = [t \in Tasks |-> "new"]
  /\ open = TRUE

Accept(t) == open /\ Cardinality(At("waiting")) < Room
             /\ Move(t, "new", "waiting") /\ UNCHANGED open

Begin(t) == Cardinality(At("active")) < Slots
            /\ Move(t, "waiting", "active") /\ UNCHANGED open

Retry(t) == open /\ Cardinality(At("waiting")) < Room
            /\ Move(t, "active", "waiting") /\ UNCHANGED open

Close(t) == (Move(t, "active", "closed") \/ Move(t, "waiting", "closed"))
            /\ UNCHANGED open

\* Everything still waiting is closed together, with nobody at work.
CloseRest ==
  /\ ~open /\ At("active") = {}
  /\ place' = [t \in Tasks |-> IF place[t] = "waiting" THEN "closed" ELSE place[t]]
  /\ UNCHANGED open

\* The door opens only when nobody is at work.
OpenDoor == At("active") = {} /\ open' = TRUE /\ UNCHANGED place
ShutDoor == open /\ open' = FALSE /\ UNCHANGED place

LedgerNext ==
  \/ \E t \in Tasks : Accept(t) \/ Begin(t) \/ Retry(t) \/ Close(t)
  \/ CloseRest \/ OpenDoor \/ ShutDoor

LedgerSpec == LedgerInit /\ [][LedgerNext]_ledgerVars
=============================================================================
