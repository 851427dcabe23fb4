----------------------------- MODULE Schedules -----------------------------
(***************************************************************************)
(* Schedules (automation/scheduler.py): the rows of the table and the jobs *)
(* in APScheduler's store, which survives a restart too.  An owner's call  *)
(* changes the one and then the other, and the registration that runs in   *)
(* the background after each boot adds a job for every active row and the  *)
(* program's own schedule when it is missing (main.py).                    *)
(*                                                                         *)
(* Abstracted: triggers (a schedule that runs once and is dropped by the   *)
(* scheduler is left out), payloads and what an execution does; the six    *)
(* schedules of the program are one.                                       *)
(***************************************************************************)
EXTENDS Naturals

CONSTANTS
  Schedules,    \* ids, none of which is used twice
  Callers,      \* requests of the owner
  MaxBoots      \* bound: restarts

ASSUME SchedulesAssumption == MaxBoots \in Nat

VARIABLES
  plan,      \* the rows of schedules
  jobs,      \* the job store
  own,       \* rows with the name of the program's own schedule
  caller,    \* what a call has still to do: "job", "row" or nothing, and to which schedule
  boot,      \* the background registration
  boots,
  crossed,   \* history: schedules that two calls, or a call and the registration, were at
  refused    \* history: schedules of which a write of the job or of the row, or the load,
             \* failed since they were loaded last

scheduleVars == <<plan, jobs, own, caller, boot, boots, crossed, refused>>

Rows == {"none", "active", "inactive", "deleted"}
Caller == [todo : {"nothing", "add", "delete", "deactivate"}, ids : SUBSET Schedules]
IdleCaller == [todo |-> "nothing", ids |-> {}]

SchedulesTypeOK ==
  /\ plan \in [Schedules -> Rows] /\ jobs \subseteq Schedules /\ own \subseteq Schedules
  /\ caller \in [Callers -> Caller] /\ boots \in 0..MaxBoots
  /\ boot \in [pc : {"load", "add", "ensure", "done"}, todo : SUBSET Schedules]
  /\ crossed \subseteq Schedules /\ refused \subseteq Schedules

SchedulesInit ==
  /\ plan = [i \in Schedules |-> "none"] /\ jobs = {} /\ own = {}
  /\ caller = [c \in Callers |-> IdleCaller] /\ boot = [pc |-> "load", todo |-> {}] /\ boots = 0
  /\ crossed = {} /\ refused = {}

Exists(i) == plan[i] \in {"active", "inactive"}
Calls(c, todo, i) == caller' = [caller EXCEPT ![c] = [todo |-> todo, ids |-> {i}]]
Returns(c) == caller' = [caller EXCEPT ![c] = IdleCaller]
AtWork(i) == i \in boot.todo \/ \E c \in Callers : i \in caller[c].ids
Meets(i) == crossed' = crossed \cup {j \in {i} : AtWork(j)}
Idle(c) == caller[c].todo = "nothing"

-----------------------------------------------------------------------------
(* add_schedule and enable_schedule: the row, then the job.                *)

CreateSchedule(c, i) ==
  /\ Idle(c) /\ plan[i] = "none"
  /\ plan' = [plan EXCEPT ![i] = "active"] /\ Calls(c, "add", i)
  /\ UNCHANGED <<jobs, own, boot, boots, crossed, refused>>

EnableSchedule(c, i) ==
  /\ Idle(c) /\ Exists(i) /\ Meets(i)
  /\ plan' = [plan EXCEPT ![i] = "active"] /\ Calls(c, "add", i)
  /\ UNCHANGED <<jobs, own, boot, boots, refused>>

\* replace_existing: adding a job twice leaves one. The store, and before it in add_schedule
\* the refresh of the committed row, may fail.
AddJob(c) ==
  /\ caller[c].todo = "add" /\ Returns(c)
  /\ \/ jobs' = jobs \cup caller[c].ids /\ UNCHANGED refused
     \/ refused' = refused \cup caller[c].ids /\ UNCHANGED jobs
  /\ UNCHANGED <<plan, own, boot, boots, crossed>>

-----------------------------------------------------------------------------
(* remove_schedule and disable_schedule: the job, then the row.            *)

NoDrop(i) == jobs  \* mutant: the job of a deleted schedule stays
DropJob(i) == jobs \ {i}

\* _remove_job_quiet passes over every failure of the store.
DropSchedule(c, i) ==
  /\ Idle(c) /\ plan[i] # "none" /\ Meets(i)
  /\ \/ jobs' = DropJob(i) /\ UNCHANGED refused
     \/ refused' = refused \cup {i} /\ UNCHANGED jobs
  /\ \E todo \in {"delete", "deactivate"} : Calls(c, todo, i)
  /\ UNCHANGED <<plan, own, boot, boots>>

\* A row that is gone is passed over; a select or commit that fails leaves the row.
WriteRow(c) ==
  /\ caller[c].todo \in {"delete", "deactivate"} /\ Returns(c)
  /\ \/ /\ plan' = [i \in Schedules |->
                      IF i \in caller[c].ids /\ Exists(i)
                      THEN IF caller[c].todo = "delete" THEN "deleted" ELSE "inactive"
                      ELSE plan[i]]
        /\ UNCHANGED refused
     \/ refused' = refused \cup caller[c].ids /\ UNCHANGED plan
  /\ UNCHANGED <<jobs, own, boot, boots, crossed>>

-----------------------------------------------------------------------------
(* After a boot: _register_scheduler_jobs, _load_schedules_from_db and the *)
(* ensure_ functions.                                                      *)

EveryRow(i) == Exists(i)  \* mutant: inactive schedules are loaded too
ToLoad(i) == plan[i] = "active"

LoadSchedules ==
  /\ boot.pc = "load"
  /\ boot' = [pc |-> "add", todo |-> {i \in Schedules : ToLoad(i)}]
  /\ crossed' = crossed \cup {i \in Schedules : \E c \in Callers : i \in caller[c].ids}
  /\ refused' = {i \in refused : ~ToLoad(i)}
  /\ UNCHANGED <<plan, jobs, own, caller, boots>>

\* One job at a time in a thread; one that cannot be added is skipped.
LoadJob(i) ==
  /\ boot.pc = "add" /\ i \in boot.todo
  /\ boot' = [boot EXCEPT !.todo = @ \ {i}]
  /\ \/ jobs' = jobs \cup {i} /\ UNCHANGED refused
     \/ refused' = refused \cup {i} /\ UNCHANGED jobs
  /\ UNCHANGED <<plan, own, caller, boots, crossed>>

\* The query, or the session it is read in, fails: what is not loaded yet is not loaded, and
\* the registration goes on (scheduler.py:113).
LoadFails ==
  /\ boot.pc \in {"load", "add"}
  /\ boot' = [pc |-> "ensure", todo |-> {}]
  /\ refused' = refused \cup IF boot.pc = "load" THEN {i \in Schedules : ToLoad(i)} ELSE boot.todo
  /\ UNCHANGED <<plan, jobs, own, caller, boots, crossed>>

Loaded ==
  /\ boot.pc = "add" /\ boot.todo = {} /\ boot' = [boot EXCEPT !.pc = "ensure"]
  /\ UNCHANGED <<plan, jobs, own, caller, boots, crossed, refused>>

\* ensure_renewal_schedule and its like: nothing if a row has the name, whatever its state.
Ensure ==
  /\ boot.pc = "ensure" /\ boot.todo = {}
  /\ IF \E i \in own : Exists(i) THEN boot' = [boot EXCEPT !.pc = "done"] /\ UNCHANGED <<plan, own>>
     ELSE \E i \in Schedules :
            /\ plan[i] = "none" /\ plan' = [plan EXCEPT ![i] = "active"] /\ own' = own \cup {i}
            /\ boot' = [boot EXCEPT !.todo = {i}]
  /\ UNCHANGED <<jobs, caller, boots, crossed, refused>>

\* It passes over every failure: without the row ...
EnsureFails ==
  /\ boot.pc = "ensure" /\ boot.todo = {} /\ boot' = [boot EXCEPT !.pc = "done"]
  /\ UNCHANGED <<plan, jobs, own, caller, boots, crossed, refused>>

\* ... or without the job of a row that was committed.
EnsureJob(i) ==
  /\ boot.pc = "ensure" /\ i \in boot.todo
  /\ boot' = [pc |-> "done", todo |-> {}]
  /\ \/ jobs' = jobs \cup {i} /\ UNCHANGED refused
     \/ refused' = refused \cup {i} /\ UNCHANGED jobs
  /\ UNCHANGED <<plan, own, caller, boots, crossed>>

\* Calls in progress and the registration are cut off; rows and jobs are kept.
Reboot ==
  /\ boots < MaxBoots /\ boots' = boots + 1
  /\ caller' = [c \in Callers |-> IdleCaller] /\ boot' = [pc |-> "load", todo |-> {}]
  /\ UNCHANGED <<plan, jobs, own, crossed, refused>>

SchedulesNext ==
  \/ \E c \in Callers :
       \/ \E i \in Schedules : CreateSchedule(c, i) \/ EnableSchedule(c, i) \/ DropSchedule(c, i)
       \/ AddJob(c) \/ WriteRow(c)
  \/ \E i \in Schedules : LoadJob(i) \/ EnsureJob(i)
  \/ LoadSchedules \/ LoadFails \/ Loaded \/ Ensure \/ EnsureFails \/ Reboot

SchedulesSpec == SchedulesInit /\ [][SchedulesNext]_scheduleVars

-----------------------------------------------------------------------------
\* Once the registration after a boot is done, the jobs are those of the active schedules,
\* but for calls in progress: after restarts between the two writes of a call, too.  Not so
\* when two calls, or a call and the registration, met at a schedule (scheduler.py:99), nor
\* when one of the swallowed or late failures hit it: of the job store (:65, :105, :183), of
\* the load (:113), of the refresh behind a committed row (:180) or of the row's write behind
\* a dropped job (:190, :217).  The next boot that loads an active row brings its job back.
JobsMatchSchedules ==
  boot.pc = "done" =>
    \A i \in Schedules \ (crossed \cup refused) : AtWork(i) \/ (i \in jobs <=> plan[i] = "active")
=============================================================================
