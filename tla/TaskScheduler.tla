---------------------------- MODULE TaskScheduler ----------------------------
(***************************************************************************)
(* Saved inspection tasks (table inspection_tasks), the scheduler thread   *)
(* (app.py, run_scheduled_tasks) and the requests that edit, toggle,       *)
(* delete and run tasks, composed with the queue: the runs they enqueue    *)
(* live as RunLifecycle says, which InspectionQueue implements, and the    *)
(* worker that begins a run stamps last_run of its task.                   *)
(*                                                                         *)
(* The clock counts minutes and a day has DayMinutes of them, so that a    *)
(* schedule_time comes round again.  Database errors are the queue's       *)
(* subject; here the one that the tables cause themselves is modelled: the *)
(* foreign key of a run whose task has been deleted.                       *)
(***************************************************************************)
EXTENDS Naturals, FiniteSets

CONSTANTS
    Tasks,          \* ids of tasks
    Users,          \* request threads that edit or run tasks
    Tables,         \* bound: what inspection_tasks holds at the beginning
    Scheduler,      \* the scheduler thread
    NoTask,         \* a run of no saved task
    DayMinutes,     \* minutes of a day
    MaxMinute,      \* bound: the last minute of the clock
    MaxRequests,    \* bound: requests of users, deletions apart: a row is
                    \* deleted once
    NoKey,          \* dedupe_key=None
    QueueWorkers,   \* QUEUE_WORKERS
    MaxRuns,        \* bound: rows of inspection_runs
    MaxAttempts,    \* max_attempts of a run
    MaxCrashes      \* bound: times the process dies

ASSUME SchedulerAssumption ==
    /\ DayMinutes \in Nat \ {0}
    /\ MaxMinute \in Nat \ {0}
    /\ MaxRequests \in Nat /\ MaxRuns \in Nat /\ MaxAttempts \in Nat /\ MaxCrashes \in Nat
    /\ NoKey \notin Tasks \X Nat
    /\ Scheduler \notin Users
    /\ NoTask \notin Tasks

VARIABLES
    phase, tries,   \* the runs, as RunLifecycle has them
    rows,       \* rows of inspection_runs so far
    key,        \* key[i]: dedupe_key of row i
    unstamped,  \* running runs whose worker has not stamped the task yet
    up, crashes,
    task,       \* task[t]: row of inspection_tasks
    runTask,    \* runTask[i]: task_id in the payload of run i
    cause,      \* history: task and minute a run was scheduled for
    minute,     \* the clock
    sched,      \* the scheduler thread
    user,       \* user[u]: a request between two of its statements
    requests,   \* requests so far
    steady,     \* history: tasks not edited since the minute began
    covered     \* history: a pass over this minute has ended normally

runVars == <<phase, tries, rows, key, runTask, cause, unstamped>>
process == <<up, crashes>>
table == <<task, steady>>
clock == <<minute, covered>>
vars == <<runVars, process, table, clock, sched, user, requests>>

Runs == 1 .. MaxRuns
Lives == INSTANCE RunLifecycle

Minutes == 0 .. MaxMinute
Times == 0 .. DayMinutes - 1
NoTime == DayMinutes            \* schedule_time ''
DefaultTime == 0                \* "05:00"
Never == MaxMinute + 1          \* last_run NULL

TaskRow == [exists : BOOLEAN, on : BOOLEAN, at : Times \cup {NoTime},
            last : Minutes \cup {Never}]
NoRow == [exists |-> FALSE, on |-> FALSE, at |-> NoTime, last |-> Never]
DailyAt(m) == [exists |-> TRUE, on |-> TRUE, at |-> m, last |-> 0]

ASSUME TablesAssumption ==
    Tables \subseteq [Tasks -> {NoRow} \cup {DailyAt(m) : m \in Times}]

Places == {"down", "sleeping", "listing", "dispatching", "stamping", "maintaining"}
StoppedScheduler == [pc |-> "down", now |-> 0, todo |-> {}, task |-> NoTask]
IdleUser == [pc |-> "idle", task |-> NoTask, on |-> FALSE, at |-> NoTime]

TypeOK ==
    /\ phase \in [Runs -> {"absent", "queued", "running", "success", "failed"}]
    /\ tries \in [Runs -> 0 .. MaxAttempts]
    /\ rows \in 0 .. MaxRuns
    /\ key \in [Runs -> (Tasks \X Minutes) \cup {NoKey}]
    /\ runTask \in [Runs -> Tasks \cup {NoTask}]
    /\ cause \in [Runs -> (Tasks \X Minutes) \cup {NoKey}]
    /\ unstamped \subseteq Runs
    /\ up \in BOOLEAN /\ crashes \in 0 .. MaxCrashes
    /\ task \in [Tasks -> TaskRow]
    /\ steady \subseteq Tasks
    /\ minute \in Minutes /\ covered \in BOOLEAN
    /\ sched \in [pc : Places, now : Minutes, todo : SUBSET Tasks,
                  task : Tasks \cup {NoTask}]
    /\ user \in [Users -> [pc : {"idle", "toggling", "starting"},
                           task : Tasks \cup {NoTask}, on : BOOLEAN,
                           at : Times \cup {NoTime}]]
    /\ requests \in 0 .. MaxRequests

\* The database of an installation in its second minute: tasks that are
\* absent, or enabled and run in the first one.
Init ==
    /\ Lives!Init
    /\ rows = 0
    /\ key = [i \in Runs |-> NoKey]
    /\ runTask = [i \in Runs |-> NoTask]
    /\ cause = [i \in Runs |-> NoKey]
    /\ unstamped = {}
    /\ up = FALSE /\ crashes = 0
    /\ task \in Tables
    /\ steady = Tasks
    /\ minute = 1 /\ covered = FALSE
    /\ sched = StoppedScheduler
    /\ user = [u \in Users |-> IdleUser]
    /\ requests = 0

-----------------------------------------------------------------------------
(* The rows of inspection_runs and of inspection_tasks.                    *)

\* dedupe_key is UNIQUE.
KeyIsFree(k) == k = NoKey \/ \A i \in Runs : key[i] # k

\* create_inspection_run.  The row's foreign key asks for the task.
EnqueueRun(t, k, why) ==
    /\ rows < MaxRuns
    /\ KeyIsFree(k)
    /\ t # NoTask => task[t].exists
    /\ Lives!Submit(rows + 1)
    /\ rows' = rows + 1
    /\ key' = [key EXCEPT ![rows + 1] = k]
    /\ runTask' = [runTask EXCEPT ![rows + 1] = t]
    /\ cause' = [cause EXCEPT ![rows + 1] = why]
    /\ UNCHANGED unstamped

\* update_task_last_run writes the present time, not that of the pass, and
\* changes nothing when the row is gone.
Stamp(t) ==
    /\ task' = IF t # NoTask /\ task[t].exists
               THEN [task EXCEPT ![t].last = minute] ELSE task
    /\ UNCHANGED steady

-----------------------------------------------------------------------------
(* The scheduler thread.                                                   *)

\* Slip: a task that has run earlier on the same day is not due.
DueOnceADay(row, m) ==
    /\ row.exists /\ row.on /\ row.at = m % DayMinutes
    /\ row.last = Never \/ row.last \div DayMinutes # m \div DayMinutes

Due(row, m) ==
    /\ row.exists
    /\ row.on
    /\ row.at = m % DayMinutes
    /\ row.last # m

SchedulerAt(pc) == sched.pc = pc

PassBegins ==
    /\ SchedulerAt("sleeping")
    /\ sched' = [sched EXCEPT !.pc = "listing", !.now = minute]
    /\ UNCHANGED <<runVars, process, table, clock, user, requests>>

\* list_inspection_tasks; the rest of the pass works on this copy.
ListTasks ==
    /\ SchedulerAt("listing")
    /\ sched' = [sched EXCEPT !.pc = "dispatching",
                              !.todo = {t \in Tasks : Due(task[t], sched.now)}]
    /\ UNCHANGED <<runVars, process, table, clock, user, requests>>

\* Slip: no dedupe key, last_run alone keeps a task from running twice.
NoDedupeKey(t) == NoKey
DedupeKey(t) == <<t, sched.now>>

Dispatch(t) ==
    /\ SchedulerAt("dispatching")
    /\ t \in sched.todo
    /\ EnqueueRun(t, DedupeKey(t), <<t, sched.now>>)
    /\ sched' = [sched EXCEPT !.pc = "stamping", !.todo = @ \ {t}, !.task = t]
    /\ UNCHANGED <<process, table, clock, user, requests>>

\* INSERT OR IGNORE ignored the row: there is nothing to stamp.
DispatchDuplicate(t) ==
    /\ SchedulerAt("dispatching")
    /\ t \in sched.todo
    /\ ~KeyIsFree(DedupeKey(t))
    /\ sched' = [sched EXCEPT !.todo = @ \ {t}]
    /\ UNCHANGED <<runVars, process, table, clock, user, requests>>

\* Slip: the exception is not caught by the loop and ends the thread.
DispatchKills(t) ==
    /\ SchedulerAt("dispatching")
    /\ t \in sched.todo
    /\ ~task[t].exists /\ KeyIsFree(DedupeKey(t))
    /\ sched' = StoppedScheduler
    /\ UNCHANGED <<runVars, process, table, clock, user, requests>>

\* The task was deleted after it was listed: the foreign key is violated,
\* which OR IGNORE does not ignore; the rest of the pass and maintenance are
\* given up.
DispatchRaises(t) ==
    /\ SchedulerAt("dispatching")
    /\ t \in sched.todo
    /\ ~task[t].exists /\ KeyIsFree(DedupeKey(t))
    /\ sched' = [sched EXCEPT !.pc = "sleeping", !.todo = {}]
    /\ UNCHANGED <<runVars, process, table, clock, user, requests>>

StampScheduled ==
    /\ SchedulerAt("stamping")
    /\ Stamp(sched.task)
    /\ sched' = [sched EXCEPT !.pc = "dispatching", !.task = NoTask]
    /\ UNCHANGED <<runVars, process, clock, user, requests>>

DispatchEnds ==
    /\ SchedulerAt("dispatching")
    /\ sched.todo = {}
    /\ sched' = [sched EXCEPT !.pc = "maintaining"]
    /\ covered' = (covered \/ sched.now = minute)
    /\ UNCHANGED <<runVars, process, table, minute, user, requests>>

\* ai_service.run_maintenance (AiActions!ExpireActions), then the sleep.
Maintain ==
    /\ SchedulerAt("maintaining")
    /\ sched' = [sched EXCEPT !.pc = "sleeping"]
    /\ UNCHANGED <<runVars, process, table, clock, user, requests>>

-----------------------------------------------------------------------------
(* Requests.  Those that check the row and write it in one statement with  *)
(* its id are one action: the write decides.                               *)

NewRequest == up /\ requests < MaxRequests /\ requests' = requests + 1

Edit(t, row) ==
    /\ task' = [task EXCEPT ![t] = row]
    /\ steady' = steady \ {t}

\* api_save_task: ids are AUTOINCREMENT and never used again.
SaveTask(t) ==
    /\ NewRequest
    /\ task[t] = NoRow /\ t \in steady /\ \A i \in Runs : runTask[i] # t
    /\ \E on \in BOOLEAN, at \in Times \cup {NoTime} :
          Edit(t, [exists |-> TRUE, on |-> on, at |-> at, last |-> Never])
    /\ UNCHANGED <<runVars, process, clock, sched, user>>

\* api_update_task: last_run is not among the columns it writes.
UpdateTask(t) ==
    /\ NewRequest
    /\ task[t].exists
    /\ \E on \in BOOLEAN, at \in Times \cup {NoTime} :
          Edit(t, [task[t] EXCEPT !.on = on, !.at = at])
    /\ UNCHANGED <<runVars, process, clock, sched, user>>

\* api_delete_task: runs keep the id in their payload.
DeleteTask(t) ==
    /\ up
    /\ task[t].exists
    /\ Edit(t, NoRow)
    /\ UNCHANGED <<runVars, process, clock, sched, user, requests>>

Goto(u, pc, t) ==
    user' = [user EXCEPT ![u] = [pc |-> pc, task |-> t, on |-> task[t].on, at |-> task[t].at]]

\* toggle_task_schedule reads the row, then writes both columns.
ReadToggle(u, t) ==
    /\ NewRequest
    /\ user[u] = IdleUser /\ task[t].exists
    /\ Goto(u, "toggling", t)
    /\ UNCHANGED <<runVars, process, table, clock, sched>>

WriteToggle(u) ==
    /\ user[u].pc = "toggling"
    /\ LET t == user[u].task
           on == ~user[u].on
           at == IF on /\ user[u].at = NoTime THEN DefaultTime ELSE user[u].at
       IN  IF task[t].exists THEN Edit(t, [task[t] EXCEPT !.on = on, !.at = at])
           ELSE UNCHANGED table
    /\ user' = [user EXCEPT ![u] = IdleUser]
    /\ UNCHANGED <<runVars, process, clock, sched, requests>>

\* api_run_task reads the task, then enqueues it without a dedupe key.
ReadTask(u, t) ==
    /\ NewRequest
    /\ user[u] = IdleUser /\ task[t].exists
    /\ Goto(u, "starting", t)
    /\ UNCHANGED <<runVars, process, table, clock, sched>>

RunTask(u) ==
    /\ user[u].pc = "starting"
    /\ EnqueueRun(user[u].task, NoKey, NoKey)
    /\ user' = [user EXCEPT ![u] = IdleUser]
    /\ UNCHANGED <<process, table, clock, sched, requests>>

\* Deleted in between: the foreign key is violated and the request fails.
RunTaskFails(u) ==
    /\ user[u].pc = "starting"
    /\ ~task[user[u].task].exists
    /\ user' = [user EXCEPT ![u] = IdleUser]
    /\ UNCHANGED <<runVars, process, table, clock, sched, requests>>

\* api_start_inspection: a run of no task.
StartInspection ==
    /\ NewRequest
    /\ EnqueueRun(NoTask, NoKey, NoKey)
    /\ UNCHANGED <<process, table, clock, sched, user>>

-----------------------------------------------------------------------------
(* Workers, time, crash and restart.                                       *)

\* Each of the QUEUE_WORKERS threads has one run in hand.
BeginRun(i) ==
    /\ up
    /\ Cardinality({j \in Runs : phase[j] = "running"}) < QueueWorkers
    /\ Lives!Begin(i)
    /\ unstamped' = unstamped \cup {i}
    /\ UNCHANGED <<rows, key, runTask, cause, process, table, clock, sched, user, requests>>

\* The worker stamps the task of its run, whatever enqueued the run and
\* whichever attempt this is.
StampBegun(i) ==
    /\ i \in unstamped
    /\ Stamp(runTask[i])
    /\ unstamped' = unstamped \ {i}
    /\ UNCHANGED <<phase, tries, rows, key, runTask, cause, process, clock, sched, user, requests>>

EndAttempt(i) ==
    /\ up
    /\ i \notin unstamped
    /\ Lives!Succeed(i) \/ Lives!Fail(i)
    /\ UNCHANGED <<rows, key, runTask, cause, unstamped, process, table, clock, sched, user, requests>>

MinutePasses ==
    /\ minute < MaxMinute
    /\ minute' = minute + 1
    /\ steady' = Tasks
    /\ covered' = FALSE
    /\ UNCHANGED <<runVars, process, task, sched, user, requests>>

Crash ==
    /\ up /\ crashes < MaxCrashes
    /\ up' = FALSE /\ crashes' = crashes + 1
    /\ sched' = StoppedScheduler
    /\ user' = [u \in Users |-> IdleUser]
    /\ unstamped' = {}
    /\ UNCHANGED <<phase, tries, rows, key, runTask, cause, table, clock, requests>>

\* initialize_runtime: the queue is recovered before the scheduler starts.
Start ==
    /\ ~up
    /\ up' = TRUE
    /\ Lives!Interrupt
    /\ sched' = [StoppedScheduler EXCEPT !.pc = "sleeping"]
    /\ UNCHANGED <<rows, key, runTask, cause, unstamped, crashes, table, clock, user, requests>>

SchedulerStep ==
    \/ PassBegins
    \/ ListTasks
    \/ \E t \in Tasks : Dispatch(t) \/ DispatchDuplicate(t) \/ DispatchRaises(t)
    \/ StampScheduled
    \/ DispatchEnds
    \/ Maintain

UserStep ==
    \/ \E t \in Tasks : SaveTask(t) \/ UpdateTask(t) \/ DeleteTask(t)
    \/ \E u \in Users, t \in Tasks : ReadToggle(u, t) \/ ReadTask(u, t)
    \/ \E u \in Users : WriteToggle(u) \/ RunTask(u) \/ RunTaskFails(u)
    \/ StartInspection

Next ==
    \/ SchedulerStep
    \/ UserStep
    \/ \E i \in Runs : BeginRun(i) \/ StampBegun(i) \/ EndAttempt(i)
    \/ MinutePasses
    \/ Crash
    \/ Start

Spec == Init /\ [][Next]_vars

\* The scheduler loop is a thread of the process, and the service manager
\* restarts the process.
FairSpec == Spec /\ WF_vars(SchedulerStep) /\ WF_vars(Start)

-----------------------------------------------------------------------------
(* Properties.                                                             *)

\* "A task is not enqueued twice in the same minute": not by two passes, by a
\* pass after a restart between insert and last_run, nor after last_run was
\* overwritten by a worker.
OneScheduledRunPerMinute ==
    \A i, j \in Runs : cause[i] # NoKey /\ cause[i] = cause[j] => i = j

\* When a minute ends, a task due in it that nobody edited has been enqueued or
\* was found stamped in that minute, provided one pass over it ended normally;
\* crashes, duplicates and the task's own earlier runs do not make it miss.
DueTaskIsEnqueued ==
    [][minute' # minute /\ covered =>
          \A t \in steady :
              task[t].exists /\ task[t].on /\ task[t].at = minute % DayMinutes =>
                  \/ task[t].last = minute
                  \/ \E i \in Runs : cause[i] = <<t, minute>>]_vars

\* The loop comes back to maintenance, which expires confirmation cards, for
\* ever: passes that are given up because a task was deleted are caught.
MaintenanceGoesOn == []<>SchedulerAt("maintaining")
=============================================================================
