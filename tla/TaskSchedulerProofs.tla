-------------------------- MODULE TaskSchedulerProofs --------------------------
(***************************************************************************)
(* At most one scheduled run per task and minute, and one for every task   *)
(* that a pass finds due, for any number of tasks, users, runs and crashes *)
(* and for any length of the day.                                          *)
(*                                                                         *)
(* The first needs neither last_run nor the order of the steps: a          *)
(* scheduled run has the task and the minute as its dedupe key             *)
(* (CauseIsKey), and two rows with one key do not exist (KeysAreUnique),   *)
(* whoever inserts them.  The second follows a pass: the tasks that are    *)
(* due and that nobody edits are still to do or dealt with                 *)
(* (PassOnCourse), and once a pass has covered the minute they are all     *)
(* dealt with (NothingLeftOut): enqueued, or stamped in that minute.       *)
(***************************************************************************)
EXTENDS TaskScheduler, TLAPS

CauseIsKey == \A i \in Runs : cause[i] # NoKey => key[i] = cause[i]
KeysAreUnique == \A i, j \in Runs : key[i] # NoKey /\ key[i] = key[j] => i = j
RowsOK == key = [i \in Runs |-> key[i]] /\ cause = [i \in Runs |-> cause[i]]

IInv == RowsOK /\ CauseIsKey /\ KeysAreUnique

\* The empty table.
LEMMA InitImpliesInv == Init => IInv
  BY DEF Init, IInv, RowsOK, CauseIsKey, KeysAreUnique

\* create_inspection_run: the row takes a free key, or none, and a scheduled
\* run is enqueued under what it is scheduled for.
LEMMA EnqueueKeepsInv ==
  ASSUME IInv, NEW t, NEW k, NEW why, EnqueueRun(t, k, why), why = NoKey \/ k = why
  PROVE  IInv'
<1> DEFINE new == rows + 1
<1>1. /\ key' = [key EXCEPT ![new] = k] /\ cause' = [cause EXCEPT ![new] = why]
      /\ k = NoKey \/ \A i \in Runs : key[i] # k
  BY DEF EnqueueRun, KeyIsFree
<1> HIDE DEF new
<1>2. \A i \in Runs : key'[i] = (IF i = new THEN k ELSE key[i])
                      /\ cause'[i] = (IF i = new THEN why ELSE cause[i])
  BY <1>1 DEF IInv, RowsOK
<1>3. RowsOK'
  BY <1>1 DEF IInv, RowsOK
<1>4. CauseIsKey'
  BY <1>2 DEF IInv, CauseIsKey
<1>5. KeysAreUnique'
  BY <1>1, <1>2 DEF IInv, KeysAreUnique
<1> QED BY <1>3, <1>4, <1>5 DEF IInv

\* The other steps leave the keys alone.
LEMMA KeysStay == ASSUME IInv, UNCHANGED <<key, cause>> PROVE IInv'
  BY DEF IInv, RowsOK, CauseIsKey, KeysAreUnique

\* Every step of the scheduler, the users, the workers and the process.
LEMMA StepPreservesInv == IInv /\ [Next]_vars => IInv'
<1> SUFFICES ASSUME IInv, [Next]_vars PROVE IInv'
  OBVIOUS
<1>1. CASE SchedulerStep
  <2>1. ASSUME NEW t \in Tasks, Dispatch(t) PROVE IInv'
    BY <2>1, EnqueueKeepsInv DEF Dispatch, DedupeKey
  <2>2. CASE PassBegins \/ ListTasks \/ StampScheduled \/ DispatchEnds \/ Maintain
    BY <2>2, KeysStay
    DEF PassBegins, ListTasks, StampScheduled, DispatchEnds, Maintain, runVars
  <2>3. ASSUME NEW t \in Tasks, DispatchDuplicate(t) \/ DispatchRaises(t) PROVE IInv'
    BY <2>3, KeysStay DEF DispatchDuplicate, DispatchRaises, runVars
  <2> QED BY <1>1, <2>1, <2>2, <2>3 DEF SchedulerStep
<1>2. CASE UserStep
  <2>1. ASSUME NEW t \in Tasks, SaveTask(t) \/ UpdateTask(t) \/ DeleteTask(t) PROVE IInv'
    BY <2>1, KeysStay DEF SaveTask, UpdateTask, DeleteTask, runVars
  <2>2. ASSUME NEW u \in Users, NEW t \in Tasks, ReadToggle(u, t) \/ ReadTask(u, t) PROVE IInv'
    BY <2>2, KeysStay DEF ReadToggle, ReadTask, runVars
  <2>3. ASSUME NEW u \in Users, WriteToggle(u) \/ RunTaskFails(u) PROVE IInv'
    BY <2>3, KeysStay DEF WriteToggle, RunTaskFails, runVars
  <2>4. ASSUME NEW u \in Users, RunTask(u) PROVE IInv'
    BY <2>4, EnqueueKeepsInv DEF RunTask
  <2>5. CASE StartInspection
    BY <2>5, EnqueueKeepsInv DEF StartInspection
  <2> QED BY <1>2, <2>1, <2>2, <2>3, <2>4, <2>5 DEF UserStep
<1>3. ASSUME NEW i \in Runs, BeginRun(i) \/ StampBegun(i) \/ EndAttempt(i) PROVE IInv'
  BY <1>3, KeysStay DEF BeginRun, StampBegun, EndAttempt
<1>4. CASE MinutePasses
  BY <1>4, KeysStay DEF MinutePasses, runVars
<1>5. CASE Crash
  BY <1>5, KeysStay DEF Crash
<1>6. CASE Start
  BY <1>6, KeysStay DEF Start
<1>7. CASE UNCHANGED vars
  BY <1>7, KeysStay DEF vars, runVars
<1> QED BY <1>1, <1>2, <1>3, <1>4, <1>5, <1>6, <1>7 DEF Next

\* dispatch_scheduled_tasks enqueues a task at most once in a minute: not twice
\* in one pass, not in two passes, not after a crash between the insert and
\* update_task_last_run, and not after a worker has overwritten last_run.
THEOREM ScheduledOncePerMinute == Spec => []OneScheduledRunPerMinute
<1>1. Init => IInv
  BY InitImpliesInv
<1>2. IInv /\ [Next]_vars => IInv'
  BY StepPreservesInv
<1>3. IInv => OneScheduledRunPerMinute
  BY DEF IInv, CauseIsKey, KeysAreUnique, OneScheduledRunPerMinute
<1> QED BY <1>1, <1>2, <1>3, PTL DEF Spec

-----------------------------------------------------------------------------
(* Types.                                                                  *)

\* The record of a task keeps its type under every UPDATE.
LEMMA EditedRow ==
  ASSUME NEW row \in TaskRow, NEW on \in BOOLEAN, NEW at \in Times \cup {NoTime}
  PROVE  [row EXCEPT !.on = on, !.at = at] \in TaskRow
  BY Zenon DEF TaskRow

LEMMA StampedRow ==
  ASSUME NEW row \in TaskRow, NEW m \in Minutes
  PROVE  [row EXCEPT !.last = m] \in TaskRow
<1>1. m \in Minutes \cup {Never}
  OBVIOUS
<1> QED BY <1>1, Zenon DEF TaskRow

\* What a task begins with, and the default of schedule_time.
LEMMA Values ==
  /\ NoRow \in TaskRow /\ DefaultTime \in Times
  /\ \A m \in Times : DailyAt(m) \in TaskRow
  /\ \A on \in BOOLEAN, at \in Times \cup {NoTime} :
        [exists |-> TRUE, on |-> on, at |-> at, last |-> Never] \in TaskRow
  /\ DayMinutes \in Nat /\ MaxMinute \in Nat /\ MaxMinute > 0
  /\ MaxRuns \in Nat /\ MaxAttempts \in Nat /\ MaxRequests \in Nat /\ MaxCrashes \in Nat
  BY SchedulerAssumption
  DEF NoRow, TaskRow, DefaultTime, Times, DailyAt, NoTime, Never, Minutes

\* create_inspection_run adds a row of the type.
LEMMA EnqueueTypes ==
  ASSUME TypeOK, NEW t \in Tasks \cup {NoTask}, NEW k \in (Tasks \X Minutes) \cup {NoKey},
         NEW why \in (Tasks \X Minutes) \cup {NoKey}, EnqueueRun(t, k, why)
  PROVE  /\ phase' \in [Runs -> {"absent", "queued", "running", "success", "failed"}]
         /\ tries' \in [Runs -> 0 .. MaxAttempts]
         /\ rows' \in 0 .. MaxRuns
         /\ key' \in [Runs -> (Tasks \X Minutes) \cup {NoKey}]
         /\ runTask' \in [Runs -> Tasks \cup {NoTask}]
         /\ cause' \in [Runs -> (Tasks \X Minutes) \cup {NoKey}]
         /\ unstamped' \subseteq Runs
<1>1. rows' \in 0 .. MaxRuns
  BY Values DEF TypeOK, EnqueueRun
<1>2. /\ key' = [key EXCEPT ![rows + 1] = k] /\ runTask' = [runTask EXCEPT ![rows + 1] = t]
      /\ cause' = [cause EXCEPT ![rows + 1] = why]
      /\ phase' = [phase EXCEPT ![rows + 1] = "queued"] /\ UNCHANGED <<tries, unstamped>>
  BY DEF EnqueueRun, Lives!Submit
<1> QED BY <1>1, <1>2 DEF TypeOK

\* Every step keeps the types.
LEMMA StepKeepsTypes == TypeOK /\ [Next]_vars => TypeOK'
<1> SUFFICES ASSUME TypeOK, [Next]_vars PROVE TypeOK'
  OBVIOUS
<1>0. ASSUME NewRequest PROVE requests' \in 0 .. MaxRequests
  BY <1>0, Values DEF NewRequest, TypeOK
<1>1. CASE SchedulerStep
  <2>1. CASE PassBegins
    BY <2>1 DEF PassBegins, TypeOK, Places, runVars, process, table, clock
  <2>2. CASE ListTasks
    BY <2>2 DEF ListTasks, TypeOK, Places, runVars, process, table, clock
  <2>3. ASSUME NEW t \in Tasks, Dispatch(t) PROVE TypeOK'
    <3>1. DedupeKey(t) \in Tasks \X Minutes /\ DedupeKey(t) = <<t, sched.now>>
      BY DEF DedupeKey, TypeOK
    <3>2. EnqueueRun(t, DedupeKey(t), <<t, sched.now>>)
      BY <2>3 DEF Dispatch
    <3>3. sched' = [sched EXCEPT !.pc = "stamping", !.todo = @ \ {t}, !.task = t]
          /\ UNCHANGED <<process, table, clock, user, requests>>
      BY <2>3 DEF Dispatch
    <3>4. sched' \in [pc : Places, now : Minutes, todo : SUBSET Tasks,
                      task : Tasks \cup {NoTask}]
      BY <3>3 DEF TypeOK, Places
    <3> QED BY <3>1, <3>2, <3>3, <3>4, EnqueueTypes DEF TypeOK, process, table, clock
  <2>4. ASSUME NEW t \in Tasks, DispatchDuplicate(t) PROVE TypeOK'
    BY <2>4 DEF DispatchDuplicate, TypeOK, Places, runVars, process, table, clock
  <2>5. ASSUME NEW t \in Tasks, DispatchRaises(t) PROVE TypeOK'
    BY <2>5 DEF DispatchRaises, TypeOK, Places, runVars, process, table, clock
  <2>6. CASE StampScheduled
    <3>1. task' \in [Tasks -> TaskRow] /\ steady' = steady
      BY <2>6, StampedRow DEF StampScheduled, Stamp, TypeOK
    <3>2. sched' \in [pc : Places, now : Minutes, todo : SUBSET Tasks,
                      task : Tasks \cup {NoTask}]
      BY <2>6 DEF StampScheduled, TypeOK, Places
    <3> QED BY <2>6, <3>1, <3>2 DEF StampScheduled, TypeOK, runVars, process, clock
  <2>7. CASE DispatchEnds
    <3>1. covered' \in BOOLEAN
      BY <2>7 DEF DispatchEnds, TypeOK
    <3> QED BY <2>7, <3>1 DEF DispatchEnds, TypeOK, Places, runVars, process, table
  <2>8. CASE Maintain
    BY <2>8 DEF Maintain, TypeOK, Places, runVars, process, table, clock
  <2> QED BY <1>1, <2>1, <2>2, <2>3, <2>4, <2>5, <2>6, <2>7, <2>8 DEF SchedulerStep
<1>2. CASE UserStep
  <2>1. ASSUME NEW t \in Tasks, NEW row \in TaskRow, Edit(t, row)
        PROVE  task' \in [Tasks -> TaskRow] /\ steady' \subseteq Tasks
    BY <2>1 DEF Edit, TypeOK
  <2>2. ASSUME NEW t \in Tasks, SaveTask(t) PROVE TypeOK'
    <3>1. task' \in [Tasks -> TaskRow] /\ steady' \subseteq Tasks
      BY <2>1, <2>2, Values DEF SaveTask
    <3> QED BY <1>0, <2>2, <3>1 DEF SaveTask, TypeOK, runVars, process, clock
  <2>3. ASSUME NEW t \in Tasks, UpdateTask(t) PROVE TypeOK'
    <3>0. task[t] \in TaskRow
      BY DEF TypeOK
    <3>1. PICK on \in BOOLEAN, at \in Times \cup {NoTime} :
             Edit(t, [task[t] EXCEPT !.on = on, !.at = at])
      BY <2>3 DEF UpdateTask
    <3>2. \A row \in TaskRow : [row EXCEPT !.on = on, !.at = at] \in TaskRow
      BY EditedRow
    <3>3. task' \in [Tasks -> TaskRow] /\ steady' \subseteq Tasks
      BY <2>1, <3>0, <3>1, <3>2
    <3> QED BY <1>0, <2>3, <3>3 DEF UpdateTask, TypeOK, runVars, process, clock
  <2>4. ASSUME NEW t \in Tasks, DeleteTask(t) PROVE TypeOK'
    <3>1. task' \in [Tasks -> TaskRow] /\ steady' \subseteq Tasks
      BY <2>1, <2>4, Values DEF DeleteTask
    <3> QED BY <2>4, <3>1 DEF DeleteTask, TypeOK, runVars, process, clock
  <2> DEFINE Request == [pc : {"idle", "toggling", "starting"}, task : Tasks \cup {NoTask},
                         on : BOOLEAN, at : Times \cup {NoTime}]
  <2>5. ASSUME NEW u \in Users, NEW t \in Tasks, NEW pc \in {"toggling", "starting"},
               Goto(u, pc, t)
        PROVE  user' \in [Users -> Request]
    <3>1. task[t].on \in BOOLEAN /\ task[t].at \in Times \cup {NoTime}
      BY DEF TypeOK, TaskRow
    <3>2. [pc |-> pc, task |-> t, on |-> task[t].on, at |-> task[t].at] \in Request
      BY <3>1
    <3> HIDE DEF Request
    <3> QED BY <2>5, <3>2 DEF Goto, TypeOK, Request
  <2>6. ASSUME NEW u \in Users, NEW t \in Tasks, ReadToggle(u, t) \/ ReadTask(u, t)
        PROVE  TypeOK'
    <3>1. user' \in [Users -> Request]
      BY <2>5, <2>6 DEF ReadToggle, ReadTask
    <3>2. /\ NewRequest /\ UNCHANGED <<runVars, process, table, clock, sched>>
      BY <2>6 DEF ReadToggle, ReadTask
    <3> QED BY <1>0, <3>1, <3>2 DEF TypeOK, runVars, process, table, clock
  <2>7. ASSUME NEW u \in Users, user' = [user EXCEPT ![u] = IdleUser]
        PROVE  user' \in [Users -> Request]
    BY <2>7 DEF TypeOK, IdleUser
  <2>8. ASSUME NEW u \in Users, WriteToggle(u) PROVE TypeOK'
    <3> DEFINE t == user[u].task
               on == ~user[u].on
               at == IF on /\ user[u].at = NoTime THEN DefaultTime ELSE user[u].at
    <3>1. on \in BOOLEAN /\ at \in Times \cup {NoTime}
      BY Values DEF TypeOK
    <3>2. CASE task[t].exists /\ t \in Tasks
      <4>1. Edit(t, [task[t] EXCEPT !.on = on, !.at = at])
        BY <2>8, <3>2 DEF WriteToggle
      <4>2. task[t] \in TaskRow
        BY <3>2 DEF TypeOK
      <4> HIDE DEF t, on, at
      <4>3. \A row \in TaskRow : [row EXCEPT !.on = on, !.at = at] \in TaskRow
        BY <3>1, EditedRow
      <4>4. task' \in [Tasks -> TaskRow] /\ steady' \subseteq Tasks
        BY <2>1, <3>2, <4>1, <4>2, <4>3
      <4> QED BY <2>7, <2>8, <4>4 DEF WriteToggle, TypeOK, runVars, process, clock
    <3>3. CASE ~(task[t].exists /\ t \in Tasks)
      <4>1. task' \in [Tasks -> TaskRow] /\ steady' \subseteq Tasks
        <5>1. CASE ~task[t].exists
          <6>1. UNCHANGED table
            BY <2>8, <5>1 DEF WriteToggle
          <6> QED BY <6>1 DEF table, TypeOK
        <5>2. CASE task[t].exists /\ t \notin Tasks
          <6>1. Edit(t, [task[t] EXCEPT !.on = on, !.at = at])
            BY <2>8, <5>2 DEF WriteToggle
          <6> HIDE DEF t, on, at
          <6> QED BY <5>2, <6>1 DEF Edit, TypeOK
        <5> QED BY <3>3, <5>1, <5>2
      <4> QED BY <2>7, <2>8, <4>1 DEF WriteToggle, TypeOK, runVars, process, clock
    <3> QED BY <3>2, <3>3
  <2>9. ASSUME NEW u \in Users, RunTask(u) PROVE TypeOK'
    <3>1. user[u].task \in Tasks \cup {NoTask}
      BY DEF TypeOK
    <3>2. EnqueueRun(user[u].task, NoKey, NoKey) /\ user' = [user EXCEPT ![u] = IdleUser]
          /\ UNCHANGED <<process, table, clock, sched, requests>>
      BY <2>9 DEF RunTask
    <3>3. NoKey \in (Tasks \X Minutes) \cup {NoKey}
      OBVIOUS
    <3> QED BY <2>7, <3>1, <3>2, <3>3, EnqueueTypes DEF TypeOK, process, table, clock
  <2>10. ASSUME NEW u \in Users, RunTaskFails(u) PROVE TypeOK'
    BY <2>7, <2>10 DEF RunTaskFails, TypeOK, runVars, process, table, clock
  <2>11. CASE StartInspection
    <3>1. EnqueueRun(NoTask, NoKey, NoKey) /\ NewRequest
          /\ UNCHANGED <<process, table, clock, sched, user>>
      BY <2>11 DEF StartInspection
    <3>2. NoKey \in (Tasks \X Minutes) \cup {NoKey} /\ NoTask \in Tasks \cup {NoTask}
      OBVIOUS
    <3> QED BY <1>0, <3>1, <3>2, EnqueueTypes DEF TypeOK, process, table, clock
  <2> QED BY <1>2, <2>2, <2>3, <2>4, <2>6, <2>8, <2>9, <2>10, <2>11 DEF UserStep
<1>3. ASSUME NEW i \in Runs, BeginRun(i) PROVE TypeOK'
  <2>1. phase' \in [Runs -> {"absent", "queued", "running", "success", "failed"}]
        /\ tries' \in [Runs -> 0 .. MaxAttempts]
    BY <1>3, Values DEF BeginRun, Lives!Begin, TypeOK
  <2> QED BY <1>3, <2>1 DEF BeginRun, TypeOK, process, table, clock
<1>4. ASSUME NEW i \in Runs, StampBegun(i) PROVE TypeOK'
  <2>1. task' \in [Tasks -> TaskRow] /\ steady' = steady
    BY <1>4, StampedRow DEF StampBegun, Stamp, TypeOK
  <2> QED BY <1>4, <2>1 DEF StampBegun, TypeOK, process, clock
<1>5. ASSUME NEW i \in Runs, EndAttempt(i) PROVE TypeOK'
  <2>1. phase' \in [Runs -> {"absent", "queued", "running", "success", "failed"}]
        /\ tries' = tries
    BY <1>5 DEF EndAttempt, Lives!Succeed, Lives!Fail, Lives!Unsuccessful, TypeOK
  <2> QED BY <1>5, <2>1 DEF EndAttempt, TypeOK, process, table, clock
<1>6. CASE MinutePasses
  <2>1. minute' \in Minutes
    BY <1>6, Values DEF MinutePasses, Minutes, TypeOK
  <2> QED BY <1>6, <2>1 DEF MinutePasses, TypeOK, runVars, process
<1>7. StoppedScheduler \in [pc : Places, now : Minutes, todo : SUBSET Tasks,
                            task : Tasks \cup {NoTask}]
  BY Values DEF StoppedScheduler, Places, Minutes
<1>8. CASE Crash
  <2>1. user' \in [Users -> [pc : {"idle", "toggling", "starting"}, task : Tasks \cup {NoTask},
                             on : BOOLEAN, at : Times \cup {NoTime}]]
    BY <1>8 DEF Crash, IdleUser
  <2>2. crashes' \in 0 .. MaxCrashes /\ up' = FALSE
    BY <1>8, Values DEF Crash, TypeOK
  <2>3. up' \in BOOLEAN
    BY <2>2
  <2> QED BY <1>7, <1>8, <2>1, <2>2, <2>3 DEF Crash, TypeOK, table, clock
<1>9. CASE Start
  <2>1. phase' \in [Runs -> {"absent", "queued", "running", "success", "failed"}]
        /\ tries' = tries
    BY <1>9 DEF Start, Lives!Interrupt, Lives!Unsuccessful, TypeOK
  <2>2. sched' \in [pc : Places, now : Minutes, todo : SUBSET Tasks, task : Tasks \cup {NoTask}]
    <3>1. sched' = [pc |-> "sleeping", now |-> 0, todo |-> {}, task |-> NoTask]
      BY <1>9 DEF Start, StoppedScheduler
    <3> QED BY <3>1, Values DEF Places, Minutes
  <2>3. up' \in BOOLEAN
    BY <1>9 DEF Start
  <2> QED BY <1>9, <2>1, <2>2, <2>3 DEF Start, TypeOK, table, clock
<1>10. CASE UNCHANGED vars
  BY <1>10 DEF vars, runVars, process, table, clock, TypeOK
<1> QED BY <1>1, <1>2, <1>3, <1>4, <1>5, <1>6, <1>8, <1>9, <1>10 DEF Next

\* The tables of an installation are of the type.
LEMMA InitHasTypes == Init => TypeOK
<1> SUFFICES ASSUME Init PROVE TypeOK
  OBVIOUS
<1>1. task \in [Tasks -> TaskRow]
  <2>1. task \in [Tasks -> {NoRow} \cup {DailyAt(m) : m \in Times}]
    BY TablesAssumption DEF Init
  <2>2. {NoRow} \cup {DailyAt(m) : m \in Times} \subseteq TaskRow
    BY Values
  <2> QED BY <2>1, <2>2
<1>2. phase \in [Runs -> {"absent", "queued", "running", "success", "failed"}]
      /\ tries \in [Runs -> 0 .. MaxAttempts]
  BY Values DEF Init, Lives!Init
<1>3. sched \in [pc : Places, now : Minutes, todo : SUBSET Tasks, task : Tasks \cup {NoTask}]
  BY Values DEF Init, StoppedScheduler, Places, Minutes
<1>4. user \in [Users -> [pc : {"idle", "toggling", "starting"}, task : Tasks \cup {NoTask},
                          on : BOOLEAN, at : Times \cup {NoTime}]]
  BY DEF Init, IdleUser
<1>5. minute \in Minutes /\ rows \in 0 .. MaxRuns /\ crashes \in 0 .. MaxCrashes
      /\ requests \in 0 .. MaxRequests
  BY Values DEF Init, Minutes
<1>6. up \in BOOLEAN /\ covered \in BOOLEAN
  BY DEF Init
<1> QED BY <1>1, <1>2, <1>3, <1>4, <1>5, <1>6 DEF Init, TypeOK

\* Tasks, runs, the scheduler and the requests keep their types.
THEOREM TypeCorrect == Spec => []TypeOK
<1> QED BY InitHasTypes, StepKeepsTypes, PTL DEF Spec

-----------------------------------------------------------------------------
(* No task that is due is left out.                                        *)

\* The pass that makes covered true has every task of its minute dealt with:
\* enqueued, found enqueued, or found stamped.
ScheduledNow(t) == task[t].exists /\ task[t].on /\ task[t].at = minute % DayMinutes
DealtWith(t) == task[t].last = minute \/ \E i \in Runs : cause[i] = <<t, minute>>

KeyIsCause == \A i \in Runs : key[i] # NoKey => cause[i] = key[i]
AbsentHasNoCause == \A i \in Runs : phase[i] = "absent" => cause[i] = NoKey
PassOnCourse ==
    /\ sched.now <= minute
    /\ sched.pc \in {"dispatching", "stamping"} /\ sched.now = minute =>
          \A t \in steady : ScheduledNow(t) => t \in sched.todo \/ DealtWith(t)
NothingLeftOut == covered => \A t \in steady : ScheduledNow(t) => DealtWith(t)

PInv == TypeOK /\ KeyIsCause /\ AbsentHasNoCause /\ PassOnCourse /\ NothingLeftOut

\* The minute and the causes of runs are what DealtWith is about.
LEMMA MinuteIsNat == TypeOK => minute \in Nat /\ \A t \in Tasks : <<t, minute>> # NoKey
  BY SchedulerAssumption, Values DEF TypeOK, Minutes

\* As long as the minute lasts, a task that nobody edits stays scheduled or not,
\* and what was dealt with stays so: last_run is only ever set to this minute.
LEMMA DealtWithStays ==
  ASSUME TypeOK, minute' = minute, NEW t \in Tasks,
         task'[t] = task[t] \/ task'[t] = [task[t] EXCEPT !.last = minute],
         \A i \in Runs : cause[i] # NoKey => cause'[i] = cause[i]
  PROVE  /\ ScheduledNow(t)' => ScheduledNow(t)
         /\ DealtWith(t) => DealtWith(t)'
<1>1. task[t] \in TaskRow
  BY DEF TypeOK
<1>2. /\ task'[t].exists = task[t].exists /\ task'[t].on = task[t].on
      /\ task'[t].at = task[t].at /\ task'[t].last \in {task[t].last, minute}
  BY <1>1 DEF TaskRow
<1>3. \A i \in Runs : cause[i] = <<t, minute>> => cause'[i] = <<t, minute>>
  BY MinuteIsNat
<1> QED BY <1>2, <1>3 DEF ScheduledNow, DealtWith

\* A step within the minute after which a pass is in progress only if it was
\* before, and has lost from its list only what is dealt with.
LEMMA PassGoesOn ==
  ASSUME PInv, TypeOK', KeyIsCause', AbsentHasNoCause',
         minute' = minute, covered' = covered, steady' \subseteq steady,
         \A t \in steady' : \/ task'[t] = task[t]
                            \/ task'[t] = [task[t] EXCEPT !.last = minute],
         \A i \in Runs : cause[i] # NoKey => cause'[i] = cause[i],
         sched'.now <= minute,
         sched'.pc \in {"dispatching", "stamping"} =>
            /\ sched.pc \in {"dispatching", "stamping"} /\ sched'.now = sched.now
            /\ \A t \in sched.todo \ sched'.todo : sched.now = minute => DealtWith(t)'
  PROVE  PInv'
<1>1. ASSUME NEW t \in steady'
      PROVE  /\ t \in steady
             /\ ScheduledNow(t)' => ScheduledNow(t)
             /\ DealtWith(t) => DealtWith(t)'
  <2>1. t \in steady /\ t \in Tasks
    BY DEF PInv, TypeOK
  <2> QED BY <2>1, DealtWithStays DEF PInv
<1>2. PassOnCourse'
  <2> SUFFICES ASSUME sched'.pc \in {"dispatching", "stamping"}, sched'.now = minute,
                      NEW t \in steady', ScheduledNow(t)'
               PROVE  t \in sched'.todo \/ DealtWith(t)'
    BY DEF PassOnCourse
  <2>1. t \in steady /\ ScheduledNow(t) /\ (DealtWith(t) => DealtWith(t)')
    BY <1>1
  <2>2. t \in sched.todo \/ DealtWith(t)
    BY <2>1 DEF PInv, PassOnCourse
  <2> QED BY <2>1, <2>2
<1>3. NothingLeftOut'
  BY <1>1 DEF PInv, NothingLeftOut
<1> QED BY <1>2, <1>3 DEF PInv

\* The runs and their causes stay, and so do the tasks that nobody edits.
LEMMA SchedulerStays ==
  ASSUME PInv, TypeOK', UNCHANGED <<key, cause>>,
         \A i \in Runs : phase'[i] = "absent" => phase[i] = "absent",
         minute' = minute, covered' = covered, steady' \subseteq steady,
         \A t \in steady' : \/ task'[t] = task[t]
                            \/ task'[t] = [task[t] EXCEPT !.last = minute],
         sched' = sched \/ (sched'.pc \notin {"dispatching", "stamping"} /\ sched'.now <= minute)
  PROVE  PInv'
<1>1. KeyIsCause' /\ AbsentHasNoCause'
  BY DEF PInv, KeyIsCause, AbsentHasNoCause
<1>2. sched'.now <= minute
  BY DEF PInv, PassOnCourse
<1>3. \A i \in Runs : cause[i] # NoKey => cause'[i] = cause[i]
  OBVIOUS
<1>4. sched'.pc \in {"dispatching", "stamping"} =>
        /\ sched.pc \in {"dispatching", "stamping"} /\ sched'.now = sched.now
        /\ \A t \in sched.todo \ sched'.todo : sched.now = minute => DealtWith(t)'
  OBVIOUS
<1> QED BY <1>1, <1>2, <1>3, <1>4, PassGoesOn

\* create_inspection_run takes a row that is new.
LEMMA CausesStay ==
  ASSUME PInv, NEW t, NEW k, NEW why, EnqueueRun(t, k, why), k # NoKey => why = k
  PROVE  /\ KeyIsCause' /\ AbsentHasNoCause'
         /\ \A i \in Runs : cause[i] # NoKey => cause'[i] = cause[i]
         /\ rows + 1 \in Runs /\ cause'[rows + 1] = why
<1>1. rows + 1 \in Runs
  BY Values DEF EnqueueRun, Runs, PInv, TypeOK
<1>2. /\ \A i \in Runs : key'[i] = (IF i = rows + 1 THEN k ELSE key[i])
      /\ \A i \in Runs : cause'[i] = (IF i = rows + 1 THEN why ELSE cause[i])
      /\ \A i \in Runs : phase'[i] = (IF i = rows + 1 THEN "queued" ELSE phase[i])
      /\ phase[rows + 1] = "absent"
  BY DEF EnqueueRun, Lives!Submit, PInv, TypeOK
<1> QED BY <1>1, <1>2 DEF PInv, KeyIsCause, AbsentHasNoCause

\* A run that a user enqueues.
LEMMA UserEnqueues ==
  ASSUME PInv, TypeOK', NEW t, EnqueueRun(t, NoKey, NoKey), UNCHANGED <<table, clock, sched>>
  PROVE  PInv'
<1>1. /\ KeyIsCause' /\ AbsentHasNoCause'
      /\ \A i \in Runs : cause[i] # NoKey => cause'[i] = cause[i]
  BY CausesStay
<1>2. minute' = minute /\ covered' = covered /\ steady' = steady /\ task' = task /\ sched' = sched
  BY DEF table, clock
<1>3. sched'.now <= minute
  BY <1>2 DEF PInv, PassOnCourse
<1> QED BY <1>1, <1>2, <1>3, PassGoesOn

\* Every step keeps the passes on course.
LEMMA StepKeepsCourse == PInv /\ [Next]_vars => PInv'
<1> SUFFICES ASSUME PInv, [Next]_vars PROVE PInv'
  OBVIOUS
<1>0. TypeOK' /\ TypeOK /\ minute \in Nat /\ sched.now <= minute
  BY StepKeepsTypes, MinuteIsNat DEF PInv, PassOnCourse
<1>1. CASE SchedulerStep
  <2>1. CASE PassBegins
    <3>1. sched'.pc = "listing" /\ sched'.now = minute
      BY <1>0, <2>1 DEF PassBegins, TypeOK
    <3>2. UNCHANGED <<runVars, process, table, clock>>
      BY <2>1 DEF PassBegins
    <3> QED BY <1>0, <3>1, <3>2, SchedulerStays DEF runVars, table, clock
  <2>2. CASE ListTasks
    <3>1. /\ sched'.pc = "dispatching" /\ sched'.now = sched.now
          /\ sched'.todo = {t \in Tasks : Due(task[t], sched.now)}
      BY <1>0, <2>2 DEF ListTasks, TypeOK
    <3>2. UNCHANGED <<phase, key, cause, task, steady, minute, covered>>
      BY <2>2 DEF ListTasks, runVars, table, clock
    <3>3. KeyIsCause' /\ AbsentHasNoCause' /\ NothingLeftOut'
      BY <3>2 DEF PInv, KeyIsCause, AbsentHasNoCause, NothingLeftOut, ScheduledNow, DealtWith
    <3>4. ASSUME sched.now = minute, NEW t \in steady, ScheduledNow(t)
          PROVE  t \in sched'.todo \/ DealtWith(t)
      <4>1. t \in Tasks
        BY <1>0 DEF TypeOK
      <4> QED BY <3>1, <3>4, <4>1 DEF Due, ScheduledNow, DealtWith
    <3>5. PassOnCourse'
      BY <1>0, <3>1, <3>2, <3>4 DEF PassOnCourse, ScheduledNow, DealtWith
    <3> QED BY <1>0, <3>3, <3>5 DEF PInv
  <2>3. ASSUME NEW t \in Tasks, Dispatch(t) PROVE PInv'
    <3>1. /\ EnqueueRun(t, DedupeKey(t), <<t, sched.now>>) /\ DedupeKey(t) = <<t, sched.now>>
          /\ sched.pc = "dispatching" /\ UNCHANGED <<table, clock>>
      BY <2>3 DEF Dispatch, SchedulerAt, DedupeKey
    <3>2. /\ KeyIsCause' /\ AbsentHasNoCause'
          /\ \A i \in Runs : cause[i] # NoKey => cause'[i] = cause[i]
          /\ rows + 1 \in Runs /\ cause'[rows + 1] = <<t, sched.now>>
      BY <3>1, CausesStay
    <3>3. /\ sched'.pc = "stamping" /\ sched'.now = sched.now /\ sched'.todo = sched.todo \ {t}
      BY <1>0, <2>3 DEF Dispatch, TypeOK
    <3>4. minute' = minute /\ covered' = covered /\ steady' = steady /\ task' = task
      BY <3>1 DEF table, clock
    <3>5. sched.now = minute => DealtWith(t)'
      BY <3>2, <3>4 DEF DealtWith
    <3>6. \A q \in sched.todo \ sched'.todo : sched.now = minute => DealtWith(q)'
      BY <3>3, <3>5
    <3> QED BY <1>0, <3>1, <3>2, <3>3, <3>4, <3>6, PassGoesOn
  <2>4. ASSUME NEW t \in Tasks, DispatchDuplicate(t) PROVE PInv'
    <3>1. /\ sched.pc = "dispatching" /\ sched'.pc = "dispatching"
          /\ sched'.now = sched.now /\ sched'.todo = sched.todo \ {t}
      BY <1>0, <2>4 DEF DispatchDuplicate, SchedulerAt, TypeOK
    <3>2. UNCHANGED <<phase, key, cause, task, steady, minute, covered>>
      BY <2>4 DEF DispatchDuplicate, runVars, table, clock
    <3>3. KeyIsCause' /\ AbsentHasNoCause'
      BY <3>2 DEF PInv, KeyIsCause, AbsentHasNoCause
    <3>4. PICK i \in Runs : key[i] = <<t, sched.now>> /\ key[i] # NoKey
      BY <2>4 DEF DispatchDuplicate, KeyIsFree, DedupeKey
    <3>5. cause[i] = <<t, sched.now>>
      BY <3>4 DEF PInv, KeyIsCause
    <3>6. sched.now = minute => DealtWith(t)'
      BY <3>2, <3>5 DEF DealtWith
    <3>7. \A q \in sched.todo \ sched'.todo : sched.now = minute => DealtWith(q)'
      BY <3>1, <3>6
    <3> QED BY <1>0, <3>1, <3>2, <3>3, <3>7, PassGoesOn
  <2>5. ASSUME NEW t \in Tasks, DispatchRaises(t) PROVE PInv'
    <3>1. sched'.pc = "sleeping" /\ sched'.now = sched.now
      BY <1>0, <2>5 DEF DispatchRaises, TypeOK
    <3>2. UNCHANGED <<runVars, process, table, clock>>
      BY <2>5 DEF DispatchRaises
    <3> QED BY <1>0, <3>1, <3>2, SchedulerStays DEF runVars, table, clock
  <2>6. CASE StampScheduled
    <3>1. /\ sched.pc = "stamping" /\ sched'.pc = "dispatching"
          /\ sched'.now = sched.now /\ sched'.todo = sched.todo
      BY <1>0, <2>6 DEF StampScheduled, SchedulerAt, TypeOK
    <3>2. Stamp(sched.task) /\ UNCHANGED <<phase, key, cause, minute, covered>>
      BY <2>6 DEF StampScheduled, runVars, clock
    <3>3. steady' = steady /\ \A t \in Tasks : \/ task'[t] = task[t]
                                               \/ task'[t] = [task[t] EXCEPT !.last = minute]
      BY <1>0, <3>2 DEF Stamp, TypeOK
    <3>4. KeyIsCause' /\ AbsentHasNoCause'
      BY <3>2 DEF PInv, KeyIsCause, AbsentHasNoCause
    <3>5. \A t \in steady' : task'[t] = task[t] \/ task'[t] = [task[t] EXCEPT !.last = minute]
      BY <1>0, <3>3 DEF TypeOK
    <3> QED BY <1>0, <3>1, <3>2, <3>3, <3>4, <3>5, PassGoesOn
  <2>7. CASE DispatchEnds
    <3>1. /\ sched.pc = "dispatching" /\ sched.todo = {} /\ sched'.pc = "maintaining"
          /\ sched'.now = sched.now /\ covered' = (covered \/ sched.now = minute)
      BY <1>0, <2>7 DEF DispatchEnds, SchedulerAt, TypeOK
    <3>2. UNCHANGED <<phase, key, cause, task, steady, minute>>
      BY <2>7 DEF DispatchEnds, runVars, table
    <3>3. KeyIsCause' /\ AbsentHasNoCause'
      BY <3>2 DEF PInv, KeyIsCause, AbsentHasNoCause
    <3>4. PassOnCourse'
      BY <1>0, <3>1, <3>2 DEF PassOnCourse
    <3>5. covered' => \A t \in steady : ScheduledNow(t) => DealtWith(t)
      BY <3>1 DEF PInv, PassOnCourse, NothingLeftOut
    <3>6. NothingLeftOut'
      BY <3>2, <3>5 DEF NothingLeftOut, ScheduledNow, DealtWith
    <3> QED BY <1>0, <3>3, <3>4, <3>6 DEF PInv
  <2>8. CASE Maintain
    <3>1. sched'.pc = "sleeping" /\ sched'.now = sched.now
      BY <1>0, <2>8 DEF Maintain, TypeOK
    <3>2. UNCHANGED <<runVars, process, table, clock>>
      BY <2>8 DEF Maintain
    <3> QED BY <1>0, <3>1, <3>2, SchedulerStays DEF runVars, table, clock
  <2> QED BY <1>1, <2>1, <2>2, <2>3, <2>4, <2>5, <2>6, <2>7, <2>8 DEF SchedulerStep
<1>2. CASE UserStep
  <2>1. ASSUME NEW t, NEW row, Edit(t, row), UNCHANGED <<runVars, clock, sched>>
        PROVE  PInv'
    <3>1. steady' \subseteq steady /\ \A q \in steady' : task'[q] = task[q]
      BY <1>0, <2>1 DEF Edit, TypeOK
    <3> QED BY <1>0, <2>1, <3>1, SchedulerStays DEF runVars, clock
  <2>2. ASSUME UNCHANGED <<runVars, table, clock, sched>> PROVE PInv'
    BY <1>0, <2>2, SchedulerStays DEF runVars, table, clock
  <2>3. ASSUME NEW t \in Tasks, SaveTask(t) \/ UpdateTask(t) \/ DeleteTask(t) PROVE PInv'
    BY <2>1, <2>3 DEF SaveTask, UpdateTask, DeleteTask
  <2>4. ASSUME NEW u \in Users, NEW t \in Tasks, ReadToggle(u, t) \/ ReadTask(u, t) PROVE PInv'
    BY <2>2, <2>4 DEF ReadToggle, ReadTask
  <2>5. ASSUME NEW u \in Users, WriteToggle(u) PROVE PInv'
    BY <2>1, <2>2, <2>5 DEF WriteToggle
  <2>6. ASSUME NEW u \in Users, RunTask(u) PROVE PInv'
    BY <1>0, <2>6, UserEnqueues DEF RunTask
  <2>7. ASSUME NEW u \in Users, RunTaskFails(u) PROVE PInv'
    BY <2>2, <2>7 DEF RunTaskFails
  <2>8. CASE StartInspection
    BY <1>0, <2>8, UserEnqueues DEF StartInspection
  <2> QED BY <1>2, <2>3, <2>4, <2>5, <2>6, <2>7, <2>8 DEF UserStep
<1>3. ASSUME NEW i \in Runs, BeginRun(i) PROVE PInv'
  <2>1. \A j \in Runs : phase'[j] = "absent" => phase[j] = "absent"
    BY <1>0, <1>3 DEF BeginRun, Lives!Begin, TypeOK
  <2>2. UNCHANGED <<key, cause, task, steady, minute, covered, sched>>
    BY <1>3 DEF BeginRun, table, clock
  <2> QED BY <1>0, <2>1, <2>2, SchedulerStays
<1>4. ASSUME NEW i \in Runs, StampBegun(i) PROVE PInv'
  <2>1. Stamp(runTask[i]) /\ UNCHANGED <<phase, key, cause, minute, covered, sched>>
    BY <1>4 DEF StampBegun, clock
  <2>2. steady' = steady /\ \A t \in Tasks : \/ task'[t] = task[t]
                                             \/ task'[t] = [task[t] EXCEPT !.last = minute]
    BY <1>0, <2>1 DEF Stamp, TypeOK
  <2>3. \A t \in steady' : task'[t] = task[t] \/ task'[t] = [task[t] EXCEPT !.last = minute]
    BY <1>0, <2>2 DEF TypeOK
  <2> QED BY <1>0, <2>1, <2>2, <2>3, SchedulerStays
<1>5. ASSUME NEW i \in Runs, EndAttempt(i) PROVE PInv'
  <2>1. \A j \in Runs : phase'[j] = "absent" => phase[j] = "absent"
    BY <1>0, <1>5 DEF EndAttempt, Lives!Succeed, Lives!Fail, Lives!Unsuccessful, TypeOK
  <2>2. UNCHANGED <<key, cause, task, steady, minute, covered, sched>>
    BY <1>5 DEF EndAttempt, table, clock
  <2> QED BY <1>0, <2>1, <2>2, SchedulerStays
<1>6. CASE MinutePasses
  <2>1. minute' = minute + 1 /\ covered' = FALSE /\ UNCHANGED <<phase, key, cause, sched>>
    BY <1>6 DEF MinutePasses, runVars
  <2>2. KeyIsCause' /\ AbsentHasNoCause' /\ NothingLeftOut'
    BY <2>1 DEF PInv, KeyIsCause, AbsentHasNoCause, NothingLeftOut
  <2>3. sched.now \in Nat
    BY <1>0, Values DEF TypeOK, Minutes
  <2>4. PassOnCourse'
    <3>1. sched'.now <= minute' /\ sched'.now # minute'
      BY <1>0, <2>1, <2>3
    <3> QED BY <3>1 DEF PassOnCourse
  <2> QED BY <1>0, <2>2, <2>4 DEF PInv
<1>7. CASE Crash
  <2>1. sched'.pc = "down" /\ sched'.now = 0 /\ UNCHANGED <<phase, key, cause, task, steady, minute, covered>>
    BY <1>7 DEF Crash, StoppedScheduler, table, clock
  <2> QED BY <1>0, <2>1, SchedulerStays
<1>8. CASE Start
  <2>1. sched'.pc = "sleeping" /\ sched'.now = 0 /\ UNCHANGED <<key, cause, task, steady, minute, covered>>
    BY <1>8 DEF Start, StoppedScheduler, table, clock
  <2>2. \A j \in Runs : phase'[j] = "absent" => phase[j] = "absent"
    BY <1>8 DEF Start, Lives!Interrupt, Lives!Unsuccessful
  <2> QED BY <1>0, <2>1, <2>2, SchedulerStays
<1>9. CASE UNCHANGED vars
  BY <1>0, <1>9, SchedulerStays DEF vars, runVars, table, clock
<1> QED BY <1>1, <1>2, <1>3, <1>4, <1>5, <1>6, <1>7, <1>8, <1>9 DEF Next

\* No run has a cause and no pass has begun.
LEMMA InitIsOnCourse == Init => PInv
<1> SUFFICES ASSUME Init PROVE PInv
  OBVIOUS
<1>1. TypeOK
  BY InitHasTypes
<1>2. KeyIsCause /\ AbsentHasNoCause /\ NothingLeftOut
  BY DEF Init, KeyIsCause, AbsentHasNoCause, NothingLeftOut
<1>3. PassOnCourse
  BY DEF Init, StoppedScheduler, PassOnCourse
<1> QED BY <1>1, <1>2, <1>3 DEF PInv

\* The invariant of the passes, of every behaviour.
THEOREM PassInvariance == Spec => []PInv
<1> QED BY InitIsOnCourse, StepKeepsCourse, PTL DEF Spec

\* When a minute ends that a pass has covered, every task due in it that nobody
\* edited was enqueued for it or had run in it, whatever else the tables, the
\* workers and earlier processes have done to last_run and to the dedupe keys.
THEOREM DueTasksAreEnqueued == Spec => DueTaskIsEnqueued
<1> DEFINE Complete ==
      minute' # minute /\ covered =>
          \A t \in steady :
              task[t].exists /\ task[t].on /\ task[t].at = minute % DayMinutes =>
                  \/ task[t].last = minute
                  \/ \E i \in Runs : cause[i] = <<t, minute>>
<1>1. PInv => Complete
  BY DEF PInv, NothingLeftOut, ScheduledNow, DealtWith
<1>2. PInv /\ [Next]_vars => [Complete]_vars
  BY <1>1
<1> HIDE DEF Complete
<1>3. Spec => [][Complete]_vars
  BY <1>2, PassInvariance, PTL DEF Spec
<1> QED BY <1>3 DEF DueTaskIsEnqueued, Complete
=============================================================================
