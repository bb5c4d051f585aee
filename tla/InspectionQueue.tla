--------------------------- MODULE InspectionQueue ---------------------------
(***************************************************************************)
(* The durable inspection queue: the table inspection_runs (models.py),    *)
(* the threads that enqueue a run (request handlers and the scheduler),    *)
(* the queue worker threads (app.py, queue_worker_loop) and the recovery   *)
(* of interrupted runs when the process starts.                            *)
(*                                                                         *)
(* One action is one committed database statement together with the code   *)
(* up to the next one, so every interleaving of the threads between two    *)
(* commits is a behaviour.  Times are relative: `wait' is the time left    *)
(* until next_retry_at.  Messages, logs and timestamps are left out.       *)
(***************************************************************************)
EXTENDS Naturals

CONSTANTS
    Workers,        \* queue worker threads (QUEUE_WORKERS of them)
    Enqueuers,      \* threads that call enqueue_inspection
    Keys,           \* dedupe keys a caller may pass
    NoKey,          \* dedupe_key=None
    MaxRuns,        \* bound: rows ever inserted
    MaxAttempts,    \* max_attempts of a row
    RetryDelay,     \* QUEUE_RETRY_DELAY, in ticks
    MaxFaults,      \* bound: database calls that raise
    MaxCrashes      \* bound: times the process dies

ASSUME QueueAssumption ==
    /\ MaxRuns \in Nat
    /\ MaxAttempts \in Nat \ {0}
    /\ RetryDelay \in Nat \ {0}
    /\ MaxFaults \in Nat
    /\ MaxCrashes \in Nat
    /\ NoKey \notin Keys

VARIABLES
    run,        \* run[i]: row i of inspection_runs (i is the row id)
    rows,       \* number of rows inserted so far
    results,    \* results[i]: the attempts that have rows in inspection_results
    worker,     \* worker[w]: where thread w is and the run it holds
    enq,        \* enq[e]: the run thread e has inserted and not yet announced
    up,         \* whether the process is running
    faults,     \* database errors so far
    crashes     \* crashes so far

vars == <<run, rows, results, worker, enq, up, faults, crashes>>

RunIds == 1 .. MaxRuns
NoRun == 0
Attempts == 1 .. MaxAttempts
NoReport == 0

Statuses == {"absent", "queued", "running", "success", "failed"}

\* progress keeps what readers tell apart: nothing done, under way, 100%.
Progress == {0, 50, 100}

Row == [status : Statuses, attempts : 0 .. MaxAttempts, progress : Progress,
        wait : 0 .. RetryDelay, report : 0 .. MaxAttempts, key : Keys \cup {NoKey}]

\* Where a worker is: at the claim, asleep after an empty claim, before each
\* of the database calls of one attempt, in the two places that call
\* retry_or_fail_inspection_run, terminated by an uncaught exception, or not
\* started.
Idle == {"polling", "waiting", "dead", "down"}
Busy == {"claimed", "cleared", "inspecting", "finishing", "failing", "handling"}

AbsentRow == [status |-> "absent", attempts |-> 0, progress |-> 0, wait |-> 0,
              report |-> NoReport, key |-> NoKey]

TypeOK ==
    /\ run \in [RunIds -> Row]
    /\ rows \in 0 .. MaxRuns
    /\ results \in [RunIds -> SUBSET Attempts]
    /\ worker \in [Workers -> [pc : Idle \cup Busy, run : 0 .. MaxRuns]]
    /\ enq \in [Enqueuers -> 0 .. MaxRuns]
    /\ up \in BOOLEAN
    /\ faults \in 0 .. MaxFaults
    /\ crashes \in 0 .. MaxCrashes

Init ==
    /\ run = [i \in RunIds |-> AbsentRow]
    /\ rows = 0
    /\ results = [i \in RunIds |-> {}]
    /\ worker = [w \in Workers |-> [pc |-> "down", run |-> NoRun]]
    /\ enq = [e \in Enqueuers |-> NoRun]
    /\ up = FALSE
    /\ faults = 0
    /\ crashes = 0

-----------------------------------------------------------------------------
(* Enqueuing: the row is visible to the workers before it is announced.    *)

\* INSERT OR IGNORE: a key that is already in the table inserts nothing.
KeyIsFree(k) == k = NoKey \/ \A i \in RunIds : run[i].key # k

CreateRun(e, k) ==
    /\ up
    /\ enq[e] = NoRun
    /\ rows < MaxRuns
    /\ KeyIsFree(k)
    /\ rows' = rows + 1
    /\ run' = [run EXCEPT ![rows + 1] =
                  [AbsentRow EXCEPT !.status = "queued", !.key = k]]
    /\ enq' = [enq EXCEPT ![e] = rows + 1]
    /\ UNCHANGED <<results, worker, up, faults, crashes>>

\* Slip: the announcement writes the whole row back.
AnnounceWholeRow(e) ==
    /\ enq[e] # NoRun
    /\ run' = [run EXCEPT ![enq[e]].progress = 0, ![enq[e]].status = "queued"]
    /\ enq' = [enq EXCEPT ![e] = NoRun]
    /\ UNCHANGED <<rows, results, worker, up, faults, crashes>>

\* enqueue_inspection writes progress 0 after create_inspection_run returned.
AnnounceQueued(e) ==
    /\ enq[e] # NoRun
    /\ run' = [run EXCEPT ![enq[e]].progress = 0]
    /\ enq' = [enq EXCEPT ![e] = NoRun]
    /\ UNCHANGED <<rows, results, worker, up, faults, crashes>>

\* That write raises: the caller sees an error although the row is queued.
AnnounceRaises(e) ==
    /\ enq[e] # NoRun
    /\ faults < MaxFaults
    /\ enq' = [enq EXCEPT ![e] = NoRun]
    /\ faults' = faults + 1
    /\ UNCHANGED <<run, rows, results, worker, up, crashes>>

-----------------------------------------------------------------------------
(* The worker loop.                                                        *)

At(w, pc) == worker[w].pc = pc
Goto(w, pc) == worker' = [worker EXCEPT ![w].pc = pc]
Release(w) == worker' = [worker EXCEPT ![w] = [pc |-> "polling", run |-> NoRun]]
Held(w) == worker[w].run

Ready(i) ==
    /\ run[i].status = "queued"
    /\ run[i].attempts < MaxAttempts
    /\ run[i].wait = 0

\* Slip: the claim counts the attempt and leaves the row queued.
ClaimedRowStillQueued(row) == [row EXCEPT !.attempts = @ + 1]
ClaimedRow(row) == [row EXCEPT !.status = "running", !.attempts = @ + 1]

\* The oldest ready row is taken in one BEGIN IMMEDIATE transaction.
Claim(w) ==
    /\ At(w, "polling")
    /\ \E i \in RunIds :
          /\ Ready(i)
          /\ \A j \in RunIds : Ready(j) => i <= j
          /\ run' = [run EXCEPT ![i] = ClaimedRow(@)]
          /\ worker' = [worker EXCEPT ![w] = [pc |-> "claimed", run |-> i]]
    /\ UNCHANGED <<rows, results, enq, up, faults, crashes>>

ClaimNothing(w) ==
    /\ At(w, "polling")
    /\ \A i \in RunIds : ~Ready(i)
    /\ Goto(w, "waiting")
    /\ UNCHANGED <<run, rows, results, enq, up, faults, crashes>>

\* _queue_wakeup.wait(1) returns on a wake-up or after its timeout; either
\* way the worker polls again.
WaitEnds(w) ==
    /\ At(w, "waiting")
    /\ Goto(w, "polling")
    /\ UNCHANGED <<run, rows, results, enq, up, faults, crashes>>

\* Slip: results of earlier attempts are kept.
ClearNothing(w) ==
    /\ At(w, "claimed")
    /\ Goto(w, "cleared")
    /\ UNCHANGED <<run, rows, results, enq, up, faults, crashes>>

ClearResults(w) ==
    /\ At(w, "claimed")
    /\ results' = [results EXCEPT ![Held(w)] = {}]
    /\ Goto(w, "cleared")
    /\ UNCHANGED <<run, rows, enq, up, faults, crashes>>

\* update_task_last_run (its effect is TaskScheduler's) and the first
\* update_progress of run_inspection.
BeginInspection(w) ==
    /\ At(w, "cleared")
    /\ run' = [run EXCEPT ![Held(w)].progress = 0]
    /\ Goto(w, "inspecting")
    /\ UNCHANGED <<rows, results, enq, up, faults, crashes>>

\* One server: its result row, then its progress.
AddResult(w) ==
    /\ At(w, "inspecting")
    /\ results' = [results EXCEPT ![Held(w)] = @ \cup {run[Held(w)].attempts}]
    /\ run' = [run EXCEPT ![Held(w)].progress = 50]
    /\ UNCHANGED <<rows, worker, enq, up, faults, crashes>>

\* The report is written and its path is stored while the run still runs.
ReportGenerated(w) ==
    /\ At(w, "inspecting")
    /\ run' = [run EXCEPT ![Held(w)].progress = 100,
                          ![Held(w)].report = run[Held(w)].attempts]
    /\ Goto(w, "finishing")
    /\ UNCHANGED <<rows, results, enq, up, faults, crashes>>

\* run_inspection returns success=False.
ReportFails(w) ==
    /\ At(w, "inspecting")
    /\ run' = [run EXCEPT ![Held(w)].progress = 100]
    /\ Goto(w, "failing")
    /\ UNCHANGED <<rows, results, enq, up, faults, crashes>>

\* run_inspection raises before the report (key file, server list, ...).
InspectionRaises(w) ==
    /\ At(w, "inspecting")
    /\ Goto(w, "handling")
    /\ UNCHANGED <<run, rows, results, enq, up, faults, crashes>>

FinishedRow(row) ==
    [row EXCEPT !.status = "success", !.progress = 100, !.wait = 0,
                !.report = row.attempts]

Finish(w) ==
    /\ At(w, "finishing")
    /\ run' = [run EXCEPT ![Held(w)] = FinishedRow(@)]
    /\ Release(w)
    /\ UNCHANGED <<rows, results, enq, up, faults, crashes>>

RetriedRow(row) ==
    IF row.attempts < MaxAttempts
    THEN [row EXCEPT !.status = "queued", !.progress = 0, !.wait = RetryDelay]
    ELSE [row EXCEPT !.status = "failed", !.progress = 100, !.wait = 0]

\* retry_or_fail_inspection_run, from the body of the try or from its handler.
RetryOrFail(w) ==
    /\ worker[w].pc \in {"failing", "handling"}
    /\ run' = [run EXCEPT ![Held(w)] = RetriedRow(@)]
    /\ Release(w)
    /\ UNCHANGED <<rows, results, enq, up, faults, crashes>>

\* A database call raises.  Inside the try the handler takes over; the claim
\* and the handler itself are outside any try, so there the thread ends.
AfterError(pc) == IF pc \in {"polling", "handling"} THEN "dead" ELSE "handling"

DatabaseRaises(w) ==
    /\ faults < MaxFaults
    /\ worker[w].pc \in Busy \cup {"polling"}
    /\ Goto(w, AfterError(worker[w].pc))
    /\ faults' = faults + 1
    /\ UNCHANGED <<run, rows, results, enq, up, crashes>>

-----------------------------------------------------------------------------
(* Time, crash and restart.                                                *)

Tick ==
    /\ \E i \in RunIds : run[i].wait > 0
    /\ run' = [i \in RunIds |->
                  [run[i] EXCEPT !.wait = IF @ > 0 THEN @ - 1 ELSE 0]]
    /\ UNCHANGED <<rows, results, worker, enq, up, faults, crashes>>

Crash ==
    /\ up
    /\ crashes < MaxCrashes
    /\ crashes' = crashes + 1
    /\ up' = FALSE
    /\ worker' = [w \in Workers |-> [pc |-> "down", run |-> NoRun]]
    /\ enq' = [e \in Enqueuers |-> NoRun]
    /\ UNCHANGED <<run, rows, results, faults>>

\* Slips: exhausted runs stay "running"; every run is queued again; nothing
\* is recovered.
RecoveredButLast(row) ==
    IF row.status = "running" /\ row.attempts < MaxAttempts
    THEN [row EXCEPT !.status = "queued", !.wait = 0] ELSE row
RecoveredAlways(row) ==
    IF row.status = "running" THEN [row EXCEPT !.status = "queued", !.wait = 0] ELSE row
RecoveredNothing(row) == row

RecoveredRow(row) ==
    IF row.status # "running" THEN row
    ELSE IF row.attempts < MaxAttempts
         THEN [row EXCEPT !.status = "queued", !.wait = 0]
         ELSE [row EXCEPT !.status = "failed"]

\* start_queue_workers: recover the interrupted runs, then start the threads.
Start ==
    /\ ~up
    /\ up' = TRUE
    /\ run' = [i \in RunIds |-> RecoveredRow(run[i])]
    /\ worker' = [w \in Workers |-> [pc |-> "polling", run |-> NoRun]]
    /\ UNCHANGED <<rows, results, enq, faults, crashes>>

-----------------------------------------------------------------------------
EnqueuerNext(e) ==
    \/ \E k \in Keys \cup {NoKey} : CreateRun(e, k)
    \/ AnnounceQueued(e)
    \/ AnnounceRaises(e)

WorkerStep(w) ==
    \/ Claim(w)
    \/ ClaimNothing(w)
    \/ WaitEnds(w)
    \/ ClearResults(w)
    \/ BeginInspection(w)
    \/ AddResult(w)
    \/ ReportGenerated(w)
    \/ ReportFails(w)
    \/ InspectionRaises(w)
    \/ Finish(w)
    \/ RetryOrFail(w)

Next ==
    \/ \E e \in Enqueuers : EnqueuerNext(e)
    \/ \E w \in Workers : WorkerStep(w)
    \/ \E w \in Workers : DatabaseRaises(w)
    \/ Tick
    \/ Crash
    \/ Start

Spec == Init /\ [][Next]_vars

\* The threads are scheduled by the operating system, every SSH call has a
\* timeout, time passes and the service manager restarts a dead process.
Fairness ==
    /\ \A w \in Workers : WF_vars(WorkerStep(w))
    /\ WF_vars(Tick)
    /\ WF_vars(Start)

FairSpec == Spec /\ Fairness

-----------------------------------------------------------------------------
(* Properties.                                                             *)

\* No two workers hold the same run, and a run that a worker holds is
\* "running": the unguarded UPDATE ... WHERE run_id=? of Finish and
\* RetryOrFail is only safe because of this.
OneWorkerPerRun ==
    \A w \in Workers : worker[w].run # NoRun =>
        /\ run[worker[w].run].status = "running"
        /\ \A v \in Workers : worker[v].run = worker[w].run => v = w

\* While the process is up a "running" run is held by some worker thread, so
\* that either the thread settles it or (thread dead) the next start does.
NoStrandedRun ==
    up => \A i \in RunIds : run[i].status = "running" =>
              \E w \in Workers : worker[w].run = i

\* A queued run still has an attempt left.  A queued run without one would
\* match no claim and no recovery: it would stay "queued" for ever.
QueuedCanBeClaimed ==
    \A i \in RunIds : run[i].status = "queued" => run[i].attempts < MaxAttempts

\* A run fails only once its last attempt has been used.
FailedIsExhausted ==
    \A i \in RunIds : run[i].status = "failed" => run[i].attempts = MaxAttempts

\* What a successful run shows belongs to its last attempt: no result rows of
\* an attempt that failed or was interrupted, and the report of that attempt.
SuccessIsOfLastAttempt ==
    \A i \in RunIds : run[i].status = "success" =>
        /\ results[i] \subseteq {run[i].attempts}
        /\ run[i].report = run[i].attempts

\* A finished run is never revived, re-reported or given new results, not by a
\* late write of a worker, of the thread that enqueued it, or of recovery.
FinishedIsFinal ==
    [][\A i \in RunIds : run[i].status \in {"success", "failed"} =>
          /\ run'[i].status = run[i].status
          /\ run'[i].attempts = run[i].attempts
          /\ run'[i].report = run[i].report
          /\ results'[i] = results[i]]_vars

\* The inductive invariant behind the safety properties.  It adds to them
\* where the pieces of state meet: rows beyond `rows' are absent, a thread
\* between claim and settlement holds a run, nothing is held while the process
\* is down, and from ClearResults on only the current attempt has results.
RowsInOrder ==
    /\ \A i \in RunIds : run[i].status = "absent" <=> i > rows
    /\ \A i \in RunIds : i > rows => run[i].attempts = 0
    /\ \A e \in Enqueuers : enq[e] <= rows

HoldersAreBusy ==
    \A w \in Workers :
        /\ worker[w].pc \in Busy => worker[w].run # NoRun
        /\ worker[w].run # NoRun => worker[w].pc \in Busy \cup {"dead"}
        /\ ~up <=> worker[w].pc = "down"

AttemptIsCurrent ==
    \A w \in Workers :
        /\ worker[w].pc \in Busy => run[Held(w)].attempts \in Attempts
        /\ worker[w].pc \in {"cleared", "inspecting", "finishing"} =>
              results[Held(w)] \subseteq {run[Held(w)].attempts}
        /\ worker[w].pc = "finishing" =>
              run[Held(w)].report = run[Held(w)].attempts

IInv ==
    /\ TypeOK
    /\ RowsInOrder
    /\ HoldersAreBusy
    /\ OneWorkerPerRun
    /\ NoStrandedRun
    /\ QueuedCanBeClaimed
    /\ FailedIsExhausted
    /\ AttemptIsCurrent
    /\ SuccessIsOfLastAttempt

\* The statuses and attempt counts go through the lives RunLifecycle describes.
Lives == INSTANCE RunLifecycle
             WITH Runs <- RunIds,
                  phase <- [i \in RunIds |-> run[i].status],
                  tries <- [i \in RunIds |-> run[i].attempts]

ImplementsLifecycle == Lives!Spec

\* Every run that was queued ends, whatever fails inside its attempts, as long
\* as the database accepts the writes and the process stops dying.
EveryRunEnds ==
    \A i \in RunIds : run[i].status = "queued" /\ faults = 0 ~>
                          run[i].status \in {"success", "failed"} \/ faults > 0

\* "A task is tried at most twice; after a failure it is tried again": the run
\* of an attempt that failed leaves "running".
FailedAttemptIsSettled ==
    \A i \in RunIds :
        (\E w \in Workers : /\ worker[w].run = i
                            /\ worker[w].pc \in {"failing", "handling"})
            ~> run[i].status # "running"
=============================================================================
