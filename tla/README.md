# A verification project for the operations inspection system

The system is a Flask application for one machine: it inspects servers over
SSH, writes reports, keeps an asset and service ledger, and has an AI assistant
whose changes need a confirmation. All of its state that matters is in one
SQLite database; concurrency comes from request threads, queue worker threads,
a scheduler thread, two monitor threads and one thread per AI stream, all in one
process. SQLite serialises statements and transactions, so everything that can
go wrong goes wrong *between* two database statements of one handler. The
modules are written at that grain: one action is one committed statement or
transaction together with the local computation up to the next one.

## Inventory

| Component | State | Operations | Hard parts | What makes it correct |
|---|---|---|---|---|
| Inspection queue (`models.py` 1568-1747, `app.py` 2687-3092) | `inspection_runs`, `inspection_results`, worker threads | enqueue, claim, run, finish, retry or fail, recover at start | two workers, late writes of callers, errors inside handlers, crash at any point | one worker per run, attempts bounded, finished runs final, every run ends |
| Scheduler and tasks (`app.py` 4316-4388, `models.py` 1330-1466) | `inspection_tasks` (`last_run`, flag, time), dedupe keys | dispatch, save, edit, toggle, delete, run now | passes longer than a minute, crash between insert and `last_run`, tasks deleted under a pass | at most one scheduled run per task and minute, and one when a pass reaches it |
| One inspection (`app.py` 2710-2960), disk audit (`disk_audit.py`) | result rows, progress, report; `disk_snapshots` | per server connect, refresh, audit, save, record; prune; report | an error after a row was written, one snapshot a day, renamed disks, a verdict that silences findings | one true row per server, no loss and no fault unreported, no old error as a new one |
| Resource configuration (`resource_audit.py`, `models.py` 891-1222) | baseline, plans and change events of a server | evaluate, plan, cancel, decide, reset | several evaluators and people, read-then-write | no unconfirmed change becomes the baseline, deviations are reported |
| AI confirmation cards (`ai_service.py` 1230-1674) | `ai_actions`, tool messages | submit, approve, reject, expire, delete | several users, double clicks, expiry against confirmation, failure after the claim | executed at most once, refusals respected, reports true, every card decided |
| AI streams and insights (`ai_service.py` 72-240, 870-1136, 1724-1797) | stream buffers, semaphore, message rows, insights | start, resume, round, tool call, card, cancel, finish, recover | slot accounting, cancellation, a conversation deleted under its chat, two chats in one, restart | slots accounted for, every stream ends, the history is well formed |
| AI tools (`ai_tools.py`, `ai_codex_tools.py`) | none of their own | decide by level, mode and role; execute | tools that ask in every mode | nothing that changes a system runs unasked |
| Asset ledger, service discovery (`app.py` 1363-2180, 4067-4310, `models.py` 1750-2130, `service_discovery.py`) | servers, environments, services, accounts, scans | CRUD by page and by assistant, scan, import | requests that write what they read earlier, imports from a stale copy, secrets that are kept or replaced | nothing dangles, credentials fit, passwords stored, an import tells the truth |
| Accounts, sessions, lockouts (`app.py` 175-640, 2059-2110, `role_policy.py`) | `users`, cookies, failure times | login, reveal, the hook of every request, edits of users | test and record are separate, cookies put back by late responses | guesses bounded in a window, a role in use is current |
| Health and hardware monitors (`app.py` 2183-2314) | health cache, hardware rows | probe, refresh when due | overlap with inspections and requests | collections reach the resource configuration |
| Model client, providers, SSH collection, audit log, reports, configuration, front end | tables, files | transport, CRUD, parsing, rendering | - | single statements, data, layout |

Interaction: the scheduler and the request handlers call `enqueue_inspection`;
a worker calls `run_inspection`, which feeds the disk audit and the resource
configuration and may start an AI insight; an approved card runs an executor,
which may enqueue an inspection or change the ledger; the scheduler loop calls
AI maintenance, which expires cards; start-up recovers the queue and the AI
tables before the threads start.

## Modules

### RunLifecycle and InspectionQueue

`RunLifecycle` is what the queue promises: a run is submitted once, each
attempt starts from `queued` and is counted, an attempt that does not succeed
goes back to `queued` while attempts are left and to `failed` otherwise, and
`success` and `failed` are never left. It knows no threads and no database.

`InspectionQueue` is the code. `run[i]` is row *i* of `inspection_runs` (the
columns that control anything), `results[i]` the attempts that have rows in
`inspection_results`, `worker[w]` the place of a thread in `queue_worker_loop`
with its `run_id`, `enq[e]` a caller of `enqueue_inspection` between its insert
and its progress write, `up` whether the process runs.

| Code | Actions |
|---|---|
| `enqueue_inspection` | `CreateRun` (the insert, with the unique dedupe key), then `AnnounceQueued` (the unconditional progress write) or `AnnounceRaises` |
| `claim_next_inspection_run` | `Claim`, `ClaimNothing` |
| `_queue_wakeup.wait(1)` | `WaitEnds`: the event only shortens a wait that ends by itself |
| `clear_inspection_results`, `run_inspection` | `ClearResults`, `BeginInspection`, `AddResult` (once per server), `ReportGenerated`, `ReportFails`, `InspectionRaises` |
| `finish_inspection_run`, `retry_or_fail_inspection_run` | `Finish`, `RetryOrFail` |
| an exception of any database call | `DatabaseRaises`: to the handler inside the `try`, the end of the thread outside |
| process death, `start_queue_workers` | `Crash`, `Start` (with `recover_interrupted_inspection_runs`) |

Abstractions. Progress keeps 0, 50 and 100. A row's `wait` is the time to
`next_retry_at` and `Tick` passes it. Row ids stand for the order
`created_at, id`. Messages, logs, timestamps and Socket.IO are left out. One
`AddResult` is one server with the failure its own `try` absorbs; a server's
data are not kept. `update_task_last_run` touches another table and is merged
into `BeginInspection` (`TaskScheduler` has it).

### AiActions

`status[c]` is the row of card *c* in `ai_actions`, `note[c]` the tool message
it belongs to (`message_id`), `overdue[c]` whether `expires_at` has passed,
`executions[c]` how often its executor was started (history), `submitting` the
cards whose message is inserted and whose row is not yet, `thread[t]` a request
thread with the card it has read and the outcome it is about to write.

| Code | Actions |
|---|---|
| `_submit_confirmation` | `SubmitMessage`, `SubmitCard` |
| `approve_action` | `Approve` (read, status test), `ApproveTooLate` or `ApproveInTime` (expiry test), `ClaimToExecute` or `ClaimLost`, `Execute` or `NoExecutor`, `FinishAction`, `WriteActionResult` |
| `reject_action` | `Reject`, `ClaimToReject` or `ClaimLost`, `FinishAction`, `WriteActionResult` |
| `expire_ai_actions` | `ExpireActions` |
| `delete_ai_conversation`, `prune_ai_history` | `DeleteConversation` |
| an exception, or the process dies | `AbortRequest`, `AbortSubmit` |

An executor that raises is an outcome `failed`. A crash ends every thread; each
thread ending alone covers it, because nothing but the threads is volatile. A
request for a card that is not pending changes nothing and is not an action.

### ResourceConfig

One server. `real` is the configuration of the machine its row points to,
`recorded` what was last saved of it (hardware record, newest disk snapshot),
`baseline` the row of `resource_baselines` (`Nothing` without a row), `events`
and `plans` the rows of the two other tables, `thread[t]` a thread with the
local variables of `evaluate_resource_configuration`. `machine` and
`baselineOf` are history: how often the row was pointed elsewhere, and which
machine the baseline was taken from.

| Code | Actions |
|---|---|
| `refresh_server_hardware`, `record_server_hardware` | `Collect`, `RecordHardware` |
| `audit_server_disk` | `Collect`, `AddHardware`, and after the evaluation `SaveSnapshot` |
| `evaluate_resource_configuration`: baseline | `NoBaseline`, `SaveInitial`; `ReadBaseline`, `SaveAugmented` |
| the same: comparison, recovery | `Compare`, `MarkRecovered` |
| the same: plan | `GetActivePlan` (with its expiry), `SelectToDecide`, `WriteDecision` for an open event, `AcceptPlanned`, `MatchPlan` |
| `upsert_resource_change_event` | `SelectEvent`, then `UpdateEvent` or `InsertEvent` |
| `decide_resource_change_event`, for the page | `Decide`, `SelectToDecide`, `WriteDecision` |
| plan page | `CreatePlan`, `UpdatePlan`, `CancelPlan`, `ExpirePlans` |
| server page, executor of the assistant | `ChangeTarget`, `ChangeTargetByAssistant` |
| time, the machine, an exception | `Elapse`, `Reconfigure`, `Abort` |

Abstractions. A payload has a value for the hardware and one for the disks, or
`None` where it is not known: `Differs` and `Augmented` work component by
component as the code does. A plan is, per component, the set of values it
accepts; a field it leaves out and `disk_expectation` null accept everything,
also what is not known (`Matches`). Equal fingerprints are equal payloads. A
window is future, open or past; the code asks for the time at which the
collection began, the model for the time of the lookup. The hardware record is
written and read in two calls and one action, because only the refresh that
writes it reads it there. Failed collections change nothing that is modelled.
A request for an event that is closed already is refused and is not an action.
Reasons, names, versions, tickets and times of acceptance are left out. The
update of the server row and the deletion of its records are one action.

### TaskScheduler

`task[t]` is a row of `inspection_tasks` (exists, enabled, time of day,
`last_run`), `sched` the scheduler thread with the minute its pass began in and
the tasks it has still to dispatch, `user[u]` a request between two statements,
`key`, `runTask` and `cause` the dedupe key, the task and (history) the minute of
each run. The runs are composed with the queue through its abstract lifecycle:
`Lives == INSTANCE RunLifecycle`, the module `InspectionQueue` is shown to
implement.

| Code | Actions |
|---|---|
| `run_scheduled_tasks` | `PassBegins`, `ListTasks`, per task `Dispatch` (insert with the dedupe key, then `StampScheduled`), `DispatchDuplicate` or `DispatchRaises` (foreign key of a deleted task), `DispatchEnds`, `Maintain` |
| task page | `SaveTask`, `UpdateTask`, `DeleteTask`; `ReadToggle`, `WriteToggle`; `ReadTask`, `RunTask` or `RunTaskFails`; `StartInspection` |
| `queue_worker_loop` | `BeginRun`, `StampBegun` (`update_task_last_run`), `EndAttempt` |
| time, process | `MinutePasses`, `Crash`, `Start` |

A day has `DayMinutes` minutes, so that a time of day comes round again. Requests
that check a row and write it in one statement with its id are one action.
Worker conflicts and database errors are `InspectionQueue`'s subject.

### AccessModes, ChatHistory and AiStream

`AccessModes` has no state: the table of tools with their levels, what
`execute` does for a role, and the decision of `_handle_tool_call` under an
access mode (`Outcomes`). `ChatHistory` are the rows of one conversation and the
request built from them: `ContextRows` cuts them to the limit, `HistoryMessages`
makes messages and answers the calls nobody has answered, `WellFormed` is what
the model service accepts.

`AiStream` uses both. `stream[s]` is a `_Stream` with the place of its thread,
its counters of rounds, calls made and calls handled, and its flags; `permits`
the semaphore; `history[c]` the rows of `ai_messages`; `cards` the calls that
wait for a decision, `resumes` those decided whose request will resume the chat.

| Code | Actions |
|---|---|
| `start_chat`, `start_insight`, `_ai_after_action` | `StartChat`, `ResumeChat`, `ResumeRefused`, `StartInsight`; `Register`, `StartFails`, or `ThreadFails` and `InsightThreadFails` (`thread.start` raises) |
| `_run_traditional`, `_run_plain`, `_run_chat` | `AnswerByRules`; `ReadHistory`; `BeginRound`, `StopCanceled`, `RoundEnds` |
| the model service (external) | `Answer`, `AnswerWithCalls`, `ClientFails` with the fallback to the rules |
| `_handle_tool_call`, `_submit_confirmation` | `HandleCall`, `SubmitCard`, `WorkerRaises` |
| `_finalize`, `stream.finish` and the release | `Finalize` or `FinalizeFails`, `Close` |
| cancel, decisions, deletion | `Cancel`, `DecideCard`, `ExpireCard`, `DeleteConversation` |
| process | `Crash`, `Restart` (`fail_stale_streaming_messages`) |

A card is the call it asks for (its protocol is `AiActions`). A model may call
any tool, unknown ones and ones it was not offered included. `torn` is history:
conversations in which two chats overlapped or a chat was cut short. A stream whose
thread could not be created stays `unstarted`: it has its slot, and a chat its
row, until the process ends.

### DiskAudit and InspectionRun

`DiskAudit` holds, as operators on one sample and the stored snapshots, the
rules of `compare_disk` (mounts, devices with renames, capacity, array,
additions, I/O counters, kernel lines), the choice of the baselines by age, the
structure and the verdict of the resource configuration, and the filter of
`audit_server_disk`. A disk carries one partition whose UUID identifies it; slots
are the names the kernel hands out.

`InspectionRun` is one server under repeated inspection, with a machine that
loses, renames, resizes and damages disks.

| Code | Actions |
|---|---|
| the machine (external) | `Vanish`, `Replug`, `Reboot`, `Remount`, `MountAgain`, `Resize`, `DiskError`, `RaidChanges`, `ListerChanges`, `Tick` |
| `run_inspection` for a server | `StartRun`, `Connect`, `RefreshHardware`, `Audit`, `AuditNothing` or `AuditRaises`, `SaveSnapshot`, `Attach`, `Add`, `Announce` or `AnnounceRaises`, `AddFailed`, `AnnounceFailed`, `Prune`, `FinishRun` |
| `refresh_server_hardware` of the monitor | `MonitorRefresh` |
| plan page, decision page | `RegisterPlan`, `Decide` |

The evaluation of the resource configuration is one step here (`Evaluate`);
`ResourceConfig` has its calls. Each step of the run may raise where the code
calls the database, and goes on where the code's nearest `try` does. The age of
a snapshot is in units of time; an inspection takes none.

### AssetLedger

`servers`, `services`, `accounts`, `scans` and `recorded` are rows with what
controls anything; credentials keep which secrets are stored, and of a passphrase
whether it opens the key beside it. A form may carry any secrets, with one
exception that validation makes: a locked key comes with its own passphrase. A
plain key may come with any text, which is stored. `request[t]` is what a thread has
read and will write: the reads of a request are one step, each writing
transaction is one.

| Code | Actions |
|---|---|
| `api_servers` | `AddServer`; `ReadServer`, `SaveServer`; `DeleteServer`, `Forget`, `Record` |
| environments and systems | `AddEntry`, `DeleteEntry` |
| `_ai_exec_upsert_server` | `ProposeUpsert`, `CheckUpsert`, then `SaveServer` or `SaveNewServer` |
| service pages, `_sync_service_accounts` | `ReadService`, then `SaveService` or `SaveNewService`; `DeleteService` |
| `discover_server_services` | `ReadScanned`, `SaveScan` or `ScanFails`; `PassTtl` |
| `_ai_exec_import_discovered_services` | `ProposeImport`, `BeginImport`, `ImportOne` per candidate, `FinishImport` |
| process | `Restart` |

### Accounts

`users[n]` is the role of an account, `failures[k]` the ages of the failures of
a lockout key, `cookie[b]` the session a browser holds, `request[t]` a thread
with its copy of the session; `seen[t]` is history.

| Code | Actions |
|---|---|
| `enforce_request_security`, `login_required`, `api_logout` | `Arrive`, `Enforce`, `Respond` (the cookie goes back) |
| `api_login`, `api_reveal_service_accounts` | `TestLock`, `Verify`, `RecordFailure`, `ClearFailures` |
| `api_users`, `api_user_detail` | `EditUsers` |
| time, process | `Tick`, `Restart` (counters are in memory; `init_default_admin`) |

## Runs

| Run | Question | Result |
|---|---|---|
| `queue` | ownership, stranded runs, truth of a success, finality, refinement of `RunLifecycle`, every run ends | holds |
| `actions` | executed at most once, refusals respected, successes real, expired cards left alone, cards decided, confirmed ones settled | holds |
| `action_late_expiry` | is an expired card never executed | violated: finding 1 |
| `resource_events` | does every event show a change, with a reset and an aborted thread | holds |
| `resource_liveness` | are deviations and recoveries noticed, do closed events stay closed, does the newest of two open plans take effect | holds |
| `resource_acceptance` | does an accepted configuration stay accepted | violated: finding 2 |
| `schedule` | one scheduled run per minute, no due task missed, maintenance for ever, with a crash | holds |
| `ai_stream` | slots, unwritten messages, the history sent, unasked operations, rounds after a card, every stream ends, with a fault | holds |
| `inspection` | lost mounts, real faults, renames, old errors, one true row, with two things that go wrong | holds |
| `inspection_capacity` | does a partition that shrank stay in the report | violated: finding 3 |
| `ledger` | dangling rows, credentials, passwords, accounts, truth of an import | holds |
| `accounts` | bound of the lockout, roles in use, end of a lock | holds |

### Bounds

`queue`: two workers are enough for every conflict over a run, since a third
could only repeat what the second does; two runs let one be retried while the
other is claimed and let the dedupe key be reused; two attempts are what
`enqueue_inspection` passes; one database error reaches every handler and, with
the crash, an error followed by a recovery; one caller, because a caller touches
only the row it inserted. The theorems need none of these bounds.

`actions`: three threads let two race for the card while a third is between its
read and its claim; one card, because no step relates two cards apart from bulk
expiry, which treats each alike (the theorems cover any number); one aborted
request.

`resource_*`: two values of a component tell every comparison apart. In
`resource_events` one monitor, one inspection worker and one person interleave
with a new target and an abort. In `resource_liveness` there are two events, and
plans and changes of the machine are bounded together (`MaxTurns` = 3): three
changes let a deviation come, be closed, go and come back; two plans and a change
let plans overlap in every order of being made, edited, cancelled and running out.
An insert beyond the bound on events raises (`InsertFails`, the path of a database
error), and `DeviationIsReported` is stated up to that bound.

`schedule`: two tasks of one time or of two, or one and another still to be
created; a day of two minutes, so that a time comes round and `last_run` of the
day before matters; three runs (two scheduled, one manual); one request at a
time, with deletions unbounded; one crash, which reaches the gap between insert
and stamp. One queue worker is enough to overwrite `last_run`.

`ai_stream`: two streams of one conversation overlap, one of them resumed after a
card. An administrator's query, an operation, an operation that asks in every
mode and a tool that does not exist, under all modes for an operator and full
access for an administrator too, let calls run, ask and be refused for every
reason there is. One fault is a database error, a crash or a thread that cannot
be created. A context of three rows is cut in the middle of a call and its result.
One round of one call: that a later call of the same round does not take the stop
back is only proved (`CardsInterruptChats`), for any number of calls and rounds.
A stream forgets what nobody looks at after its outcome is decided, and takes the
next unused name, which keeps the instance small.

`inspection`: two disks, one of them mounted, and two names let names be swapped
and reused (three, in `inspection_capacity`, let them be moved on); sizes 1 and 3
let a partition shrink below half; three units of time with days of two give an
overwritten snapshot, one of the day before, and one too old. Two things go wrong
(`MaxUpsets`), in any order and any number of inspections apart: two happen to
the machine (an error and a reboot, a degraded array or a read-only file system
and a disk that comes or goes), or one does and one database call raises.

`ledger`: two threads, two servers, two services and two accounts; four units of
operations, an edit by hand counting two: two edits at once, or an edit
against an import, or a scan, its card and its import with one operation of
another kind in between. Programs include two that differ only in case and a
container with its own listening process. Threads and targets are symmetric; the run has no liveness property.

`accounts`: two requests side by side in one browser, the default account, a
lock after two failures, a window of one tick, one edit. One name is enough
for the lockout (a key is one name), and its account can be demoted or
removed under the request.

Deadlock is not checked where the system may stop: all workers dead after
database errors, all cards decided, all generations used, the bounds of the
clock or of the operations reached.

### Fairness

Threads are scheduled by the operating system and every SSH call and every call
of the model service has a timeout, so that each worker of the queue, each
request that has begun (`actions`) and each stream (`ai_stream`) is weakly fair.
The scheduler loop goes on for ever (`schedule`, and `ExpireActions` in
`actions`). Time passes (`queue`, `accounts`). The service manager restarts a
dead process (`restart` policy of the compose file: `queue`, `schedule`). In
`resource_liveness` the hardware monitor collects for ever and a thread that has
begun an evaluation goes on. Nothing is assumed of users, nor of how often the
process dies beyond its bound. `EveryRunEnds` is stated up to the first database
error, because of what is said of `FailedAttemptIsSettled` below.

## Proofs

TLC checks the instances above; the theorems hold for any number of workers,
callers, keys, runs, attempts, cards, events, plans, tasks, streams, tools,
requests, users, servers, services, disks and threads, from the named
assumptions on the constants (`QueueAssumption`, `CardsAssumption`,
`ConfigAssumption`, `SchedulerAssumption`, `StreamAssumption`,
`AccountsAssumption`, `LedgerAssumption`, `RunAssumption`, `AgeAssumption`). They
say that bounds are numbers, that values like `NoTask` are not in the sets they
stand beside, that streams, requests and disks are finitely many, and that the
ages of the disk audit are ordered as its constants are. Every safety
property of a passing run is a theorem.

`InspectionQueueProofs`. The safety invariants are not inductive alone:
`OneWorkerPerRun` needs that rows beyond the last are absent and that a thread
between claim and settlement holds a run; `SuccessIsOfLastAttempt` needs that
from `ClearResults` on only the current attempt has results. `IInv` adds these
(`RowsInOrder`, `HoldersAreBusy`, `AttemptIsCurrent`). `StepPreservesInv` takes
the actions one by one; `Bounds` and `RowUpdates` keep arithmetic and records
apart. From `Invariance` follow `TypeCorrect`, `Ownership`, `NoRunIsStranded`,
`AttemptsAreBounded` and `SuccessIsConsistent`, with `StepKeepsFinished` the action property
`FinishedRunsAreFinal`, and with `StepImplementsLifecycle` the refinement
`QueueImplementsLifecycle`.

`AiActionsProofs`. Why the conditional `UPDATE` of `claim_ai_action` is enough:
a thread past the claim is alone on its card (`OneClaim`), a card still pending
has no such thread and no execution (`UnclaimedIsFresh`), what a thread is about
to report is what happened (`ClaimIsHonest`), and no request works on a card
before its single submission (`SubmittedOnce`). Their conjunction is preserved
by every action, and `ExecutedAtMostOnce`, `RefusalIsRespected`,
`SuccessIsReal` and `DecisionsAreNotReopened` follow. `ExpiryIsRespected` is
about the steps that bring a thread past its claim: only the claim itself does.

`ResourceConfigProofs`. An evaluation carries what it has read through up to
five database calls. `EventShowsAChange` is preserved only because the baseline
and the sample a thread holds differ from `Compare` to the write of the event
(`ChangeInHand`), because the event it updates was observed with the same
configuration and an event never changes what it was observed with
(`SameEvent`), and because an id a thread holds is that of a row (`EventsExist`).
Two lemmas carry most of the work: `ThreadMoves` for the steps that leave the
events alone and `EventsMove` for the others, which says what any step may do to
an event. `TypeCorrect` and `EventsShowChanges` follow; `PlansFinal` and
`ClosedByDecision` go through the actions once more, from `TypeCorrect`, and
show which `UPDATE`s need the status in their `WHERE`.

`TaskSchedulerProofs`. `ScheduledOncePerMinute` rests on the dedupe key alone: a
run scheduled for a task and a minute has that pair as its key (`CauseIsKey`),
and no two runs have one key (`KeysAreUnique`, the partial unique index with
`INSERT OR IGNORE`). Neither `last_run` nor the times of passes, crashes and
stamps occur in the argument: whatever overwrites `last_run` can suppress a run
and never double one. `DueTasksAreEnqueued` is the other half, that none is
missed, and needs the order of a pass. `PInv` says that a task due in the minute
of a pass which nobody edits is still to do or dealt with (`PassOnCourse`), and
that in a minute a pass has covered every such task is dealt with
(`NothingLeftOut`); dealt with means that a run has the task and the minute as
its cause or that `last_run` is this minute. A refused insert counts because the
key it met is the cause of the row that has it (`KeyIsCause`). `DealtWithStays`
shows that no crash, worker or other user takes it back while the minute lasts.

`AiStreamProofs`. The set of streams that hold a slot changes by one element
when a permit is taken or returned and by none otherwise; `Counted` says so in
terms of cardinalities, and `StreamMoves` reduces a step of one stream to what
happens to its record. `CardStops`, that a stream with a card has its stop flag
or has finished, carries `CardInterruptsChat` past answers with several calls.
`OutcomeIsAsked`, on the operators of `AccessModes`, gives `NothingRunsUnasked`
for all tools, modes and roles. `SlotsAreAccountedFor`, `NothingRanUnasked` and
`CardsInterruptChats` follow from `Invariance`. `HInv` is proved on top of it
and is about the stored rows: rounds and calls within their limits (`Budgets`),
the histories and sets of cards (`Tables`), and for every row that is
`streaming` the stream that answers for it at each place of its thread, or the
failed write that left it behind (`Written`). `TypeCorrect` and
`StreamingMessagesAreWritten` follow.

`RequestsAreWellFormed` takes two arguments. The first is about operators: what
`HistoryMessages` makes of rows is well formed when no result heads them, every
result stands behind the row of its stream or another of its results
(`Follows`), a stream has one such row (`Single`), and the row knows the calls
that the results answer (`Settled`). Each row becomes a block of messages
(`RowBecomesBlock`), and `Flattened` says where the blocks lie in what
`FlattenSeq` returns. That holds for any number of rows without induction over
them: a number of blocks at which it fails would have a least one
(`LeastNumber`), and the step to it from the number before is one concatenation.
`ContextIsAnEnd` and `EndsKeepOrder` carry the four conditions through
`_context_rows` for any limit. The second argument is `OInv`: in a conversation
that no two chats have shared and no failure has torn, the rows are in that
order, except that the calls of the chat under way are still in its thread.
`Foreseen` says what a result answers until then, `InHand` that the last row is
of the stream that writes, and `Alone` that no other is at work. When a stream
reads the history it has handled nothing, so that `Foreseen` is `Settled`.

`AccountsProofs`. `FailuresAreBounded` is not inductive: between the test of the
lock and the record of the failure there are attempts that no list holds yet.
`Bounded` counts them (`Pending`) with the failures of their key: a test lets an
attempt in only below the limit, so that failures and pending attempts together
exceed it by less than the number of threads, and recording moves one from the
second count to the first. `RecentAges` is the lemma about the filter of ages: it
keeps their order and lengthens nothing. `RequestsOK` has, for a request that
has arrived, that the role its user has now is among those it has seen, which is
what `RoleIsCurrent` needs when the hook reads the account.

`AssetLedgerProofs`. `Tables` has `NothingDangles`, `CredentialsFit` and
`PasswordsAreStored` row by row, with the uniqueness of names on a server and the ids
already given out. It is preserved because of what requests carry (`Asked`): a
form that was accepted fits, the credentials it is merged with fit when it is
written, and the copy an import works from has services of its server only.
`ImportsOnCourse` follows an import: as long as nothing failed in it and
no other request changed what it had read, the services of its copy are as they were
and what it has done is on the server, so that the claim it ends with is true
(`ImportTellsTheTruth`). `NothingEverDangles`, `CredentialsAlwaysFit`,
`PasswordsStayStored` and the action property `AccountsStayAlone` follow, the
last one action by action.

`InspectionRunProofs`. Everything a report says is decided in `Audit`, so the
invariant says what `Audit` finds there. `History` relates each snapshot to the
machine as it is now: since it was taken the machine has been started again, or
the older kernel lines are in it, and a counter that has grown has left a line.
`Holding`: the sample in the worker's hands is the machine as it is (the clock stands
still during a run). `Covered`: mounts that an audit has seen are in the accepted
configuration as long as no event is open. `Phases` has the rows of the server by the place of
the run. `Settled` carries the outcome to the end. The choice of a
baseline needs that a set of past rows has a newest one (`NewestExists`,
by well-foundedness, for any number of rows), and `Compared` reduces each finding
to one pair of baselines. `VanishedMountsAreReported`, `RowsAreTrue`,
`RealFaultsStay`, `RenamesAreNoLosses` and `ReportedErrorsAreNew` are the five
safety properties of the run.

The types `TypeOK` of `InspectionQueue`, `AiActions`, `ResourceConfig`,
`TaskScheduler`, `InspectionRun` and `Accounts` are theorems and in no run. Only
model-checked are all liveness properties, which are out of the prover's reach,
and the three violations below.

## Findings

Each is a run that TLC must find violated.

1. The expiry branch of `approve_action` writes `expired` and "not executed"
   over a card that another request has claimed or executed (`ai_service.py` 1544).
2. An evaluation writes its completed copy of the baseline over a configuration
   that a person accepted meanwhile (`resource_audit.py` 205).
3. The resource configuration has neither sizes nor partitions, because
   `disk_structure` asks for fields the rows do not have; its verdict `normal`
   removes a severe loss of capacity from the report (`resource_audit.py` 35,
   `app.py` 2784).

### Known not to hold

The modules state nine more properties which the code does not have. No run
checks them; the counterexamples are short.

- `FailedAttemptIsSettled` (`InspectionQueue`): a database error in the `except`
  branch of `queue_worker_loop`, or in the claim, ends the thread for good; its
  run stays `running` until a restart (`app.py` 3072).
- `OutcomeIsWrittenBack` (`AiActions`): `expire_ai_actions` does not fill in the
  tool message, which goes on saying that the operation waits for a confirmation
  (`models.py` 2766).
- `BaselineOfThisMachine` (`ResourceConfig`): when the assistant changes the
  connection target, baseline, events and plans of the old machine stay
  (`app.py` 4142); after a full reset, too, a sample collected before it can
  become the first baseline (`resource_audit.py` 194).
- `EveryOpenPlanTakesEffect` (`ResourceConfig`): of two open plans only the newest
  is compared with a deviation (`models.py` 1026); one that the older expects is
  reported and stays, where `README.md` 9 of the repository says that a matching
  configuration updates the baseline.
- `RequestIsWellFormed` (`AiStream`): two chats of one conversation, or a chat
  resumed before its predecessor has stored its answer, send results without
  their call (`ai_service.py` 870).
- `EverySlotComesBack` (`AiStream`): `thread.start()` is outside the `try` that
  releases the slot (`ai_service.py` 925 and 1750); when no thread can be created
  the slot is taken until a restart, and the message stays `streaming`.
- `UpdatedIsThere` (`AssetLedger`): an import ignores the `False` of
  `update_service` and counts a service that was deleted meanwhile as updated
  (`app.py` 4242). `ImportIsComplete`, which holds, excepts imports during which a
  service was deleted, renamed or moved.
- `UsedScanWasTakenWhole` (`AssetLedger`): one import without a failure uses the
  scan up, whatever was selected of it (`app.py` 4260); what was not selected
  needs a new scan.
- `RenameIsSilent` (`InspectionRun`): a whole disk has no UUID, so that a new name
  is a change of the resource configuration (`resource_audit.py` 89), which
  `docs/磁盘巡检增强方案.md` 100 calls completely silent in the report.

### Smaller observations

Met while reading the code for the models; none is a property.

- Queue and runs: a run that finishes between its insert and the progress write
  of `enqueue_inspection` stays successful at 0 percent (`app.py` 2719); the
  automatic insight starts while the run may still be retried (`app.py` 3024); the
  progress page stops polling once `report_path` is set (`static/app.js` 437).
- Scheduler: `toggle_task_schedule` reads and writes in two statements
  (`models.py` 1434); an exception for one task ends the pass for the later ones
  and for maintenance until the next pass (`app.py` 4339).
- Resource configuration: a plan that names only the hardware accepts any disks
  (`resource_audit.py` 152); two decisions of one event at once both succeed
  (`models.py` 1187); a plan can accept twice after a crash between baseline
  and match (`resource_audit.py` 234); a slow collection can match a plan that
  has expired since (`app.py` 1663); the `size_gb` of a plan's expectation never
  matches, for the reason of finding 3.
- Disk audit: `structural_categories` names `磁盘变更` while the category is
  `磁盘变化`; a lost disk whose name a renamed one has taken is not found by
  `_check_devices`; the growth trend uses the recent baseline without one of the
  day before, which `docs/磁盘巡检增强方案.md` 113 excludes; ext4 counters are
  compared by device name; two threads that record hardware can overwrite a value with a
  placeholder (`app.py` 1639).
- AI: a message stays `streaming` until a restart if
  `_finalize` fails (`ai_service.py` 1025); an exception inside the fallback to
  the rules ends the stream as `done`; answers by rules count against the daily
  limit and those of insights do not; deleting a conversation lowers the usage of
  today; payloads are redacted before they are stored for approval; a provider
  becomes the default in a second transaction.
- Ledger: an import overwrites environments edited meanwhile; the `False` of
  `update_server` is ignored; a foreign key failure is
  answered as a duplicate name; a scan of a server whose target has changed can
  be imported; two cards for one address make two servers; `add_server` drops
  environments that are gone while an update fails.
- Accounts: the upgrade of an old hash at login writes the hash of the old
  password over a concurrent change; the default account may be renamed (a
  restart makes a second one) or demoted; a response in flight puts back a
  session cleared by logout; `OPS_SERVICE_REVEAL_ROLES` refuses nobody whom
  `can_access` admits (`config.py` 160).

## Not modelled

- Of the disk audit: growth, bursts, inodes, errors of `df`, ext4 counters,
  states of devices, rebuilds, truncated output and network file systems. They
  are thresholds on data of one or two samples.
- Of an inspection: proxies, which repeat the row pattern without an audit; CPU
  and memory values; the parsing of what SSH returns.
- The transport and wire formats of the model client; providers and usage, which
  are single statements; the daily token limit, which only refuses a request;
  buffers kept for the page after a stream has ended.
- The cache of reachability of the health monitor, its retry interval, and the
  merge of single hardware values.
- Texts, filters, exports and the reveal of passwords in the ledger; a user's
  change of the own password, which touches neither session nor lockout.
- Audit log (rows inserted, listed and exported), reports (layout),
  configuration, encryption and demo data (constants, library calls, start-up),
  and the browser front end.

Each is listed in `PROJECT.json` with its reason.

## Plan

The safety properties are proved. What is left: lemmas that relate the operators
of the models to simpler definitions, and a larger instance of `ai_stream` (two
calls in a round).
