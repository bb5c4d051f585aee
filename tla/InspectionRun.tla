---------------------------- MODULE InspectionRun ----------------------------
(***************************************************************************)
(* One server under repeated inspection: the steps run_inspection takes    *)
(* for it (app.py), the disk audit, the snapshots of models.py, and the    *)
(* hardware monitor beside it.  The machine itself loses, renames and      *)
(* damages disks; any database call may raise.                             *)
(*                                                                         *)
(* The resource evaluation is one step here; ResourceConfig has its calls. *)
(* An inspection is short against the unit of time, and the machine is as  *)
(* it is during one.                                                       *)
(***************************************************************************)
EXTENDS DiskAudit, Sequences

CONSTANTS
    Disks,        \* the disks, numbered like the slots they start in
    Slots,        \* names the kernel can give a disk
    Data,         \* the disks that are mounted at the start
    Sizes,        \* sizes of a partition
    StartSizes,   \* those it may have at the start
    DayLength,    \* units of time in a calendar day
    KeepAge,      \* age from which a snapshot is pruned (90 days)
    MaxTime,      \* bound: the clock
    MaxEvents,    \* bound: things that happen to the machine
    MaxOpen,      \* bound: open resource change events
    MaxFaults,    \* bound: database calls that raise
    MaxUpsets     \* bound: both together

ASSUME RunAssumption ==
    /\ Data \subseteq Disks /\ Disks \subseteq Slots /\ IsFiniteSet(Disks)
    /\ Slots \subseteq Nat \ {0}
    /\ Sizes \subseteq Nat \ {0} /\ StartSizes \subseteq Sizes
    /\ DayLength \in Nat \ {0}
    /\ {KeepAge, MaxTime, MaxEvents, MaxOpen, MaxFaults, MaxUpsets} \subseteq Nat

VARIABLES
    now,        \* the clock
    disk,       \* the disks of the machine
    raid,       \* its software array
    lister,     \* what lists its devices: lsblk, or /proc/partitions without it
    booted,     \* when it was started
    log,        \* times of the disk errors in its kernel log
    events,     \* what has happened to the machine so far
    snapshots,  \* disk_snapshots of the server
    hardware,   \* server_hardware_snapshots: the storage total, 0 before the first
    accepted,   \* resource_baselines: the accepted configuration
    open,       \* open resource_change_events, the newest last
    plan,       \* a resource plan that accepts everything is in its window
    worker,     \* the run: where it is, and its local variables
    rows,       \* rows of the server in the report, by outcome
    results,    \* rows of the server in inspection_results, by outcome
    faults,     \* database calls that have raised
    shown       \* history: mounts seen by an audit since the last decision

machine == <<disk, raid, lister, booted, log>>
store == <<snapshots, hardware, accepted, open, plan>>
run == <<worker, rows, results, faults>>
vars == <<now, machine, events, store, run, shown>>

Gone == 0
Attached == {d \in Disks : disk[d].slot # Gone}
Taken == {disk[d].slot : d \in Attached}

Places == {"idle", "connecting", "hardware", "auditing", "saving", "attaching",
           "adding", "announcing", "failing", "failed", "pruning", "reported"}

NoSample == [uptime |-> 0, source |-> "none", devices |-> {}, mounts |-> {},
             kernel |-> {}, raid |-> "none"]

IdleWorker == [pc |-> "idle", at |-> 0, sample |-> NoSample, reachable |-> TRUE, base |-> {},
               found |-> {}, kept |-> {}, resource |-> FALSE, faulted |-> {}]

Workers == [pc : Places, at : Nat, sample : Samples \cup {NoSample}, reachable : BOOLEAN,
            base : SUBSET Snapshots, found : SUBSET Findings, kept : SUBSET Findings,
            resource : BOOLEAN, faulted : SUBSET Places]

NoBaseline == Baseline("none", Unknown)

NoRows == [good |-> 0, bad |-> 0]

TypeOK ==
    /\ now \in 0 .. MaxTime
    /\ disk \in [Disks -> [slot : Slots \cup {Gone}, mounted : BOOLEAN, ro : BOOLEAN,
                           size : Sizes, errors : Nat]]
    /\ \A c, d \in Attached : disk[c].slot = disk[d].slot => c = d
    /\ raid \in {"none", "active", "degraded"}
    /\ lister \in {"lsblk", "partitions"}
    /\ booted \in 0 .. now
    /\ log \subseteq booted .. now
    /\ events \in 0 .. MaxEvents
    /\ snapshots \subseteq Snapshots
    /\ \A r \in snapshots : r.date = r.at \div DayLength /\ r.at <= now
    /\ \A r, s \in snapshots : r.date = s.date => r = s
    /\ hardware \in 0 .. Cardinality(Disks)
    /\ accepted \in [source : {"none", "initial", "planned", "confirmed"},
                     hardware : Nat, disk : Structures]
    /\ open \in Seq([status : OpenStatuses, seen : Payloads]) /\ Len(open) <= MaxOpen
    /\ plan \in BOOLEAN
    /\ worker \in Workers
    /\ rows \in [good : 0 .. 1, bad : 0 .. 2]
    /\ results \in [good : 0 .. 1, bad : 0 .. 2]
    /\ faults \in 0 .. MaxFaults

Init ==
    /\ now = 0
    /\ \E size \in StartSizes :
          disk = [d \in Disks |-> [slot |-> d, mounted |-> d \in Data, ro |-> FALSE,
                                  size |-> size, errors |-> 0]]
    /\ raid = "active" /\ lister = "lsblk"
    /\ booted = 0 /\ log = {} /\ events = 0
    /\ snapshots = {} /\ hardware = 0 /\ accepted = NoBaseline /\ open = <<>> /\ plan = FALSE
    /\ worker = IdleWorker /\ rows = NoRows /\ results = NoRows /\ faults = 0
    /\ shown = {}

At(pc) == worker.pc = pc
Goto(pc) == worker' = [worker EXCEPT !.pc = pc]

-----------------------------------------------------------------------------
(* The machine (external).                                                 *)

Happens ==
    /\ At("idle")
    /\ events < MaxEvents /\ events + faults < MaxUpsets
    /\ events' = events + 1
    /\ UNCHANGED <<now, store, run, shown>>

Vanish(d) ==
    /\ Happens
    /\ d \in Attached
    /\ disk' = [disk EXCEPT ![d].slot = Gone]
    /\ UNCHANGED <<raid, lister, booted, log>>

\* Pulled and plugged in again: another name, new counters.
Replug(d, slot) ==
    /\ Happens
    /\ slot \notin Taken
    /\ disk' = [disk EXCEPT ![d].slot = slot, ![d].errors = 0]
    /\ UNCHANGED <<raid, lister, booted, log>>

\* The disks that are left are named in a new order, counters start again.
Reboot ==
    /\ Happens
    /\ \E name \in [Attached -> Slots] :
          /\ \A c, d \in Attached : name[c] = name[d] => c = d
          /\ disk' = [d \in Disks |-> IF d \in Attached
                 THEN [disk[d] EXCEPT !.slot = name[d], !.ro = FALSE, !.errors = 0]
                 ELSE disk[d]]
    /\ booted' = now
    /\ log' = {}
    /\ UNCHANGED <<raid, lister>>

Remount(d) ==
    /\ Happens
    /\ d \in Attached /\ disk[d].mounted
    /\ \/ disk' = [disk EXCEPT ![d].ro = TRUE]
       \/ disk' = [disk EXCEPT ![d].mounted = FALSE]
    /\ UNCHANGED <<raid, lister, booted, log>>

MountAgain(d) ==
    /\ Happens
    /\ d \in Attached /\ ~disk[d].mounted
    /\ disk' = [disk EXCEPT ![d].mounted = TRUE]
    /\ UNCHANGED <<raid, lister, booted, log>>

Resize(d, size) ==
    /\ Happens
    /\ d \in Attached
    /\ disk' = [disk EXCEPT ![d].size = size]
    /\ UNCHANGED <<raid, lister, booted, log>>

DiskError(d) ==
    /\ Happens
    /\ d \in Attached
    /\ disk' = [disk EXCEPT ![d].errors = @ + 1]
    /\ log' = log \cup {now}
    /\ UNCHANGED <<raid, lister, booted>>

RaidChanges ==
    /\ Happens
    /\ raid' \in {"none", "active", "degraded"} \ {raid}
    /\ UNCHANGED <<disk, lister, booted, log>>

ListerChanges ==
    /\ Happens
    /\ lister' \in {"lsblk", "partitions"} \ {lister}
    /\ UNCHANGED <<disk, raid, booted, log>>

Tick ==
    /\ At("idle")
    /\ now < MaxTime
    /\ now' = now + 1
    /\ UNCHANGED <<machine, events, store, run, shown>>

-----------------------------------------------------------------------------
(* The resource evaluation, in one step.                                   *)

\* The stored disk structure the monitor compares with is that of the newest
\* snapshot.
StoredStructure ==
    IF snapshots = {} THEN NoStructure
    ELSE Structure((CHOOSE r \in snapshots : \A s \in snapshots : s.at <= r.at).sample)

Top == open[Len(open)]

\* Rows a resource event becomes open or is seen again in.
Reported(current) ==
    IF open # <<>> /\ Top.seen = current
    THEN [open EXCEPT ![Len(open)].status =
              IF @ = "recovered_pending" THEN "pending" ELSE @]
    ELSE Append(open, [status |-> "pending", seen |-> current])

\* evaluate_resource_configuration: the verdict, and what it writes.
Evaluate(current, verdict) ==
    LET base == Completed(accepted, current)
    IN  IF accepted = NoBaseline
        THEN /\ verdict = "initial"
             /\ accepted' = Baseline("initial", current)
             /\ UNCHANGED <<open, plan>>
        ELSE IF ~Deviates(base, current)
        THEN /\ verdict = IF open = <<>> THEN "normal" ELSE "recovered_pending"
             /\ accepted' = base
             /\ open' = IF open = <<>> THEN open
                        ELSE [open EXCEPT ![Len(open)].status = "recovered_pending"]
             /\ UNCHANGED plan
        ELSE IF plan
        THEN /\ verdict = "planned"
             /\ accepted' = Baseline("planned", current)
             /\ open' = IF open = <<>> THEN open ELSE SubSeq(open, 1, Len(open) - 1)
             /\ plan' = FALSE
        ELSE /\ verdict = Reported(current)[Len(Reported(current))].status
             /\ Len(Reported(current)) <= MaxOpen
             /\ accepted' = base
             /\ open' = Reported(current)
             /\ UNCHANGED plan

Verdicts == OpenStatuses \cup {"initial", "normal", "planned"}
Decided(verdict) == verdict = "planned"

RegisterPlan ==
    /\ At("idle")
    /\ ~plan /\ accepted # NoBaseline
    /\ plan' = TRUE
    /\ UNCHANGED <<now, machine, events, snapshots, hardware, accepted, open, run, shown>>

\* decide_resource_change_event of the newest open event.
Decide(decision) ==
    /\ At("idle")
    /\ open # <<>>
    /\ decision = "resolved" => Top.status = "recovered_pending"
    /\ open' = IF decision = "abnormal"
               THEN [open EXCEPT ![Len(open)].status = "confirmed_abnormal"]
               ELSE SubSeq(open, 1, Len(open) - 1)
    /\ accepted' = IF decision = "normal" THEN Baseline("confirmed", Top.seen)
                                       ELSE accepted
    /\ shown' = IF decision = "abnormal" THEN shown ELSE {}
    /\ UNCHANGED <<now, machine, events, snapshots, hardware, plan, run>>

-----------------------------------------------------------------------------
(* refresh_server_hardware, by the run, the monitor and the details page.  *)

\* _merge_hardware_values: what could not be read keeps what is recorded.
Merged(value) == IF value = 0 THEN hardware ELSE value

RecordHardware(value) ==
    LET current == [hardware |-> Merged(value), disk |-> StoredStructure]
    IN  /\ hardware' = Merged(value)
        /\ IF current = Unknown
           THEN UNCHANGED <<accepted, open, plan, shown>>
           ELSE \E verdict \in Verdicts :
                   /\ Evaluate(current, verdict)
                   /\ shown' = IF Decided(verdict) THEN {} ELSE shown
        /\ UNCHANGED snapshots

\* The collection or the evaluation fails.
HardwareNotRecorded ==
    /\ hardware' \in {hardware} \cup {Cardinality(Attached)}
    /\ UNCHANGED <<snapshots, accepted, open, plan, shown>>

\* Between runs; ResourceConfig has the monitor beside a running audit.
MonitorRefresh ==
    /\ At("idle")
    /\ \E value \in {0, Cardinality(Attached)} : RecordHardware(value)
    /\ UNCHANGED <<now, machine, events, run>>

-----------------------------------------------------------------------------
(* run_inspection for the server.                                          *)

Sample ==
    [uptime |-> now - booted, source |-> lister, raid |-> raid,
     devices |-> UNION {Devices(d, disk[d].slot, disk[d].size, disk[d].errors, lister)
                            : d \in Attached},
     mounts |-> {Mount(d, disk[d].slot, disk[d].ro)
                     : d \in {x \in Attached : disk[x].mounted}},
     kernel |-> {t - booted : t \in log}]

\* A database call of the step raises.
Raises ==
    /\ faults < MaxFaults /\ events + faults < MaxUpsets
    /\ faults' = faults + 1

\* clear_inspection_results and an empty list of rows.
StartRun ==
    /\ At("idle")
    /\ worker' = [IdleWorker EXCEPT !.pc = "connecting"]
    /\ rows' = NoRows /\ results' = NoRows
    /\ UNCHANGED <<now, machine, events, store, faults, shown>>

\* The run is over; the next one has an id and rows of its own.
FinishRun ==
    /\ At("reported")
    /\ worker' = IdleWorker
    /\ rows' = NoRows /\ results' = NoRows
    /\ UNCHANGED <<now, machine, events, store, faults, shown>>

Connect ==
    /\ At("connecting")
    /\ \/ worker' = [worker EXCEPT !.pc = "hardware", !.sample = Sample, !.at = now]
       \/ worker' = [worker EXCEPT !.pc = "hardware"]
       \/ worker' = [worker EXCEPT !.pc = "adding", !.reachable = FALSE]
    /\ UNCHANGED <<now, machine, events, store, rows, results, faults, shown>>

RefreshHardware ==
    /\ At("hardware")
    /\ \/ /\ \E value \in {0, Cardinality(Attached)} : RecordHardware(value)
          /\ Goto("auditing")
          /\ UNCHANGED faults
       \/ /\ Raises
          /\ HardwareNotRecorded
          /\ worker' = [worker EXCEPT !.pc = "auditing", !.faulted = @ \cup {"hardware"}]
    /\ UNCHANGED <<now, machine, events, rows, results>>

\* Without a sample there is nothing to compare and nothing to save.
AuditNothing ==
    /\ At("auditing")
    /\ worker.sample = NoSample
    /\ worker' = [worker EXCEPT !.pc = "attaching", !.found = Remark, !.kept = Remark]
    /\ UNCHANGED <<now, machine, events, store, rows, results, faults, shown>>

Audit ==
    /\ At("auditing")
    /\ worker.sample # NoSample
    /\ LET found == CompareDisk(snapshots, now, worker.sample)
           current == [hardware |-> hardware, disk |-> Structure(worker.sample)]
       IN  \E verdict \in Verdicts :
              /\ Evaluate(current, verdict)
              /\ worker' = [worker EXCEPT !.pc = "saving", !.found = found,
                     !.base = Window(snapshots, now),
                     !.kept = Filtered(found, verdict),
                     !.resource = verdict \in OpenStatuses]
              /\ shown' = Points(worker.sample)
                     \cup IF Decided(verdict) THEN {} ELSE shown
    /\ UNCHANGED <<now, machine, events, snapshots, hardware, rows, results, faults>>

\* Slip: the audit is not guarded by a try of its own.
AuditRaisesOut ==
    /\ At("auditing")
    /\ Raises
    /\ worker' = [worker EXCEPT !.pc = "failing", !.faulted = @ \cup {"auditing"}]
    /\ UNCHANGED <<now, machine, events, store, rows, results, shown>>

AuditRaises ==
    /\ At("auditing")
    /\ Raises
    /\ worker' = [worker EXCEPT !.pc = "attaching", !.faulted = @ \cup {"auditing"},
                                !.found = Remark, !.kept = Remark]
    /\ UNCHANGED <<now, machine, events, store, rows, results, shown>>

\* ON CONFLICT(server_id, snapshot_date): one row a day.
OtherDays(date) == {r \in snapshots : r.date # date}

SaveSnapshot ==
    /\ At("saving")
    /\ \/ /\ snapshots' = OtherDays(now \div DayLength) \cup
                 {[date |-> now \div DayLength, at |-> now, sample |-> worker.sample]}
          /\ Goto("attaching")
          /\ UNCHANGED faults
       \/ /\ Raises
          /\ worker' = [worker EXCEPT !.pc = "attaching", !.kept = @ \cup Remark,
                                      !.faulted = @ \cup {"saving"}]
          /\ UNCHANGED snapshots
    /\ UNCHANGED <<now, machine, events, hardware, accepted, open, plan, rows,
                   results, shown>>

\* The exception handler of the server loop.
Caught == worker' = [worker EXCEPT !.pc = "failing", !.faulted = @ \cup {worker.pc}]

\* attach_open_resource_change asks only when there is no finding yet.
Attach ==
    /\ At("attaching")
    /\ \/ /\ worker' = [worker EXCEPT !.pc = "adding", !.resource = @ \/ open # <<>>]
          /\ UNCHANGED faults
       \/ ~worker.resource /\ Raises /\ Caught
    /\ UNCHANGED <<now, machine, events, store, rows, results, shown>>

Plus(counts) == IF worker.reachable THEN [counts EXCEPT !.good = @ + 1]
                                    ELSE [counts EXCEPT !.bad = @ + 1]
PlusBad(counts) == [counts EXCEPT !.bad = @ + 1]

\* rows.append comes before add_inspection_result.
Add ==
    /\ At("adding")
    /\ rows' = Plus(rows)
    /\ \/ results' = Plus(results) /\ Goto("announcing") /\ UNCHANGED faults
       \/ Raises /\ Caught /\ UNCHANGED results
    /\ UNCHANGED <<now, machine, events, store, shown>>

\* update_progress, before the server and after it.
Announce ==
    /\ At("announcing")
    /\ Goto("pruning")
    /\ UNCHANGED <<now, machine, events, store, rows, results, faults, shown>>

AnnounceRaises ==
    /\ At("connecting") \/ At("announcing")
    /\ Raises
    /\ Caught
    /\ UNCHANGED <<now, machine, events, store, rows, results, shown>>

\* The handler adds a failed row of its own.  What raises in it ends the run.
AddFailed ==
    /\ At("failing")
    /\ rows' = PlusBad(rows)
    /\ \/ results' = PlusBad(results) /\ Goto("failed") /\ UNCHANGED faults
       \/ Raises /\ worker' = IdleWorker /\ UNCHANGED results
    /\ UNCHANGED <<now, machine, events, store, shown>>

AnnounceFailed ==
    /\ At("failed")
    /\ \/ Goto("pruning") /\ UNCHANGED faults
       \/ Raises /\ worker' = IdleWorker
    /\ UNCHANGED <<now, machine, events, store, rows, results, shown>>

\* prune_disk_snapshots, whose exceptions are ignored, and the report.
Prune ==
    /\ At("pruning")
    /\ Goto("reported")
    /\ \/ snapshots' = {r \in snapshots : now - r.at <= KeepAge} /\ UNCHANGED faults
       \/ Raises /\ UNCHANGED snapshots
    /\ UNCHANGED <<now, machine, events, hardware, accepted, open, plan, rows,
                   results, shown>>

Next ==
    \/ \E d \in Disks : Vanish(d)
    \/ \E d \in Disks, slot \in Slots : d \in Attached /\ Replug(d, slot)
    \/ Reboot
    \/ \E d \in Disks : Remount(d)
    \/ \E d \in Disks : MountAgain(d)
    \/ \E d \in Disks, size \in Sizes : disk[d].size # size /\ Resize(d, size)
    \/ \E d \in Disks : DiskError(d)
    \/ RaidChanges
    \/ ListerChanges
    \/ Tick
    \/ RegisterPlan
    \/ \E decision \in {"normal", "abnormal", "resolved"} : Decide(decision)
    \/ MonitorRefresh
    \/ StartRun
    \/ FinishRun
    \/ Connect
    \/ RefreshHardware
    \/ AuditNothing
    \/ Audit
    \/ AuditRaises
    \/ SaveSnapshot
    \/ Attach
    \/ Add
    \/ Announce
    \/ AnnounceRaises
    \/ AddFailed
    \/ AnnounceFailed
    \/ Prune

Spec == Init /\ [][Next]_vars

-----------------------------------------------------------------------------
(* Properties.                                                             *)

\* The run has audited the sample it holds.
Audited ==
    /\ worker.pc \notin {"idle", "connecting", "hardware", "auditing"}
    /\ worker.sample # NoSample
    /\ "auditing" \notin worker.faulted

\* A mount that some audit has seen since the last decision of a person or a
\* plan, and that the sample lacks, is in the report of this run: the disk
\* comparison or the resource configuration finds it, also when the snapshot that
\* showed it has been overwritten on the same day or is too old to compare with
\* (compare_disk, get_disk_baselines, evaluate_resource_configuration).
VanishedMountIsReported ==
    Audited /\ shown \ Points(worker.sample) # {} =>
        \/ worker.resource
        \/ \E f \in worker.kept : f.category \in {"missing", "unmounted"}

\* A report holds exactly one row of the server, the true one, unless a database
\* call outside the hardware refresh, the audit and the pruning has raised: an
\* audit that fails must not turn a good machine into a failed connection
\* (run_inspection, audit_server_disk).
OneTrueRow ==
    At("reported") /\ worker.faulted \subseteq {"hardware", "auditing", "saving"} =>
        rows = Plus(NoRows) /\ results = rows

\* An array that is degraded, and a file system that is read-only now and was not
\* in any snapshot of the window, are in the report whatever the resource
\* configuration says: no plan and no confirmation hides a real fault
\* (_check_raid, _check_mounts, the filter of audit_server_disk).
RealFaultsAreKept ==
    Audited /\ worker.base # {} =>
        /\ worker.sample.raid = "degraded" => Finding("severe", "raid", Nobody) \in worker.kept
        /\ \A m \in worker.sample.mounts :
              /\ m.ro
              /\ \A r \in worker.base : \E o \in r.sample.mounts : o.point = m.point /\ ~o.ro
              => Finding("severe", "readonly", <<m.point, "mount">>) \in worker.kept

Uuids(sample) == {e.uuid : e \in sample.devices} \ {NoUuid}
SameDisks(a, b) == a.source = "lsblk" /\ b.source = "lsblk" /\ Uuids(a) = Uuids(b)

\* As long as all snapshots of the window show the disks of the sample, whatever
\* their names, the comparison calls no device lost and no disk new
\* (_renamed_uuids and its parents).
RenameIsNoLoss ==
    Audited /\ (\A r \in worker.base : SameDisks(r.sample, worker.sample)) =>
        \A f \in worker.found :
            /\ f.category # "lost"
            /\ f.category = "change" => f.subject[2] # "disk"

\* A disk error in the report has happened since the newest snapshot it is
\* compared with was saved, across reboots that empty the log and reset the
\* counters (_check_kernel, _check_counters).
ReportedErrorIsNew ==
    Audited => \A f \in worker.found, r \in NewestRow(worker.base) :
        /\ f.category = "kernel" => worker.at - worker.sample.uptime + f.subject[1] >= r.at
        /\ f.category = "io" => \E t \in worker.sample.kernel :
               worker.at - worker.sample.uptime + t >= r.at

\* As long as the configuration is the initial one, which nobody has changed, a
\* partition that has shrunk below half is in the report when the comparison finds
\* it.  The audit drops it: the resource structure has no sizes and no partitions,
\* so its verdict is normal (audit_server_disk, disk_structure).
CapacityLossIsReported ==
    Audited /\ accepted.source = "initial" =>
        \A f \in worker.found : f.category = "capacity" => f \in worker.kept

\* Disks that only have other names than in every snapshot are no event of the
\* resource configuration.  They are: a whole disk has no UUID, so its name is its
\* identity there (_device_identity, disk_structure).
RenameIsSilent ==
    /\ Audited
    /\ worker.base # {}
    /\ \A r \in worker.base : /\ SameDisks(r.sample, worker.sample)
                              /\ Points(r.sample) = Points(worker.sample)
                              /\ Names(r.sample) # Names(worker.sample)
    => ~worker.resource

==============================================================================
