------------------------------ MODULE DiskAudit ------------------------------
(***************************************************************************)
(* The disk comparison of disk_audit.py, its baselines (models.py) and the *)
(* resource verdict it is filtered by (resource_audit.py), as operators on *)
(* one sample and the stored snapshots of one server.                      *)
(*                                                                         *)
(* A disk carries one partition, whose file system UUID is the identity of *)
(* the disk; slots stand for the names the kernel hands out (sda, sdb).    *)
(***************************************************************************)
EXTENDS Naturals, FiniteSets

CONSTANTS
    RecentAge,  \* age from which a snapshot is the recent baseline (30 minutes)
    DayAge,     \* age from which it is the baseline of the day before (12 hours)
    MaxAge,     \* age up to which it is a baseline at all (48 hours)
    KernelAge   \* how far back kernel lines count after a reboot (24 hours)

ASSUME AgeAssumption ==
    /\ {RecentAge, DayAge, MaxAge, KernelAge} \subseteq Nat
    /\ 0 < RecentAge /\ RecentAge <= DayAge /\ DayAge <= MaxAge

NoUuid == 0

Finding(severity, category, subject) ==
    [severity |-> severity, category |-> category, subject |-> subject]
Nobody == <<0, "none">>
Subjects == Nat \X {"none", "mount", "disk", "part", "line"}
Findings == [severity : {"severe", "warn", "info"}, subject : Subjects,
             category : {"check", "unmounted", "missing", "readonly", "lost", "capacity",
                         "change", "raid", "io", "kernel"}]
Remark == {Finding("info", "check", Nobody)}

-----------------------------------------------------------------------------
(* A sample: names are <<slot, kind>>.                                     *)

DiskName(slot) == <<slot, "disk">>
PartName(slot) == <<slot, "part">>

\* What lsblk, or /proc/partitions where there is no lsblk, says of one disk:
\* the disk itself has no UUID, its partition has.
Devices(d, slot, size, errors, source) ==
    {[name |-> DiskName(slot), kind |-> "disk", uuid |-> NoUuid, size |-> 0,
      ioerr |-> errors],
     [name |-> PartName(slot), kind |-> "part", size |-> size, ioerr |-> 0,
      uuid |-> IF source = "lsblk" THEN d ELSE NoUuid]}

Mount(d, slot, readonly) == [point |-> d, device |-> PartName(slot), ro |-> readonly]

DeviceRows == [name : Nat \X {"disk", "part"}, kind : {"disk", "part"},
               uuid : Nat, size : Nat, ioerr : Nat]
MountRows == [point : Nat, device : Nat \X {"part"}, ro : BOOLEAN]
Samples == [uptime : Nat, source : {"lsblk", "partitions"},
            raid : {"none", "active", "degraded"}, devices : SUBSET DeviceRows,
            mounts : SUBSET MountRows, kernel : SUBSET Nat]
Snapshots == [date : Nat, at : Nat, sample : Samples]

Names(sample) == {e.name : e \in sample.devices}
Points(sample) == {m.point : m \in sample.mounts}

\* sdb1 belongs to sdb; a whole disk has no parent.
Parents(e) == IF e.kind = "part" THEN {DiskName(e.name[1])} ELSE {}

RenamedUuids(prev, cur) ==
    ({e.uuid : e \in prev.devices} \cap {e.uuid : e \in cur.devices}) \ {NoUuid}

RenamedParents(prev, cur) ==
    UNION {Parents(e) : e \in {x \in cur.devices : x.uuid \in RenamedUuids(prev, cur)}}

\* Slip: only the UUID of the device itself is looked at.
NoOldParents(prev, cur) == {}

RenamedOldParents(prev, cur) ==
    (UNION {Parents(e) : e \in {x \in prev.devices : x.uuid \in RenamedUuids(prev, cur)}})
        \ Names(cur)

-----------------------------------------------------------------------------
(* The rules.                                                              *)

CheckMounts(prev, cur) ==
    {Finding("severe", IF m.device \in Names(cur) THEN "unmounted" ELSE "missing",
             <<m.point, "mount">>) : m \in {x \in prev.mounts : x.point \notin Points(cur)}}
    \cup
    {Finding("severe", "readonly", <<m.point, "mount">>) : m \in
        {x \in cur.mounts : x.ro /\ \E o \in prev.mounts : o.point = x.point /\ ~o.ro}}

Lost(prev, cur) ==
    {e \in prev.devices : /\ e.name \notin Names(cur)
                          /\ e.uuid \notin RenamedUuids(prev, cur)
                          /\ e.name \notin RenamedOldParents(prev, cur)}

\* Devices of the same name on both sides.
Pairs(prev, cur) == {p \in prev.devices \X cur.devices : p[1].name = p[2].name}

\* Lists of different origin are not compared.
CheckDevices(prev, cur) ==
    IF prev.source # cur.source THEN {}
    ELSE {Finding("severe", "lost", e.name) : e \in Lost(prev, cur)}
         \cup {Finding("severe", "capacity", p[1].name) : p \in
                {q \in Pairs(prev, cur) : 2 * q[2].size < q[1].size}}
         \cup {Finding("info", "change", p[1].name) : p \in
                {q \in Pairs(prev, cur) : /\ q[1].size # q[2].size
                                          /\ 2 * q[2].size >= q[1].size}}

CheckRaid(prev, cur) ==
    IF cur.raid = "degraded" \/ (cur.raid = "none" /\ prev.raid # "none")
    THEN {Finding("severe", "raid", Nobody)} ELSE {}

CheckAdditions(prev, cur) ==
    {Finding("info", "change", <<m.point, "mount">>) : m \in
        {x \in cur.mounts : x.point \notin Points(prev)}}
    \cup
    {Finding("info", "change", e.name) : e \in
        {x \in cur.devices : /\ prev.source = cur.source
                             /\ x.kind = "disk"
                             /\ x.name \notin Names(prev) \cup RenamedParents(prev, cur)}}

\* Counters only count when they grow: a smaller one has been reset.
Grown(before, after) == after > before

CheckCounters(prev, cur) ==
    {Finding("warn", "io", p[1].name) : p \in
        {q \in Pairs(prev, cur) : Grown(q[1].ioerr, q[2].ioerr)}}

\* Slip: the last line of the baseline counts once more.
NewLinesWithLast(prev, cur) ==
    {t \in cur.kernel : \A s \in prev.kernel : t >= s}

\* Lines later than the last one of the baseline.
NewLines(prev, cur) ==
    IF cur.uptime < prev.uptime
    THEN {t \in cur.kernel : cur.uptime - t <= KernelAge}
    ELSE {t \in cur.kernel : \A s \in prev.kernel : t > s}

CheckKernel(prev, cur) ==
    {Finding("warn", "kernel", <<t, "line">>) : t \in NewLines(prev, cur)}

-----------------------------------------------------------------------------
(* Baselines among the rows of disk_snapshots; at most one row of each.    *)

NewestRow(rows) == {r \in rows : \A s \in rows : s.at <= r.at}

PrevDay(rows, now) ==
    NewestRow({r \in rows : now - r.at >= DayAge /\ now - r.at <= MaxAge})

PrevRecent(rows, now) ==
    NewestRow({r \in rows : now - r.at >= RecentAge /\ now - r.at <= MaxAge})

\* The rows that a baseline can be taken from.
Window(rows, now) == {r \in rows : now - r.at >= RecentAge /\ now - r.at <= MaxAge}

\* compare_disk: the day before if there is one, otherwise the recent baseline;
\* without either there is a remark at most.
CompareWith(prev, recent, cur) ==
    CheckMounts(prev, cur) \cup CheckDevices(prev, cur) \cup CheckRaid(prev, cur)
        \cup CheckAdditions(prev, cur) \cup CheckCounters(recent, cur)
        \cup CheckKernel(recent, cur)

Basis(rows, now) ==
    IF PrevDay(rows, now) # {} THEN PrevDay(rows, now) ELSE PrevRecent(rows, now)

CompareDisk(rows, now, cur) ==
    IF Window(rows, now) # {}
    THEN UNION {CompareWith(p.sample, r.sample, cur) :
                    p \in Basis(rows, now), r \in PrevRecent(rows, now)}
    ELSE IF rows = {} \/ \A r \in rows : now - r.at > MaxAge THEN Remark ELSE {}

-----------------------------------------------------------------------------
(* The resource configuration: hardware and disk structure.  Zero and      *)
(* NoStructure are components that are not known.                          *)

NoStructure == [mounts |-> {}, disks |-> {<<0, "disk">>}]

\* disk_structure keeps mounts and whole disks.  Neither has a size: the rows of
\* df and lsblk do not have the fields it asks for.
Structure(sample) ==
    [mounts |-> Points(sample),
     disks |-> {e.name : e \in {x \in sample.devices : x.kind = "disk"}}]

Structures == [mounts : SUBSET Nat, disks : SUBSET (Nat \X {"disk"})]
Payloads == [hardware : Nat, disk : Structures]

Unknown == [hardware |-> 0, disk |-> NoStructure]

Baseline(source, payload) ==
    [source |-> source, hardware |-> payload.hardware, disk |-> payload.disk]

\* Slip: the disk structure of the baseline follows the machine.
CompletedAnew(base, current) ==
    [base EXCEPT !.hardware = IF @ = 0 THEN current.hardware ELSE @,
                 !.disk = current.disk]

\* A baseline lacks what was not known when it was taken.
Completed(base, current) ==
    [base EXCEPT !.hardware = IF @ = 0 THEN current.hardware ELSE @,
                 !.disk = IF @ = NoStructure THEN current.disk ELSE @]

Deviates(base, current) ==
    \/ /\ 0 \notin {base.hardware, current.hardware}
       /\ base.hardware # current.hardware
    \/ /\ NoStructure \notin {base.disk, current.disk}
       /\ base.disk # current.disk

OpenStatuses == {"pending", "confirmed_abnormal", "recovered_pending"}

Structural == {"capacity", "missing", "unmounted", "lost"}

\* Slip: every finding is taken for one about the structure.
KeepNothing(findings, status) ==
    IF status \in {"normal", "planned"} THEN {} ELSE findings

\* audit_server_disk: an accepted structure silences what is structural.
Filtered(findings, status) ==
    IF status \in {"normal", "planned"}
    THEN {f \in findings : f.category \notin Structural} ELSE findings
==============================================================================
