------------------------- MODULE InspectionRunProofs -------------------------
(***************************************************************************)
(* Theorems about InspectionRun for any disks, sizes, ages and bounds.     *)
(*                                                                         *)
(* What a report says is decided in Audit, from the sample and from the    *)
(* snapshots; the rest of the run only carries it (Settled).  The          *)
(* invariant says what Audit finds:                                        *)
(*   History   what a snapshot still tells about the machine, now          *)
(*   Holding   the sample in hand is the machine as it is                  *)
(*   Covered   mounts that an audit has seen are in the accepted           *)
(*             configuration, or an event is open                          *)
(*   Phases    the rows of the server, by the place of the run             *)
(***************************************************************************)
EXTENDS InspectionRun, FiniteSetTheorems, SequenceTheorems, WellFoundedInduction, TLAPS

\* What every sample has, beyond its type: names by kind, a partition on every
\* disk, and a UUID on every partition lsblk lists.
RealSample(s) ==
    \A e \in s.devices :
        /\ e.name[1] # 0 /\ e.name[2] = e.kind
        /\ e.kind = "disk" =>
              /\ e.size = 0
              /\ \E x \in s.devices : x.kind = "part" /\ x.name[1] = e.name[1]
        /\ e.kind = "part" => /\ e.ioerr = 0
                              /\ s.source = "lsblk" => e.uuid # NoUuid

\* What the machine has logged and counted since a snapshot: unless it has been
\* started again, the snapshot has the older lines, and a counter that has grown
\* has left a line.
Followed(r) ==
    LET started == r.at - r.sample.uptime
    IN  /\ r.sample.uptime <= r.at
        /\ started <= booted
        /\ started < booted => r.at <= booted
        /\ started = booted => \A t \in log : t < r.at => t - booted \in r.sample.kernel
        /\ \A e \in r.sample.devices, d \in Attached :
              e.name = DiskName(disk[d].slot) /\ e.ioerr < disk[d].errors
                  => \E t \in log : t >= r.at

History == \A r \in snapshots : RealSample(r.sample) /\ Followed(r)

Holding ==
    /\ worker.pc \in {"idle", "connecting"} => worker.sample = NoSample
    /\ worker.pc \in {"hardware", "auditing", "saving"} /\ worker.sample # NoSample
           => worker.sample = Sample /\ worker.at = now
    /\ worker.pc = "saving" => worker.sample # NoSample

Tolerated == {"hardware", "auditing", "saving"}
Before == {"connecting", "hardware", "auditing", "saving", "attaching", "adding"}

Phases ==
    /\ worker.pc \in Before \cup {"idle", "announcing"} => worker.faulted \subseteq Tolerated
    /\ worker.pc \in Before => rows = NoRows /\ results = NoRows
    /\ worker.pc \in {"announcing", "pruning", "reported"} /\ worker.faulted \subseteq Tolerated
           => rows = Plus(NoRows) /\ results = Plus(NoRows)
    /\ worker.pc \in {"failing", "failed"} => ~(worker.faulted \subseteq Tolerated)
    /\ worker.pc = "failing" => rows.bad <= 1 /\ results.bad <= 1

Covered ==
    shown # {} => /\ accepted.disk # NoStructure
                  /\ open = <<>> => shown \subseteq accepted.disk.mounts

\* A mount that is gone is found by the resource configuration alone.
Missed == Audited /\ shown \ Points(worker.sample) # {} => worker.resource

Outcome == Missed /\ RealFaultsAreKept /\ RenameIsNoLoss /\ ReportedErrorIsNew

IInv == TypeOK /\ History /\ Holding /\ Phases /\ Covered /\ Outcome

MachineTyped ==
    /\ now \in 0 .. MaxTime
    /\ disk \in [Disks -> [slot : Slots \cup {Gone}, mounted : BOOLEAN, ro : BOOLEAN,
                           size : Sizes, errors : Nat]]
    /\ \A c, d \in Attached : disk[c].slot = disk[d].slot => c = d
    /\ raid \in {"none", "active", "degraded"}
    /\ lister \in {"lsblk", "partitions"}
    /\ booted \in 0 .. now
    /\ log \subseteq booted .. now
    /\ events \in 0 .. MaxEvents

SnapshotsTyped ==
    /\ snapshots \subseteq Snapshots
    /\ \A r \in snapshots : r.date = r.at \div DayLength /\ r.at <= now
    /\ \A r, s \in snapshots : r.date = s.date => r = s

Events == [status : OpenStatuses, seen : Payloads]
AcceptedTyped ==
    /\ accepted \in [source : {"none", "initial", "planned", "confirmed"},
                     hardware : Nat, disk : Structures]
    /\ open \in Seq(Events) /\ Len(open) <= MaxOpen
    /\ plan \in BOOLEAN

HardwareTyped == hardware \in 0 .. Cardinality(Disks)

RunTyped ==
    /\ worker \in Workers
    /\ rows \in [good : 0 .. 1, bad : 0 .. 2]
    /\ results \in [good : 0 .. 1, bad : 0 .. 2]
    /\ faults \in 0 .. MaxFaults

LEMMA Typed ==
  TypeOK <=> MachineTyped /\ SnapshotsTyped /\ HardwareTyped /\ AcceptedTyped /\ RunTyped
BY DEF TypeOK, MachineTyped, SnapshotsTyped, HardwareTyped, AcceptedTyped, RunTyped, Events

-----------------------------------------------------------------------------
(* Operators.                                                              *)

Below == {ss \in Nat \X Nat : ss[1] < ss[2]}

\* A set of numbers that is not empty has a least one.
LEMMA LeastNumber ==
  ASSUME NEW T \in SUBSET Nat, T # {}
  PROVE  \E x \in T : \A y \in T : x <= y
<1>1. IsWellFoundedOn(Below, Nat)
  BY NatLessThanWellFounded DEF OpToRel, Below
<1>2. PICK x \in T : \A y \in T : ~ (<<y, x>> \in Below)
  BY <1>1, WFMin
<1>3. ASSUME NEW y \in T PROVE x <= y
  <2>1. y < x => <<y, x>> \in Below
    BY DEF Below
  <2> QED BY <1>2, <2>1
<1> QED BY <1>3

\* Among rows of the past there is a newest one.
LEMMA NewestExists ==
  ASSUME NEW R \in SUBSET Snapshots, R # {}, NEW t \in Nat, \A r \in R : r.at <= t
  PROVE  NewestRow(R) # {}
<1> DEFINE ages == {t - r.at : r \in R}
<1>1. \A r \in R : r.at \in Nat
  BY DEF Snapshots
<1>2. ages \in SUBSET Nat /\ ages # {}
  BY <1>1
<1>3. PICK x \in ages : \A y \in ages : x <= y
  BY <1>2, LeastNumber
<1>4. PICK r \in R : x = t - r.at
  BY <1>3
<1>5. \A s \in R : s.at <= r.at
  BY <1>1, <1>3, <1>4
<1> QED BY <1>5 DEF NewestRow

\* The rows compare_disk takes are rows of the window, and there are some when
\* the window has any.
LEMMA Baselines ==
  ASSUME NEW R \in SUBSET Snapshots, NEW t \in Nat, \A r \in R : r.at <= t
  PROVE  /\ Window(R, t) \in SUBSET R
         /\ PrevRecent(R, t) = NewestRow(Window(R, t))
         /\ PrevRecent(R, t) \subseteq Window(R, t)
         /\ Basis(R, t) \subseteq Window(R, t)
         /\ Window(R, t) # {} => Basis(R, t) # {} /\ PrevRecent(R, t) # {}
<1>1. Window(R, t) \in SUBSET R /\ PrevRecent(R, t) = NewestRow(Window(R, t))
  BY DEF Window, PrevRecent
<1>2. PrevRecent(R, t) \subseteq Window(R, t)
  BY <1>1 DEF NewestRow
<1>3. PrevDay(R, t) \subseteq Window(R, t)
  <2>1. \A r \in R : r.at \in Nat
    BY DEF Snapshots
  <2> QED BY <2>1, AgeAssumption DEF PrevDay, NewestRow, Window
<1>4. Window(R, t) # {} => PrevRecent(R, t) # {}
  BY <1>1, NewestExists
<1> QED BY <1>1, <1>2, <1>3, <1>4 DEF Basis

\* Every finding of a comparison comes from one pair of baselines.
LEMMA Compared ==
  ASSUME NEW R, NEW t, NEW c, NEW f \in CompareDisk(R, t, c), f \notin Remark
  PROVE  /\ Window(R, t) # {}
         /\ \E p \in Basis(R, t), r \in PrevRecent(R, t) : f \in CompareWith(p.sample, r.sample, c)
BY DEF CompareDisk

LEMMA RemarkTyped == Remark \in SUBSET Findings
BY DEF Remark, Finding, Nobody, Subjects, Findings

LEMMA ComparisonTyped ==
  ASSUME NEW R \in SUBSET Snapshots, NEW t \in Nat, \A r \in R : r.at <= t, NEW c \in Samples
  PROVE  CompareDisk(R, t, c) \in SUBSET Findings
<1> SUFFICES ASSUME NEW f \in CompareDisk(R, t, c), f \notin Remark PROVE f \in Findings
  BY RemarkTyped
<1>1. PICK p \in R, r \in R : f \in CompareWith(p.sample, r.sample, c)
  <2>1. PICK p \in Basis(R, t), r \in PrevRecent(R, t) : f \in CompareWith(p.sample, r.sample, c)
    BY Compared
  <2>2. p \in R /\ r \in R
    BY Baselines
  <2> QED BY <2>1, <2>2
<1>2. p.sample \in Samples /\ r.sample \in Samples
  BY DEF Snapshots
<1> DEFINE prev == p.sample
           rec == r.sample
<1>3. /\ prev.devices \subseteq DeviceRows /\ rec.devices \subseteq DeviceRows
      /\ c.devices \subseteq DeviceRows
      /\ prev.mounts \subseteq MountRows /\ c.mounts \subseteq MountRows /\ c.kernel \subseteq Nat
  BY <1>2 DEF Samples
<1>4. /\ \A m \in prev.mounts \cup c.mounts : <<m.point, "mount">> \in Subjects
      /\ \A e \in prev.devices \cup c.devices \cup rec.devices : e.name \in Subjects
      /\ \A n \in c.kernel : <<n, "line">> \in Subjects
      /\ Nobody \in Subjects
  <2>1. \A m \in prev.mounts \cup c.mounts : m.point \in Nat
    BY <1>3 DEF MountRows
  <2>2. \A e \in prev.devices \cup c.devices \cup rec.devices : e.name \in Nat \X {"disk", "part"}
    BY <1>3 DEF DeviceRows
  <2> QED BY <1>3, <2>1, <2>2 DEF Nobody, Subjects
<1>5. ASSUME NEW n \in Subjects
      PROVE  /\ Finding("severe", "missing", n) \in Findings
             /\ Finding("severe", "unmounted", n) \in Findings
             /\ Finding("severe", "readonly", n) \in Findings
             /\ Finding("severe", "lost", n) \in Findings
             /\ Finding("severe", "capacity", n) \in Findings
             /\ Finding("info", "change", n) \in Findings
             /\ Finding("severe", "raid", n) \in Findings
             /\ Finding("warn", "io", n) \in Findings
             /\ Finding("warn", "kernel", n) \in Findings
  BY DEF Finding, Findings
<1> HIDE DEF prev, rec
<1>6. ASSUME f \in CheckMounts(prev, c) PROVE f \in Findings
  <2>1. \/ \E m \in prev.mounts : \/ f = Finding("severe", "missing", <<m.point, "mount">>)
                                  \/ f = Finding("severe", "unmounted", <<m.point, "mount">>)
        \/ \E m \in c.mounts : f = Finding("severe", "readonly", <<m.point, "mount">>)
    BY <1>6 DEF CheckMounts
  <2> QED BY <1>4, <1>5, <2>1
<1>7. ASSUME f \in CheckDevices(prev, c) PROVE f \in Findings
  <2>1. \E e \in prev.devices : \/ f = Finding("severe", "lost", e.name)
                                \/ f = Finding("severe", "capacity", e.name)
                                \/ f = Finding("info", "change", e.name)
    BY <1>7 DEF CheckDevices, Lost, Pairs
  <2> QED BY <1>4, <1>5, <2>1
<1>8. ASSUME f \in CheckRaid(prev, c) PROVE f \in Findings
  BY <1>4, <1>5, <1>8 DEF CheckRaid
<1>9. ASSUME f \in CheckAdditions(prev, c) PROVE f \in Findings
  <2>1. \/ \E m \in c.mounts : f = Finding("info", "change", <<m.point, "mount">>)
        \/ \E e \in c.devices : f = Finding("info", "change", e.name)
    BY <1>9 DEF CheckAdditions
  <2> QED BY <1>4, <1>5, <2>1
<1>10. ASSUME f \in CheckCounters(rec, c) PROVE f \in Findings
  <2>1. \E e \in rec.devices : f = Finding("warn", "io", e.name)
    BY <1>10 DEF CheckCounters, Pairs
  <2> QED BY <1>4, <1>5, <2>1
<1>11. ASSUME f \in CheckKernel(rec, c) PROVE f \in Findings
  <2>1. \E n \in c.kernel : f = Finding("warn", "kernel", <<n, "line">>)
    BY <1>11 DEF CheckKernel, NewLines
  <2> QED BY <1>4, <1>5, <2>1
<1>12. f \in CompareWith(prev, rec, c)
  BY <1>1 DEF prev, rec
<1> QED BY <1>12, <1>6, <1>7, <1>8, <1>9, <1>10, <1>11 DEF CompareWith

LEMMA FilteredTyped ==
  ASSUME NEW F \in SUBSET Findings, NEW v
  PROVE  Filtered(F, v) \in SUBSET Findings
BY DEF Filtered

\* A degraded array, and a file system that no baseline shows read-only, are
\* findings, and the filter keeps them.
LEMMA FaultsFound ==
  ASSUME NEW R \in SUBSET Snapshots, NEW t \in Nat, \A r \in R : r.at <= t, NEW c, NEW v,
         Window(R, t) # {}
  PROVE  /\ c.raid = "degraded"
               => Finding("severe", "raid", Nobody) \in Filtered(CompareDisk(R, t, c), v)
         /\ \A m \in c.mounts :
               /\ m.ro
               /\ \A r \in Window(R, t) : \E o \in r.sample.mounts : o.point = m.point /\ ~o.ro
               => Finding("severe", "readonly", <<m.point, "mount">>)
                     \in Filtered(CompareDisk(R, t, c), v)
<1>1. PICK p \in Basis(R, t), r \in PrevRecent(R, t) : p \in Window(R, t)
  <2>1. PICK p \in Basis(R, t), r \in PrevRecent(R, t) : TRUE
    BY Baselines
  <2> QED BY <2>1, Baselines
<1>2. CompareWith(p.sample, r.sample, c) \subseteq CompareDisk(R, t, c)
  BY <1>1 DEF CompareDisk
<1>3. \A f \in CompareDisk(R, t, c) :
         f.category \notin Structural => f \in Filtered(CompareDisk(R, t, c), v)
  BY DEF Filtered
<1>4. ASSUME c.raid = "degraded"
      PROVE  Finding("severe", "raid", Nobody) \in Filtered(CompareDisk(R, t, c), v)
  <2>1. Finding("severe", "raid", Nobody) \in CompareDisk(R, t, c)
    BY <1>2, <1>4 DEF CompareWith, CheckRaid
  <2> QED BY <1>3, <2>1 DEF Finding, Structural
<1>5. ASSUME NEW m \in c.mounts, m.ro,
             \A s \in Window(R, t) : \E o \in s.sample.mounts : o.point = m.point /\ ~o.ro
      PROVE  Finding("severe", "readonly", <<m.point, "mount">>)
                \in Filtered(CompareDisk(R, t, c), v)
  <2>1. Finding("severe", "readonly", <<m.point, "mount">>) \in CheckMounts(p.sample, c)
    BY <1>1, <1>5 DEF CheckMounts
  <2>2. Finding("severe", "readonly", <<m.point, "mount">>) \in CompareDisk(R, t, c)
    BY <1>2, <2>1 DEF CompareWith
  <2> QED BY <1>3, <2>2 DEF Finding, Structural
<1> QED BY <1>4, <1>5

LEMMA NamesOfFinding ==
  ASSUME NEW s, NEW k, NEW n
  PROVE  /\ Finding(s, k, n).severity = s
         /\ Finding(s, k, n).category = k
         /\ Finding(s, k, n).subject = n
BY DEF Finding

\* Two samples of the same disks, by whatever names: no device is lost, and no
\* disk has been added or has changed.
LEMMA NothingLost ==
  ASSUME NEW prev \in Samples, NEW rec, NEW cur \in Samples,
         RealSample(prev), RealSample(cur), SameDisks(prev, cur),
         NEW f \in CompareWith(prev, rec, cur)
  PROVE  f.category # "lost" /\ (f.category = "change" => f.subject[2] # "disk")
<1>1. /\ prev.devices \subseteq DeviceRows /\ cur.devices \subseteq DeviceRows
      /\ prev.source = "lsblk" /\ cur.source = "lsblk"
  BY DEF Samples, SameDisks
<1>2. \A e \in prev.devices \cup cur.devices :
         /\ e.kind \in {"disk", "part"}
         /\ e.name = <<e.name[1], e.kind>>
         /\ e.name[2] = e.kind
  <2>1. \A e \in prev.devices \cup cur.devices :
           e.kind \in {"disk", "part"} /\ e.name \in Nat \X {"disk", "part"}
    BY <1>1 DEF DeviceRows
  <2>2. \A e \in prev.devices \cup cur.devices : e.name[2] = e.kind
    BY DEF RealSample
  <2> QED BY <2>1, <2>2
<1>3. \A e \in prev.devices \cup cur.devices :
         e.kind = "part" => e.uuid \in RenamedUuids(prev, cur)
  <2>1. \A e \in prev.devices \cup cur.devices : e.kind = "part" => e.uuid # NoUuid
    BY <1>1 DEF RealSample
  <2>2. {e.uuid : e \in prev.devices} \ {NoUuid} = {e.uuid : e \in cur.devices} \ {NoUuid}
    BY DEF SameDisks, Uuids
  <2>3. \A e \in prev.devices : e.uuid \in {x.uuid : x \in prev.devices}
    OBVIOUS
  <2>4. \A e \in cur.devices : e.uuid \in {x.uuid : x \in cur.devices}
    OBVIOUS
  <2> QED BY <2>1, <2>2, <2>3, <2>4 DEF RenamedUuids
<1>4. ASSUME NEW e \in prev.devices, e.kind = "disk"
      PROVE  e.name \in Names(cur) \cup RenamedOldParents(prev, cur)
  <2>1. PICK x \in prev.devices : x.kind = "part" /\ x.name[1] = e.name[1]
    BY <1>4 DEF RealSample
  <2>2. x.uuid \in RenamedUuids(prev, cur) /\ e.name \in Parents(x)
    BY <1>2, <1>3, <1>4, <2>1 DEF Parents, DiskName
  <2> QED BY <2>2 DEF RenamedOldParents
<1>5. ASSUME NEW e \in cur.devices, e.kind = "disk"
      PROVE  e.name \in RenamedParents(prev, cur)
  <2>1. PICK x \in cur.devices : x.kind = "part" /\ x.name[1] = e.name[1]
    BY <1>5 DEF RealSample
  <2>2. x.uuid \in RenamedUuids(prev, cur) /\ e.name \in Parents(x)
    BY <1>2, <1>3, <1>5, <2>1 DEF Parents, DiskName
  <2> QED BY <2>2 DEF RenamedParents
<1>6. Lost(prev, cur) = {}
  BY <1>2, <1>3, <1>4 DEF Lost
<1>7. ASSUME f \in CheckMounts(prev, cur)
      PROVE  f.category # "lost" /\ f.category # "change"
  <2>1. \E k \in {"missing", "unmounted", "readonly"}, n \in {<<m.point, "mount">> :
           m \in prev.mounts \cup cur.mounts} : f = Finding("severe", k, n)
    BY <1>7 DEF CheckMounts
  <2> QED BY <2>1, NamesOfFinding
<1>8. ASSUME f \in CheckDevices(prev, cur)
      PROVE  f.category # "lost" /\ (f.category = "change" => f.subject[2] # "disk")
  <2>1. CASE \E p \in Pairs(prev, cur) : f = Finding("severe", "capacity", p[1].name)
    BY <2>1, NamesOfFinding
  <2>2. CASE \E p \in Pairs(prev, cur) :
                f = Finding("info", "change", p[1].name) /\ p[1].size # p[2].size
    <3>1. PICK p \in Pairs(prev, cur) :
             f = Finding("info", "change", p[1].name) /\ p[1].size # p[2].size
      BY <2>2
    <3>2. p[1] \in prev.devices /\ p[2] \in cur.devices /\ p[1].name = p[2].name
      BY DEF Pairs
    <3>3. p[1].kind = p[2].kind
      BY <1>2, <3>2
    <3>4. p[1].kind # "disk"
      BY <3>1, <3>2, <3>3 DEF RealSample
    <3>5. f.category = "change" /\ f.subject = p[1].name
      BY <3>1, NamesOfFinding
    <3> QED BY <1>2, <3>2, <3>4, <3>5
  <2> QED BY <1>6, <1>8, <2>1, <2>2 DEF CheckDevices
<1>9. ASSUME f \in CheckRaid(prev, cur) PROVE f.category = "raid"
  BY <1>9, NamesOfFinding DEF CheckRaid
<1>10. ASSUME f \in CheckAdditions(prev, cur)
       PROVE  f.category # "lost" /\ f.subject[2] # "disk"
  <2>1. \E m \in cur.mounts : f = Finding("info", "change", <<m.point, "mount">>)
    BY <1>5, <1>10 DEF CheckAdditions
  <2>2. PICK m \in cur.mounts : f = Finding("info", "change", <<m.point, "mount">>)
    BY <2>1
  <2>3. f.subject = <<m.point, "mount">> /\ f.category = "change"
    BY <2>2, NamesOfFinding
  <2> QED BY <2>3
<1>11. ASSUME f \in CheckCounters(rec, cur) PROVE f.category = "io"
  BY <1>11, NamesOfFinding DEF CheckCounters
<1>12. ASSUME f \in CheckKernel(rec, cur) PROVE f.category = "kernel"
  <2>1. PICK l \in NewLines(rec, cur) : f = Finding("warn", "kernel", <<l, "line">>)
    BY <1>12 DEF CheckKernel
  <2> QED BY <2>1, NamesOfFinding
<1> QED BY <1>7, <1>8, <1>9, <1>10, <1>11, <1>12 DEF CompareWith

DiskRow(d) == [name |-> DiskName(disk[d].slot), kind |-> "disk", uuid |-> NoUuid,
               size |-> 0, ioerr |-> disk[d].errors]
PartRow(d) == [name |-> PartName(disk[d].slot), kind |-> "part", size |-> disk[d].size,
               ioerr |-> 0, uuid |-> IF lister = "lsblk" THEN d ELSE NoUuid]

LEMMA SampleRows ==
  /\ \A e \in Sample.devices : \E d \in Attached : e = DiskRow(d) \/ e = PartRow(d)
  /\ \A d \in Attached : DiskRow(d) \in Sample.devices /\ PartRow(d) \in Sample.devices
<1>1. Sample.devices = UNION {Devices(d, disk[d].slot, disk[d].size, disk[d].errors, lister)
                                 : d \in Attached}
  BY DEF Sample
<1>2. \A d \in Attached : Devices(d, disk[d].slot, disk[d].size, disk[d].errors, lister)
                              = {DiskRow(d), PartRow(d)}
  BY DEF Devices, DiskRow, PartRow
<1> QED BY <1>1, <1>2

LEMMA AttachedTyped ==
  ASSUME MachineTyped, NEW d \in Attached
  PROVE  /\ d \in Nat \ {0}
         /\ disk[d].slot \in Nat \ {0}
         /\ disk[d].size \in Nat /\ disk[d].errors \in Nat /\ disk[d].ro \in BOOLEAN
BY RunAssumption DEF MachineTyped, Attached, Gone

\* The sample that is taken of the machine.
LEMMA SampleTyped ==
  ASSUME MachineTyped
  PROVE  /\ Sample \in Samples /\ RealSample(Sample) /\ Sample # NoSample
         /\ Sample.uptime = now - booted
         /\ Sample.kernel = {t - booted : t \in log}
<1>1. \A d \in Attached : DiskRow(d) \in DeviceRows /\ PartRow(d) \in DeviceRows
  BY AttachedTyped DEF DiskRow, PartRow, DeviceRows, NoUuid, DiskName, PartName
<1>2. Sample.devices \in SUBSET DeviceRows
  BY <1>1, SampleRows
<1>3. \A d \in Attached : Mount(d, disk[d].slot, disk[d].ro) \in MountRows
  BY AttachedTyped DEF Mount, MountRows, PartName
<1>4. Sample.mounts \in SUBSET MountRows
  BY <1>3 DEF Sample
<1>5. Sample.kernel \in SUBSET Nat /\ Sample.uptime \in Nat
  BY RunAssumption DEF Sample, MachineTyped
<1>6. Sample.source \in {"lsblk", "partitions"} /\ Sample.raid \in {"none", "active", "degraded"}
  BY DEF Sample, MachineTyped
<1>7. Sample \in Samples
  BY <1>2, <1>4, <1>5, <1>6 DEF Samples, Sample
<1>8. RealSample(Sample)
  <2> SUFFICES ASSUME NEW e \in Sample.devices
               PROVE  /\ e.name[1] # 0 /\ e.name[2] = e.kind
                      /\ e.kind = "disk" =>
                            /\ e.size = 0
                            /\ \E x \in Sample.devices : x.kind = "part" /\ x.name[1] = e.name[1]
                      /\ e.kind = "part" => /\ e.ioerr = 0
                                            /\ Sample.source = "lsblk" => e.uuid # NoUuid
    BY DEF RealSample
  <2>1. PICK d \in Attached : e = DiskRow(d) \/ e = PartRow(d)
    BY SampleRows
  <2>2. PartRow(d) \in Sample.devices
    BY SampleRows
  <2>3. CASE e = DiskRow(d)
    BY <2>2, <2>3, AttachedTyped DEF DiskRow, PartRow, DiskName, PartName
  <2>4. CASE e = PartRow(d)
    BY <2>4, AttachedTyped DEF PartRow, PartName, Sample, NoUuid
  <2> QED BY <2>1, <2>3, <2>4
<1> QED BY <1>6, <1>7, <1>8 DEF Sample, NoSample

\* The disk structure of a sample is known.
LEMMA StructureKnown ==
  ASSUME NEW s \in Samples, RealSample(s)
  PROVE  /\ Structure(s) \in Structures
         /\ Structure(s) # NoStructure
         /\ Structure(s).mounts = Points(s)
<1>1. s.mounts \subseteq MountRows /\ s.devices \subseteq DeviceRows
  BY DEF Samples
<1>2. Points(s) \subseteq Nat
  BY <1>1 DEF Points, MountRows
<1>3. \A e \in s.devices : e.kind = "disk" => e.name \in Nat \X {"disk"}
  BY <1>1 DEF RealSample, DeviceRows
<1>4. Structure(s) \in Structures
  BY <1>2, <1>3 DEF Structure, Structures
<1>5. <<0, "disk">> \notin Structure(s).disks
  BY DEF Structure, RealSample
<1> QED BY <1>4, <1>5 DEF Structure, NoStructure

\* Lines and counters that are new against a snapshot are of after it was saved.
LEMMA NewErrors ==
  ASSUME MachineTyped, NEW r \in Snapshots, RealSample(r.sample), Followed(r), r.at <= now
  PROVE  /\ \A f \in CheckKernel(r.sample, Sample) : booted + f.subject[1] >= r.at
         /\ CheckCounters(r.sample, Sample) # {} => \E t \in log : t >= r.at
<1> DEFINE started == r.at - r.sample.uptime
<1>1. /\ now \in Nat /\ booted \in Nat /\ booted <= now
      /\ log \subseteq Nat /\ \A t \in log : t >= booted
      /\ r.at \in Nat /\ r.sample \in Samples
  BY RunAssumption DEF MachineTyped, Snapshots
<1>2. r.sample.uptime \in Nat /\ r.sample.kernel \subseteq Nat /\ r.sample.devices \subseteq DeviceRows
  BY <1>1 DEF Samples
<1>3. /\ r.sample.uptime <= r.at /\ started <= booted
      /\ started < booted => r.at <= booted
      /\ started = booted => \A t \in log : t < r.at => t - booted \in r.sample.kernel
      /\ \A e \in r.sample.devices, d \in Attached :
            e.name = DiskName(disk[d].slot) /\ e.ioerr < disk[d].errors
               => \E t \in log : t >= r.at
  BY DEF Followed
<1> HIDE DEF started
<1>4. ASSUME NEW l \in NewLines(r.sample, Sample) PROVE booted + l >= r.at
  <2>1. l \in {t - booted : t \in log}
    BY SampleTyped DEF NewLines
  <2>2. PICK t \in log : l = t - booted
    BY <2>1
  <2>7. t \in Nat /\ t >= booted /\ booted + l = t
    BY <1>1, <2>2
  <2>3. CASE started < booted
    <3>1. r.at <= booted
      BY <1>3, <2>3
    <3> QED BY <1>1, <2>7, <3>1
  <2>4. CASE started = booted
    <3>1. ~(Sample.uptime < r.sample.uptime)
      BY <1>1, <1>2, <2>4, SampleTyped DEF started
    <3>2. \A s \in r.sample.kernel : l > s
      BY <3>1 DEF NewLines
    <3>3. ~(t < r.at)
      BY <1>1, <1>2, <1>3, <2>2, <2>4, <3>2
    <3> QED BY <1>1, <2>2, <3>3
  <2> QED BY <1>1, <1>2, <1>3, <2>3, <2>4 DEF started
<1>5. ASSUME NEW f \in CheckKernel(r.sample, Sample) PROVE booted + f.subject[1] >= r.at
  <2>1. PICK l \in NewLines(r.sample, Sample) : f = Finding("warn", "kernel", <<l, "line">>)
    BY DEF CheckKernel
  <2>2. f.subject = <<l, "line">>
    BY <2>1, NamesOfFinding
  <2> QED BY <1>4, <2>2
<1>6. ASSUME CheckCounters(r.sample, Sample) # {} PROVE \E t \in log : t >= r.at
  <2>1. PICK p \in Pairs(r.sample, Sample) : Grown(p[1].ioerr, p[2].ioerr)
    BY <1>6 DEF CheckCounters
  <2>2. p[1] \in r.sample.devices /\ p[2] \in Sample.devices /\ p[1].name = p[2].name
    BY DEF Pairs
  <2>3. p[1].ioerr \in Nat
    BY <1>2, <2>2 DEF DeviceRows
  <2>4. PICK d \in Attached : p[2] = DiskRow(d) \/ p[2] = PartRow(d)
    BY <2>2, SampleRows
  <2>5. CASE p[2] = DiskRow(d)
    <3>1. p[2].name = DiskName(disk[d].slot) /\ p[2].ioerr = disk[d].errors
      BY <2>5 DEF DiskRow
    <3>2. p[1].ioerr < disk[d].errors
      BY <2>1, <2>3, <3>1, AttachedTyped DEF Grown
    <3> QED BY <1>3, <2>2, <3>1, <3>2
  <2>6. CASE p[2] = PartRow(d)
    <3>1. p[2].ioerr = 0
      BY <2>6 DEF PartRow
    <3> QED BY <2>1, <2>3, <3>1 DEF Grown
  <2> QED BY <2>4, <2>5, <2>6
<1> QED BY <1>5, <1>6

\* What an evaluation does to the accepted configuration and to the open events,
\* by its verdict.
Evaluated(current, verdict) ==
    /\ AcceptedTyped'
    /\ current.disk # NoStructure => /\ accepted'.disk # NoStructure
                                     /\ open' = <<>> => accepted'.disk = current.disk
    /\ verdict # "planned" =>
          /\ open' = <<>> => open = <<>>
          /\ accepted.disk # NoStructure => accepted'.disk = accepted.disk
          /\ accepted.disk # NoStructure /\ verdict \notin OpenStatuses =>
                /\ open = <<>>
                /\ current.disk \in {accepted.disk, NoStructure}

LEMMA ReportedTyped ==
  ASSUME AcceptedTyped, NEW current \in Payloads
  PROVE  /\ Reported(current) \in Seq(Events)
         /\ Reported(current) # <<>>
         /\ Reported(current)[Len(Reported(current))].status \in OpenStatuses
<1>1. open \in Seq(Events) /\ Len(open) \in Nat /\ open \in [1 .. Len(open) -> Events]
  BY LenProperties DEF AcceptedTyped
<1>2. CASE open # <<>> /\ Top.seen = current
  <2>1. Len(open) \in 1 .. Len(open)
    BY <1>1, <1>2, EmptySeq
  <2>2. Reported(current) = [open EXCEPT ![Len(open)].status =
                               IF @ = "recovered_pending" THEN "pending" ELSE @]
    BY <1>2 DEF Reported
  <2>3. Reported(current) \in [1 .. Len(open) -> Events]
    BY <1>1, <2>1, <2>2 DEF Events, OpenStatuses
  <2>4. Reported(current) \in Seq(Events) /\ Len(Reported(current)) = Len(open)
    BY <1>1, <2>3
  <2> QED BY <1>1, <2>1, <2>3, <2>4 DEF Events
<1>3. CASE ~(open # <<>> /\ Top.seen = current)
  <2>1. Reported(current) = Append(open, [status |-> "pending", seen |-> current])
    BY <1>3 DEF Reported
  <2>2. [status |-> "pending", seen |-> current] \in Events
    BY DEF Events, OpenStatuses
  <2> QED BY <1>1, <2>1, <2>2, AppendProperties DEF OpenStatuses
<1> QED BY <1>2, <1>3

\* The newest open event goes, or stays with another status.
LEMMA TopChanged ==
  ASSUME NEW s \in OpenStatuses, AcceptedTyped, open # <<>>
  PROVE  /\ [open EXCEPT ![Len(open)].status = s] \in Seq(Events)
         /\ [open EXCEPT ![Len(open)].status = s] # <<>>
         /\ Len([open EXCEPT ![Len(open)].status = s]) = Len(open)
         /\ SubSeq(open, 1, Len(open) - 1) \in Seq(Events)
         /\ Len(SubSeq(open, 1, Len(open) - 1)) <= Len(open)
         /\ Top.seen \in Payloads
<1>1. Len(open) \in Nat /\ open \in [1 .. Len(open) -> Events]
  BY LenProperties DEF AcceptedTyped
<1>2. Len(open) \in 1 .. Len(open)
  BY <1>1, EmptySeq DEF AcceptedTyped
<1>3. [open EXCEPT ![Len(open)].status = s] \in [1 .. Len(open) -> Events]
  BY <1>1, <1>2 DEF Events
<1>4. /\ [open EXCEPT ![Len(open)].status = s] \in Seq(Events)
      /\ Len([open EXCEPT ![Len(open)].status = s]) = Len(open)
  BY <1>1, <1>3
<1>5. \A i \in 1 .. Len(open) - 1 : open[i] \in Events
  BY <1>1
<1>6. /\ SubSeq(open, 1, Len(open) - 1) \in Seq(Events)
      /\ Len(SubSeq(open, 1, Len(open) - 1))
             = IF 1 <= Len(open) - 1 THEN Len(open) - 1 ELSE 0
  BY <1>1, <1>5, SubSeqProperties
<1>7. Top.seen \in Payloads
  BY <1>1, <1>2 DEF Top, Events
<1> QED BY <1>1, <1>2, <1>4, <1>6, <1>7, EmptySeq

LEMMA Evaluating ==
  ASSUME AcceptedTyped, NEW current \in Payloads, NEW verdict, Evaluate(current, verdict)
  PROVE  Evaluated(current, verdict)
<1> DEFINE base == Completed(accepted, current)
<1>1. /\ base.disk = IF accepted.disk = NoStructure THEN current.disk ELSE accepted.disk
      /\ base \in [source : {"none", "initial", "planned", "confirmed"},
                   hardware : Nat, disk : Structures]
  BY DEF Completed, AcceptedTyped, Payloads
<1>2. ASSUME NEW source \in {"initial", "planned"}
      PROVE  /\ Baseline(source, current) \in
                   [source : {"none", "initial", "planned", "confirmed"},
                    hardware : Nat, disk : Structures]
             /\ Baseline(source, current).disk = current.disk
  BY DEF Baseline, Payloads
<1> HIDE DEF base
<1>3. CASE accepted = NoBaseline
  <2>1. verdict = "initial" /\ accepted' = Baseline("initial", current) /\ UNCHANGED <<open, plan>>
    BY <1>3 DEF Evaluate
  <2>2. accepted.disk = NoStructure
    BY <1>3 DEF NoBaseline, Baseline, Unknown
  <2> QED BY <1>2, <2>1, <2>2 DEF Evaluated, AcceptedTyped
<1>4. CASE accepted # NoBaseline /\ ~Deviates(base, current)
  <2>1. /\ verdict = IF open = <<>> THEN "normal" ELSE "recovered_pending"
        /\ accepted' = base
        /\ open' = IF open = <<>> THEN open
                   ELSE [open EXCEPT ![Len(open)].status = "recovered_pending"]
        /\ UNCHANGED plan
    BY <1>4 DEF Evaluate, base
  <2>2. open' \in Seq(Events) /\ Len(open') <= MaxOpen /\ (open' = <<>> <=> open = <<>>)
    <3>1. CASE open = <<>>
      BY <2>1, <3>1 DEF AcceptedTyped
    <3>2. CASE open # <<>>
      BY <2>1, <3>2, TopChanged DEF AcceptedTyped, OpenStatuses
    <3> QED BY <3>1, <3>2
  <2>3. AcceptedTyped'
    BY <1>1, <2>1, <2>2 DEF AcceptedTyped
  <2>4. NoStructure \in {base.disk, current.disk} \/ base.disk = current.disk
    BY <1>4 DEF Deviates
  <2>5. verdict \in OpenStatuses \/ open = <<>>
    BY <2>1 DEF OpenStatuses
  <2> QED BY <1>1, <2>1, <2>2, <2>3, <2>4, <2>5 DEF Evaluated
<1>5. CASE accepted # NoBaseline /\ Deviates(base, current) /\ plan
  <2>1. /\ verdict = "planned"
        /\ accepted' = Baseline("planned", current)
        /\ open' = IF open = <<>> THEN open ELSE SubSeq(open, 1, Len(open) - 1)
        /\ plan' = FALSE
    BY <1>5 DEF Evaluate, base
  <2>2. open' \in Seq(Events) /\ Len(open') <= MaxOpen
    <3>1. CASE open = <<>>
      BY <2>1, <3>1 DEF AcceptedTyped
    <3>2. CASE open # <<>>
      <4>1. Len(open) \in Nat /\ Len(open') \in Nat /\ Len(open') <= Len(open) /\ open' \in Seq(Events)
        BY <2>1, <3>2, TopChanged, LenProperties DEF AcceptedTyped, OpenStatuses
      <4> QED BY <4>1, RunAssumption DEF AcceptedTyped
    <3> QED BY <3>1, <3>2
  <2> QED BY <1>2, <2>1, <2>2 DEF Evaluated, AcceptedTyped
<1>6. CASE accepted # NoBaseline /\ Deviates(base, current) /\ ~plan
  <2>1. /\ verdict = Reported(current)[Len(Reported(current))].status
        /\ Len(Reported(current)) <= MaxOpen
        /\ accepted' = base
        /\ open' = Reported(current)
        /\ UNCHANGED plan
    BY <1>6 DEF Evaluate, base
  <2>2. AcceptedTyped'
    BY <1>1, <2>1, ReportedTyped DEF AcceptedTyped
  <2> QED BY <1>1, <2>1, <2>2, ReportedTyped DEF Evaluated
<1> QED BY <1>3, <1>4, <1>5, <1>6

-----------------------------------------------------------------------------
(* The machine.                                                            *)

\* While nothing runs, only the clock and the machine move.
LEMMA IdleStep ==
  ASSUME IInv, At("idle"), UNCHANGED <<store, run, shown>>,
         MachineTyped', now' >= now, History'
  PROVE  IInv'
<1> USE DEF store, run
<1>1. now \in Nat /\ now' \in Nat
  BY Typed, RunAssumption DEF IInv, MachineTyped
<1>2. TypeOK'
  <2>1. SnapshotsTyped'
    <3>1. SnapshotsTyped
      BY Typed DEF IInv
    <3>2. \A r \in snapshots : r.at \in Nat
      BY <3>1 DEF SnapshotsTyped, Snapshots
    <3> QED BY <1>1, <3>1, <3>2 DEF SnapshotsTyped
  <2>2. HardwareTyped' /\ AcceptedTyped' /\ RunTyped'
    BY Typed DEF IInv, HardwareTyped, AcceptedTyped, RunTyped
  <2> QED BY <2>1, <2>2, Typed DEF TypeOK, MachineTyped, SnapshotsTyped, HardwareTyped,
                                   AcceptedTyped, RunTyped, Events
<1>3. Holding' /\ Covered'
  BY DEF IInv, Holding, Covered, At
<1>4. Phases'
  BY DEF IInv, Phases, Plus
<1>5. ~Audited'
  BY DEF Audited, At
<1>6. Outcome'
  BY <1>5 DEF Outcome, Missed, RealFaultsAreKept, RenameIsNoLoss, ReportedErrorIsNew
<1> QED BY <1>2, <1>3, <1>4, <1>6 DEF IInv

\* The facts a machine step starts from.
MachineFacts ==
    /\ now \in Nat /\ booted \in Nat /\ booted <= now /\ log \subseteq booted .. now
    /\ \A d \in Attached : d \in Disks
    /\ \A r \in snapshots : /\ r.at \in Nat /\ r.at <= now
                            /\ r.sample.uptime \in Nat /\ r.sample.devices \subseteq DeviceRows
                            /\ RealSample(r.sample) /\ Followed(r)

LEMMA FactsOfMachine == ASSUME IInv PROVE MachineFacts
<1>1. MachineTyped /\ SnapshotsTyped /\ History
  BY Typed DEF IInv
<1>2. \A r \in snapshots : r.sample \in Samples /\ r.at \in Nat /\ r.at <= now
  BY <1>1 DEF SnapshotsTyped, Snapshots
<1> QED BY <1>1, <1>2, RunAssumption DEF MachineFacts, MachineTyped, Attached, Samples, History

\* Counters that do not rise, and disks that keep their names or count from zero
\* again, leave what is followed as it is.
LEMMA StillFollowed ==
  ASSUME MachineFacts, UNCHANGED <<booted, log, snapshots>>,
         \A d \in Attached' :
            \/ disk'[d].errors = 0
            \/ d \in Attached /\ disk'[d].slot = disk[d].slot /\ disk'[d].errors = disk[d].errors
  PROVE  History'
<1> SUFFICES ASSUME NEW r \in snapshots PROVE RealSample(r.sample) /\ Followed(r)'
  BY DEF History
<1>1. RealSample(r.sample) /\ Followed(r) /\ r.sample.devices \subseteq DeviceRows
  BY DEF MachineFacts
<1>2. ASSUME NEW e \in r.sample.devices, NEW d \in Attached',
             e.name = DiskName(disk'[d].slot), e.ioerr < disk'[d].errors
      PROVE  \E t \in log : t >= r.at
  <2>1. e.ioerr \in Nat
    BY <1>1 DEF DeviceRows
  <2>2. disk'[d].errors # 0
    BY <1>2, <2>1
  <2> QED BY <1>1, <1>2, <2>2 DEF Followed
<1> QED BY <1>1, <1>2 DEF Followed

MachineChanges ==
    \/ \E d \in Disks : Vanish(d)
    \/ \E d \in Disks, slot \in Slots : Replug(d, slot)
    \/ Reboot
    \/ \E d \in Disks : Remount(d)
    \/ \E d \in Disks : MountAgain(d)
    \/ \E d \in Disks, size \in Sizes : Resize(d, size)
    \/ \E d \in Disks : DiskError(d)
    \/ RaidChanges
    \/ ListerChanges

LEMMA MachineSteps ==
  ASSUME IInv, MachineChanges
  PROVE  IInv'
<1>h. Happens
  BY DEF MachineChanges, Vanish, Replug, Reboot, Remount, MountAgain, Resize, DiskError,
         RaidChanges, ListerChanges
<1>0. /\ MachineTyped /\ MachineFacts
      /\ At("idle") /\ UNCHANGED <<now, store, run, shown>>
  BY <1>h, Typed, FactsOfMachine DEF IInv, Happens
<1>1. /\ events' \in 0 .. MaxEvents /\ UNCHANGED <<now, snapshots>>
      /\ now \in 0 .. MaxTime /\ now' >= now
  <2>1. events \in 0 .. MaxEvents /\ events < MaxEvents /\ events' = events + 1
    BY <1>h, <1>0 DEF MachineTyped, Happens
  <2> QED BY <1>0, <2>1, RunAssumption DEF MachineTyped, MachineFacts, store
<1> DEFINE DiskType == [slot : Slots \cup {Gone}, mounted : BOOLEAN, ro : BOOLEAN,
                        size : Sizes, errors : Nat]
           OneName(D, A) == \A c, d \in A : D[c].slot = D[d].slot => c = d
<1>2. disk \in [Disks -> DiskType] /\ OneName(disk, Attached)
  BY <1>0 DEF MachineTyped
<1>3. ASSUME UNCHANGED <<booted, log>>, disk' \in [Disks -> DiskType], OneName(disk', Attached'),
             raid' \in {"none", "active", "degraded"}, lister' \in {"lsblk", "partitions"},
             History'
      PROVE  IInv'
  <2>1. MachineTyped'
    BY <1>0, <1>1, <1>3 DEF MachineTyped
  <2> QED BY <1>0, <1>1, <1>3, <2>1, IdleStep
<1>4. raid \in {"none", "active", "degraded"} /\ lister \in {"lsblk", "partitions"}
  BY <1>0 DEF MachineTyped
<1>5. \A d \in Disks : d \in Attached <=> disk[d].slot # Gone
  BY DEF Attached
<1>6. \A d \in Disks : d \in Attached' <=> disk'[d].slot # Gone
  BY DEF Attached
<1>7. Attached' \subseteq Disks /\ Attached \subseteq Disks
  BY DEF Attached
<1>8. ASSUME NEW d \in Disks, Vanish(d) PROVE IInv'
  <2>1. disk' = [disk EXCEPT ![d].slot = Gone] /\ UNCHANGED <<raid, lister, booted, log>>
    BY <1>8 DEF Vanish
  <2>2. disk' \in [Disks -> DiskType]
    BY <1>2, <2>1
  <2>3. \A c \in Attached' : c \in Attached /\ disk'[c] = disk[c]
    BY <1>2, <1>5, <1>6, <1>7, <2>1
  <2>4. OneName(disk', Attached')
    BY <1>2, <2>3
  <2>5. History'
    BY <1>0, <1>1, <2>1, <2>3, StillFollowed
  <2> QED BY <1>3, <1>4, <2>1, <2>2, <2>4, <2>5
<1>9. ASSUME NEW d \in Disks, NEW slot \in Slots, Replug(d, slot) PROVE IInv'
  <2>1. /\ disk' = [disk EXCEPT ![d].slot = slot, ![d].errors = 0]
        /\ UNCHANGED <<raid, lister, booted, log>>
        /\ slot \notin Taken
    BY <1>9 DEF Replug
  <2>2. disk' \in [Disks -> DiskType]
    BY <1>2, <2>1
  <2>3. \A c \in Attached' : c # d => c \in Attached /\ disk'[c] = disk[c]
    BY <1>2, <1>5, <1>6, <1>7, <2>1
  <2>4. disk'[d].slot = slot /\ disk'[d].errors = 0
    BY <1>2, <2>1
  <2>5. \A c \in Attached : disk[c].slot # slot
    BY <2>1 DEF Taken
  <2>6. OneName(disk', Attached')
    BY <1>2, <2>3, <2>4, <2>5
  <2>7. History'
    BY <1>0, <1>1, <2>1, <2>3, <2>4, StillFollowed
  <2> QED BY <1>3, <1>4, <2>1, <2>2, <2>6, <2>7
<1>10. CASE Reboot
  <2>1. PICK name \in [Attached -> Slots] :
          /\ \A c, d \in Attached : name[c] = name[d] => c = d
          /\ disk' = [d \in Disks |-> IF d \in Attached
                 THEN [disk[d] EXCEPT !.slot = name[d], !.ro = FALSE, !.errors = 0]
                 ELSE disk[d]]
    BY <1>10 DEF Reboot
  <2>2. booted' = now /\ log' = {} /\ UNCHANGED <<raid, lister>>
    BY <1>10 DEF Reboot
  <2>8. \A c, d \in Attached : name[c] = name[d] => c = d
    BY <2>1
  <2>9. ASSUME NEW d \in Attached
        PROVE  disk'[d] \in DiskType /\ disk'[d].slot = name[d] /\ disk'[d].errors = 0
    <3>1. disk'[d] = [disk[d] EXCEPT !.slot = name[d], !.ro = FALSE, !.errors = 0]
      BY <1>7, <2>1
    <3>2. disk[d] \in DiskType /\ name[d] \in Slots
      BY <1>2, <1>7
    <3>3. disk'[d] = [slot |-> name[d], mounted |-> disk[d].mounted, ro |-> FALSE,
                      size |-> disk[d].size, errors |-> 0]
      BY <3>1, <3>2
    <3> QED BY <3>2, <3>3
  <2>10. \A d \in Disks : d \notin Attached => disk'[d] = disk[d]
    BY <2>1
  <2>3. disk' \in [Disks -> DiskType]
    <3>1. DOMAIN disk' = Disks /\ disk' = [d \in Disks |-> disk'[d]]
      BY <2>1
    <3>2. \A d \in Disks : disk'[d] \in DiskType
      BY <1>2, <2>9, <2>10
    <3> QED BY <3>1, <3>2
  <2>4. \A d \in Attached' : d \in Attached /\ disk'[d].slot = name[d] /\ disk'[d].errors = 0
    BY <1>5, <1>6, <1>7, <2>9, <2>10
  <2>5. OneName(disk', Attached')
    BY <2>4, <2>8
  <2>6. MachineTyped'
    BY <1>0, <1>1, <1>4, <2>2, <2>3, <2>5 DEF MachineTyped, MachineFacts
  <2>7. History'
    <3> SUFFICES ASSUME NEW r \in snapshots PROVE RealSample(r.sample) /\ Followed(r)'
      BY <1>1 DEF History
    <3>1. /\ RealSample(r.sample) /\ Followed(r) /\ r.sample.devices \subseteq DeviceRows
          /\ r.at \in Nat /\ r.sample.uptime \in Nat /\ r.at <= now
      BY <1>0 DEF MachineFacts
    <3>2. \A e \in r.sample.devices, d \in Attached' : ~(e.ioerr < disk'[d].errors)
      BY <2>4, <3>1 DEF DeviceRows
    <3>3. r.sample.uptime <= r.at /\ r.at - r.sample.uptime <= now /\ now \in Nat
      BY <1>0, <3>1 DEF Followed, MachineFacts
    <3> QED BY <2>2, <3>1, <3>2, <3>3 DEF Followed
  <2> QED BY <1>0, <1>1, <2>6, <2>7, IdleStep
<1>11. ASSUME NEW d \in Disks, NEW D, disk' = D, UNCHANGED <<booted, log, raid, lister>>,
              \A c \in Disks : D[c].slot = disk[c].slot /\ D[c].errors = disk[c].errors,
              D \in [Disks -> DiskType]
       PROVE  IInv'
  <2>1. Attached' = Attached
    BY <1>11 DEF Attached
  <2>2. OneName(disk', Attached')
    BY <1>2, <1>7, <1>11, <2>1
  <2>3. History'
    BY <1>0, <1>1, <1>7, <1>11, <2>1, StillFollowed
  <2> QED BY <1>3, <1>4, <1>11, <2>2, <2>3
<1>12. ASSUME NEW d \in Disks, Remount(d) PROVE IInv'
  <2>1. UNCHANGED <<raid, lister, booted, log>>
    BY <1>12 DEF Remount
  <2>2. CASE disk' = [disk EXCEPT ![d].ro = TRUE]
    <3> DEFINE D == [disk EXCEPT ![d].ro = TRUE]
    <3>1. D \in [Disks -> DiskType]
      BY <1>2
    <3>2. \A c \in Disks : D[c].slot = disk[c].slot /\ D[c].errors = disk[c].errors
      BY <1>2
    <3> HIDE DEF D
    <3> QED BY <1>11, <2>1, <2>2, <3>1, <3>2 DEF D
  <2>3. CASE disk' = [disk EXCEPT ![d].mounted = FALSE]
    <3> DEFINE D == [disk EXCEPT ![d].mounted = FALSE]
    <3>1. D \in [Disks -> DiskType]
      BY <1>2
    <3>2. \A c \in Disks : D[c].slot = disk[c].slot /\ D[c].errors = disk[c].errors
      BY <1>2
    <3> QED BY <1>11, <2>1, <2>3, <3>1, <3>2
  <2> QED BY <1>12, <2>2, <2>3 DEF Remount
<1>13. ASSUME NEW d \in Disks, MountAgain(d) PROVE IInv'
  <2>1. UNCHANGED <<raid, lister, booted, log>> /\ disk' = [disk EXCEPT ![d].mounted = TRUE]
    BY <1>13 DEF MountAgain
  <2> DEFINE D == [disk EXCEPT ![d].mounted = TRUE]
  <2>2. D \in [Disks -> DiskType]
    BY <1>2
  <2>3. \A c \in Disks : D[c].slot = disk[c].slot /\ D[c].errors = disk[c].errors
    BY <1>2
  <2> QED BY <1>11, <2>1, <2>2, <2>3
<1>14. ASSUME NEW d \in Disks, NEW size \in Sizes, Resize(d, size) PROVE IInv'
  <2>1. UNCHANGED <<raid, lister, booted, log>> /\ disk' = [disk EXCEPT ![d].size = size]
    BY <1>14 DEF Resize
  <2> DEFINE D == [disk EXCEPT ![d].size = size]
  <2>2. D \in [Disks -> DiskType]
    BY <1>2
  <2>3. \A c \in Disks : D[c].slot = disk[c].slot /\ D[c].errors = disk[c].errors
    BY <1>2
  <2> QED BY <1>11, <2>1, <2>2, <2>3
<1>15. ASSUME NEW d \in Disks, DiskError(d) PROVE IInv'
  <2>1. /\ disk' = [disk EXCEPT ![d].errors = @ + 1]
        /\ log' = log \cup {now}
        /\ UNCHANGED <<raid, lister, booted>>
    BY <1>15 DEF DiskError
  <2>2. disk' \in [Disks -> DiskType]
    BY <1>2, <2>1
  <2>3. \A c \in Disks : disk'[c].slot = disk[c].slot /\ (c # d => disk'[c] = disk[c])
    BY <1>2, <2>1
  <2>4. Attached' = Attached
    BY <1>5, <1>6, <1>7, <2>3
  <2>5. OneName(disk', Attached')
    BY <1>2, <1>7, <2>3, <2>4
  <2>6. MachineTyped'
    BY <1>0, <1>1, <1>4, <2>1, <2>2, <2>5 DEF MachineTyped, MachineFacts
  <2>7. History'
    <3> SUFFICES ASSUME NEW r \in snapshots PROVE RealSample(r.sample) /\ Followed(r)'
      BY <1>1 DEF History
    <3>1. RealSample(r.sample) /\ Followed(r) /\ r.at \in Nat /\ r.at <= now /\ now \in Nat
      BY <1>0 DEF MachineFacts
    <3>2. \E t \in log' : t >= r.at
      BY <2>1, <3>1
    <3>3. \A t \in log' : t < r.at => t \in log
      BY <2>1, <3>1
    <3> QED BY <2>1, <3>1, <3>2, <3>3 DEF Followed
  <2> QED BY <1>0, <1>1, <2>6, <2>7, IdleStep
<1>16. CASE RaidChanges \/ ListerChanges
  <2>1. /\ UNCHANGED <<disk, booted, log>>
        /\ raid' \in {"none", "active", "degraded"} /\ lister' \in {"lsblk", "partitions"}
    BY <1>4, <1>16 DEF RaidChanges, ListerChanges
  <2>2. Attached' = Attached
    BY <2>1 DEF Attached
  <2>3. History'
    BY <1>0, <1>1, <2>1, <2>2, StillFollowed
  <2> QED BY <1>2, <1>3, <2>1, <2>2, <2>3
<1> QED BY <1>8, <1>9, <1>10, <1>12, <1>13, <1>14, <1>15, <1>16 DEF MachineChanges

-----------------------------------------------------------------------------
(* The configuration.                                                      *)

LEMMA SameHistory ==
  ASSUME IInv, UNCHANGED <<machine, snapshots>>
  PROVE  History'
BY DEF IInv, History, Followed, Attached, machine

\* Sample is as it was when the machine is.
LEMMA SameSample ==
  ASSUME UNCHANGED <<now, machine>>
  PROVE  Sample' = Sample
BY DEF Sample, Attached, machine

LEMMA StructureStored ==
  ASSUME IInv
  PROVE  StoredStructure \in Structures
<1>1. SnapshotsTyped /\ MachineTyped /\ History
  BY Typed DEF IInv
<1>2. CASE snapshots = {}
  BY <1>2 DEF StoredStructure, NoStructure, Structures
<1>3. CASE snapshots # {}
  <2>1. snapshots \in SUBSET Snapshots /\ now \in Nat /\ \A r \in snapshots : r.at <= now
    BY <1>1, RunAssumption DEF SnapshotsTyped, MachineTyped
  <2>2. \E r \in snapshots : \A s \in snapshots : s.at <= r.at
    BY <1>3, <2>1, NewestExists DEF NewestRow
  <2> DEFINE newest == CHOOSE r \in snapshots : \A s \in snapshots : s.at <= r.at
  <2>3. newest \in snapshots
    BY <2>2
  <2>4. StoredStructure = Structure(newest.sample)
    BY <1>3 DEF StoredStructure
  <2> HIDE DEF newest
  <2>5. newest.sample \in Samples /\ RealSample(newest.sample)
    BY <1>1, <2>1, <2>3 DEF History, Snapshots
  <2> QED BY <2>4, <2>5, StructureKnown
<1> QED BY <1>2, <1>3

LEMMA AttachedCounted ==
  Cardinality(Disks) \in Nat /\ Cardinality(Attached) \in 0 .. Cardinality(Disks)
<1>1. IsFiniteSet(Disks) /\ Attached \in SUBSET Disks
  BY RunAssumption DEF Attached
<1> QED BY <1>1, FS_Subset, FS_CardinalityType

\* A hardware record is evaluated with the structure that is stored.
LEMMA Recording ==
  ASSUME IInv, NEW value \in {0, Cardinality(Attached)}, RecordHardware(value)
  PROVE  HardwareTyped' /\ AcceptedTyped' /\ Covered' /\ UNCHANGED snapshots
<1> DEFINE current == [hardware |-> Merged(value), disk |-> StoredStructure]
<1>1. HardwareTyped /\ AcceptedTyped /\ Covered
  BY Typed DEF IInv
<1>2. Merged(value) \in 0 .. Cardinality(Disks)
  BY <1>1, AttachedCounted DEF Merged, HardwareTyped
<1>3. HardwareTyped' /\ UNCHANGED snapshots
  BY <1>2 DEF RecordHardware, HardwareTyped
<1>4. CASE current = Unknown
  BY <1>1, <1>3, <1>4 DEF RecordHardware, AcceptedTyped, Covered
<1>5. CASE current # Unknown
  <2>1. PICK verdict \in Verdicts :
           /\ Evaluate(current, verdict)
           /\ shown' = IF Decided(verdict) THEN {} ELSE shown
    BY <1>5 DEF RecordHardware
  <2>2. current \in Payloads
    BY <1>2, AttachedCounted, StructureStored DEF Payloads
  <2> HIDE DEF current
  <2>3. Evaluated(current, verdict)
    BY <1>1, <2>1, <2>2, Evaluating
  <2>4. Covered'
    BY <1>1, <2>1, <2>3 DEF Evaluated, Covered, Decided
  <2> QED BY <1>3, <2>3, <2>4 DEF Evaluated
<1> QED BY <1>4, <1>5

\* Between runs the configuration may change.
LEMMA StoreStep ==
  ASSUME IInv, At("idle"), UNCHANGED <<now, machine, events, snapshots, run>>,
         HardwareTyped', AcceptedTyped', Covered'
  PROVE  IInv'
<1> USE DEF machine, run
<1>1. MachineTyped' /\ SnapshotsTyped' /\ RunTyped'
  BY Typed DEF IInv, MachineTyped, SnapshotsTyped, RunTyped, Attached
<1>2. TypeOK'
  BY <1>1 DEF TypeOK, MachineTyped, SnapshotsTyped, HardwareTyped, AcceptedTyped, RunTyped, Events
<1>3. History'
  BY SameHistory
<1>4. Holding' /\ Phases' /\ ~Audited'
  BY DEF IInv, Holding, Phases, Plus, Audited, At
<1>5. Outcome'
  BY <1>4 DEF Outcome, Missed, RealFaultsAreKept, RenameIsNoLoss, ReportedErrorIsNew
<1> QED BY <1>2, <1>3, <1>4, <1>5 DEF IInv

LEMMA Deciding ==
  ASSUME IInv, NEW decision \in {"normal", "abnormal", "resolved"}, Decide(decision)
  PROVE  IInv'
<1>1. AcceptedTyped /\ HardwareTyped /\ Covered /\ open # <<>>
  BY Typed DEF IInv, Decide
<1>2. /\ open' = IF decision = "abnormal"
                 THEN [open EXCEPT ![Len(open)].status = "confirmed_abnormal"]
                 ELSE SubSeq(open, 1, Len(open) - 1)
      /\ accepted' = IF decision = "normal" THEN Baseline("confirmed", Top.seen) ELSE accepted
      /\ shown' = IF decision = "abnormal" THEN shown ELSE {}
      /\ At("idle") /\ UNCHANGED <<now, machine, events, snapshots, hardware, plan, run>>
  BY DEF Decide
<1>3. "confirmed_abnormal" \in OpenStatuses
  BY DEF OpenStatuses
<1>4. accepted' \in [source : {"none", "initial", "planned", "confirmed"},
                     hardware : Nat, disk : Structures]
  BY <1>1, <1>2, <1>3, TopChanged DEF AcceptedTyped, Baseline, Payloads
<1>5. open' \in Seq(Events) /\ Len(open') <= Len(open) /\ (decision = "abnormal" => open' # <<>>)
  <2>1. Len(open) \in Nat
    BY <1>1, LenProperties DEF AcceptedTyped
  <2> QED BY <1>1, <1>2, <1>3, <2>1, TopChanged
<1>6. Len(open') <= MaxOpen
  <2>1. Len(open) \in Nat /\ Len(open') \in Nat
    BY <1>1, <1>5, LenProperties DEF AcceptedTyped
  <2> QED BY <1>1, <1>5, <2>1, RunAssumption DEF AcceptedTyped
<1>7. AcceptedTyped' /\ HardwareTyped'
  BY <1>1, <1>2, <1>4, <1>5, <1>6 DEF AcceptedTyped, HardwareTyped
<1>8. Covered'
  BY <1>1, <1>2, <1>5 DEF Covered
<1> QED BY <1>2, <1>7, <1>8, StoreStep

LEMMA ConfigurationSteps ==
  ASSUME IInv, \/ Tick \/ RegisterPlan \/ MonitorRefresh
               \/ \E decision \in {"normal", "abnormal", "resolved"} : Decide(decision)
  PROVE  IInv'
<1>1. CASE Tick
  <2>1. At("idle") /\ now' = now + 1 /\ UNCHANGED <<machine, events, store, run, shown>>
    BY <1>1 DEF Tick
  <2>2. MachineTyped /\ now < MaxTime
    BY <1>1, Typed DEF IInv, Tick
  <2>3. MachineTyped'
    BY <2>1, <2>2, RunAssumption DEF MachineTyped, machine, Attached
  <2>4. History'
    BY <2>1, SameHistory DEF store
  <2>5. now' >= now
    BY <2>1, <2>2, RunAssumption DEF MachineTyped
  <2> QED BY <2>1, <2>3, <2>4, <2>5, IdleStep
<1>2. CASE RegisterPlan
  <2>1. /\ At("idle") /\ plan' = TRUE
        /\ UNCHANGED <<now, machine, events, snapshots, hardware, accepted, open, run, shown>>
    BY <1>2 DEF RegisterPlan
  <2>2. AcceptedTyped' /\ HardwareTyped' /\ Covered'
    BY <2>1, Typed DEF IInv, AcceptedTyped, HardwareTyped, Covered
  <2> QED BY <2>1, <2>2, StoreStep
<1>3. CASE MonitorRefresh
  <2>1. PICK value \in {0, Cardinality(Attached)} : RecordHardware(value)
    BY <1>3 DEF MonitorRefresh
  <2>2. At("idle") /\ UNCHANGED <<now, machine, events, run>>
    BY <1>3 DEF MonitorRefresh
  <2> QED BY <2>1, <2>2, Recording, StoreStep
<1> QED BY <1>1, <1>2, <1>3, Deciding

-----------------------------------------------------------------------------
(* The run.                                                                *)

\* After the audit the run keeps what it found.
LEMMA Settled ==
  ASSUME Outcome, UNCHANGED shown, Audited' => Audited,
         worker'.sample = worker.sample, worker'.at = worker.at, worker'.base = worker.base,
         worker'.found = worker.found, worker.kept \subseteq worker'.kept,
         worker.resource => worker'.resource
  PROVE  Outcome'
<1>1. CASE ~Audited'
  BY <1>1 DEF Outcome, Missed, RealFaultsAreKept, RenameIsNoLoss, ReportedErrorIsNew
<1>2. CASE Audited'
  <2>1. Missed'
    BY <1>2 DEF Outcome, Missed
  <2>2. RealFaultsAreKept'
    BY <1>2 DEF Outcome, RealFaultsAreKept
  <2>3. RenameIsNoLoss'
    BY <1>2 DEF Outcome, RenameIsNoLoss
  <2>4. ReportedErrorIsNew'
    BY <1>2 DEF Outcome, ReportedErrorIsNew
  <2> QED BY <2>1, <2>2, <2>3, <2>4 DEF Outcome
<1> QED BY <1>1, <1>2

\* Steps of the run that leave machine and tables alone.
LEMMA RunStep ==
  ASSUME IInv, UNCHANGED <<now, machine, events, store, shown>>,
         RunTyped', Holding', Phases', Outcome'
  PROVE  IInv'
<1> USE DEF machine, store
<1>1. MachineTyped' /\ SnapshotsTyped' /\ HardwareTyped' /\ AcceptedTyped'
  BY Typed DEF IInv, MachineTyped, SnapshotsTyped, HardwareTyped, AcceptedTyped, Attached
<1>2. TypeOK'
  BY <1>1 DEF TypeOK, MachineTyped, SnapshotsTyped, HardwareTyped, AcceptedTyped, RunTyped, Events
<1>3. History'
  BY SameHistory
<1>4. Covered'
  BY DEF IInv, Covered
<1> QED BY <1>2, <1>3, <1>4 DEF IInv

\* Steps that save or evaluate as well.
LEMMA SavingStep ==
  ASSUME IInv, UNCHANGED <<now, machine, events>>, SnapshotsTyped', HardwareTyped',
         AcceptedTyped', RunTyped', History', Holding', Phases', Covered', Outcome'
  PROVE  IInv'
<1>1. MachineTyped'
  BY Typed DEF IInv, MachineTyped, Attached, machine
<1>2. TypeOK'
  BY <1>1 DEF TypeOK, MachineTyped, SnapshotsTyped, HardwareTyped, AcceptedTyped, RunTyped, Events
<1> QED BY <1>2 DEF IInv

LEMMA RunFacts ==
  ASSUME IInv
  PROVE  /\ RunTyped /\ SnapshotsTyped /\ HardwareTyped /\ AcceptedTyped /\ MachineTyped
         /\ worker \in Workers
         /\ NoRows \in [good : 0 .. 1, bad : 0 .. 2] /\ IdleWorker \in Workers
         /\ IdleWorker.sample = NoSample /\ IdleWorker.pc = "idle" /\ IdleWorker.faulted = {}
<1>1. /\ RunTyped /\ SnapshotsTyped /\ HardwareTyped /\ AcceptedTyped /\ MachineTyped
      /\ worker \in Workers
  BY Typed DEF IInv, RunTyped
<1>2. NoRows \in [good : 0 .. 1, bad : 0 .. 2]
  BY DEF NoRows
<1>3. IdleWorker \in Workers
  BY DEF IdleWorker, Workers, Places
<1> QED BY <1>1, <1>2, <1>3 DEF IdleWorker

LEMMA FaultCounted ==
  ASSUME IInv, Raises
  PROVE  faults' \in 0 .. MaxFaults
BY RunFacts, RunAssumption DEF Raises, RunTyped

LEMMA Starting ==
  ASSUME IInv, StartRun \/ FinishRun
  PROVE  IInv'
<1>1. /\ UNCHANGED <<now, machine, events, store, faults, shown>>
      /\ rows' = NoRows /\ results' = NoRows
      /\ worker' \in {IdleWorker, [IdleWorker EXCEPT !.pc = "connecting"]}
  BY DEF StartRun, FinishRun
<1>2. /\ worker' \in Workers /\ worker'.pc \in {"idle", "connecting"}
      /\ worker'.sample = NoSample /\ worker'.faulted = {}
  BY <1>1, RunFacts DEF Workers, Places
<1>3. RunTyped'
  BY <1>1, <1>2, RunFacts DEF RunTyped
<1>4. Holding' /\ Phases'
  BY <1>1, <1>2 DEF Holding, Phases
<1>5. ~Audited'
  BY <1>2 DEF Audited
<1>6. Outcome'
  BY <1>5 DEF Outcome, Missed, RealFaultsAreKept, RenameIsNoLoss, ReportedErrorIsNew
<1> QED BY <1>1, <1>3, <1>4, <1>6, RunStep

LEMMA Connecting ==
  ASSUME IInv, Connect
  PROVE  IInv'
<1>1. /\ At("connecting") /\ UNCHANGED <<now, machine, events, store, rows, results, faults, shown>>
      /\ worker' \in {[worker EXCEPT !.pc = "hardware", !.sample = Sample, !.at = now],
                      [worker EXCEPT !.pc = "hardware"],
                      [worker EXCEPT !.pc = "adding", !.reachable = FALSE]}
  BY DEF Connect
<1>2. now \in Nat /\ Sample \in Samples /\ Sample' = Sample
  BY <1>1, RunFacts, SampleTyped, SameSample, RunAssumption DEF MachineTyped
<1>3. worker.sample = NoSample
  BY <1>1 DEF IInv, Holding, At
<1>4. /\ worker' \in Workers /\ worker'.pc \in {"hardware", "adding"}
      /\ worker'.faulted = worker.faulted
      /\ worker'.sample = NoSample \/ (worker'.sample = Sample /\ worker'.at = now)
      /\ worker'.pc = "adding" => worker'.sample = NoSample
  <2>1. CASE worker' = [worker EXCEPT !.pc = "hardware", !.sample = Sample, !.at = now]
    BY <1>2, <2>1, RunFacts DEF Workers, Places
  <2>2. CASE worker' = [worker EXCEPT !.pc = "hardware"]
    BY <1>3, <2>2, RunFacts DEF Workers, Places
  <2>3. CASE worker' = [worker EXCEPT !.pc = "adding", !.reachable = FALSE]
    BY <1>3, <2>3, RunFacts DEF Workers, Places
  <2> QED BY <1>1, <2>1, <2>2, <2>3
<1>5. RunTyped'
  BY <1>1, <1>4, RunFacts DEF RunTyped
<1>6. Holding'
  BY <1>1, <1>2, <1>4 DEF Holding
<1>7. Phases'
  BY <1>1, <1>4 DEF IInv, Phases, Before, At
<1>8. ~Audited'
  BY <1>4 DEF Audited
<1>9. Outcome'
  BY <1>8 DEF Outcome, Missed, RealFaultsAreKept, RenameIsNoLoss, ReportedErrorIsNew
<1> QED BY <1>1, <1>5, <1>6, <1>7, <1>9, RunStep

LEMMA Refreshing ==
  ASSUME IInv, RefreshHardware
  PROVE  IInv'
<1>1. /\ At("hardware") /\ UNCHANGED <<now, machine, events, rows, results>>
      /\ worker' \in {[worker EXCEPT !.pc = "auditing"],
                      [worker EXCEPT !.pc = "auditing", !.faulted = @ \cup {"hardware"}]}
  BY DEF RefreshHardware, Goto
<1>2. /\ worker' \in Workers /\ worker'.pc = "auditing"
      /\ worker'.sample = worker.sample /\ worker'.at = worker.at
      /\ worker'.faulted \subseteq worker.faulted \cup {"hardware"}
  <2>1. CASE worker' = [worker EXCEPT !.pc = "auditing"]
    BY <2>1, RunFacts DEF Workers, Places
  <2>2. CASE worker' = [worker EXCEPT !.pc = "auditing", !.faulted = @ \cup {"hardware"}]
    BY <2>2, RunFacts DEF Workers, Places
  <2> QED BY <1>1, <2>1, <2>2
<1>3. faults' \in 0 .. MaxFaults
  BY FaultCounted, RunFacts DEF RefreshHardware, RunTyped
<1>4. HardwareTyped' /\ AcceptedTyped' /\ Covered' /\ UNCHANGED snapshots
  <2>1. CASE \E value \in {0, Cardinality(Attached)} : RecordHardware(value)
    BY <2>1, Recording
  <2>2. CASE HardwareNotRecorded
    BY <2>2, RunFacts, AttachedCounted
       DEF HardwareNotRecorded, HardwareTyped, AcceptedTyped, IInv, Covered
  <2> QED BY <2>1, <2>2 DEF RefreshHardware
<1>5. SnapshotsTyped'
  BY <1>1, <1>4, RunFacts DEF SnapshotsTyped
<1>6. RunTyped'
  BY <1>1, <1>2, <1>3, RunFacts DEF RunTyped
<1>7. Holding'
  BY <1>1, <1>2, SameSample DEF IInv, Holding, At
<1>8. Phases'
  BY <1>1, <1>2 DEF IInv, Phases, Before, Tolerated, At
<1>9. ~Audited'
  BY <1>2 DEF Audited
<1>10. Outcome'
  BY <1>9 DEF Outcome, Missed, RealFaultsAreKept, RenameIsNoLoss, ReportedErrorIsNew
<1>11. History'
  BY <1>1, <1>4, SameHistory
<1> QED BY <1>1, <1>4, <1>5, <1>6, <1>7, <1>8, <1>10, <1>11, SavingStep

\* No audit: nothing was collected, or it raised.
LEMMA NotAuditing ==
  ASSUME IInv, AuditNothing \/ AuditRaises
  PROVE  IInv'
<1>1. At("auditing") /\ UNCHANGED <<now, machine, events, store, rows, results, shown>>
  BY DEF AuditNothing, AuditRaises
<1>2. \/ /\ worker.sample = NoSample
         /\ worker' = [worker EXCEPT !.pc = "attaching", !.found = Remark, !.kept = Remark]
      \/ worker' = [worker EXCEPT !.pc = "attaching", !.faulted = @ \cup {"auditing"},
                                  !.found = Remark, !.kept = Remark]
  BY DEF AuditNothing, AuditRaises
<1>3. /\ worker' \in Workers /\ worker'.pc = "attaching"
      /\ worker'.faulted \subseteq worker.faulted \cup {"auditing"}
      /\ worker'.sample = NoSample \/ "auditing" \in worker'.faulted
  <2>1. CASE /\ worker.sample = NoSample
             /\ worker' = [worker EXCEPT !.pc = "attaching", !.found = Remark, !.kept = Remark]
    BY <2>1, RunFacts, RemarkTyped DEF Workers, Places
  <2>2. CASE worker' = [worker EXCEPT !.pc = "attaching", !.faulted = @ \cup {"auditing"},
                                      !.found = Remark, !.kept = Remark]
    BY <2>2, RunFacts, RemarkTyped DEF Workers, Places
  <2> QED BY <1>2, <2>1, <2>2
<1>4. faults' \in 0 .. MaxFaults
  BY FaultCounted, RunFacts DEF AuditNothing, AuditRaises, RunTyped
<1>5. RunTyped'
  BY <1>1, <1>3, <1>4, RunFacts DEF RunTyped
<1>6. Holding'
  BY <1>3 DEF Holding
<1>7. Phases'
  BY <1>1, <1>3 DEF IInv, Phases, Before, Tolerated, At
<1>8. ~Audited'
  BY <1>3 DEF Audited
<1>9. Outcome'
  BY <1>8 DEF Outcome, Missed, RealFaultsAreKept, RenameIsNoLoss, ReportedErrorIsNew
<1> QED BY <1>1, <1>5, <1>6, <1>7, <1>9, RunStep

\* Which check an error in the report comes from.
LEMMA ErrorsFrom ==
  ASSUME NEW prev, NEW rec, NEW cur, NEW f \in CompareWith(prev, rec, cur)
  PROVE  /\ f.category = "kernel" => f \in CheckKernel(rec, cur)
         /\ f.category = "io" => f \in CheckCounters(rec, cur)
<1>1. ASSUME f \in CheckMounts(prev, cur) PROVE f.category \notin {"kernel", "io"}
  <2>1. \E k \in {"missing", "unmounted", "readonly"}, n \in {<<m.point, "mount">> :
           m \in prev.mounts \cup cur.mounts} : f = Finding("severe", k, n)
    BY <1>1 DEF CheckMounts
  <2> QED BY <2>1, NamesOfFinding
<1>2. ASSUME f \in CheckDevices(prev, cur) PROVE f.category \notin {"kernel", "io"}
  BY <1>2, NamesOfFinding DEF CheckDevices
<1>3. ASSUME f \in CheckRaid(prev, cur) PROVE f.category \notin {"kernel", "io"}
  BY <1>3, NamesOfFinding DEF CheckRaid
<1>4. ASSUME f \in CheckAdditions(prev, cur) PROVE f.category \notin {"kernel", "io"}
  <2>1. \/ \E m \in cur.mounts : f = Finding("info", "change", <<m.point, "mount">>)
        \/ \E e \in cur.devices : f = Finding("info", "change", e.name)
    BY <1>4 DEF CheckAdditions
  <2>2. ASSUME NEW m \in cur.mounts, f = Finding("info", "change", <<m.point, "mount">>)
        PROVE  f.category = "change"
    BY <2>2, NamesOfFinding
  <2>3. ASSUME NEW e \in cur.devices, f = Finding("info", "change", e.name)
        PROVE  f.category = "change"
    BY <2>3, NamesOfFinding
  <2> QED BY <2>1, <2>2, <2>3
<1>5. ASSUME f \in CheckCounters(rec, cur) PROVE f.category = "io"
  BY <1>5, NamesOfFinding DEF CheckCounters
<1>6. ASSUME f \in CheckKernel(rec, cur) PROVE f.category = "kernel"
  <2>1. PICK l \in NewLines(rec, cur) : f = Finding("warn", "kernel", <<l, "line">>)
    BY <1>6 DEF CheckKernel
  <2> QED BY <2>1, NamesOfFinding
<1> QED BY <1>1, <1>2, <1>3, <1>4, <1>5, <1>6 DEF CompareWith

\* The rows the audit compares with are those of its window, all of the past.
LEMMA WindowOfAudit ==
  ASSUME IInv
  PROVE  /\ snapshots \in SUBSET Snapshots /\ now \in Nat /\ \A r \in snapshots : r.at <= now
         /\ \A r \in Window(snapshots, now) :
               /\ r \in snapshots /\ r \in Snapshots /\ r.at \in Nat /\ r.at <= now
               /\ r.sample \in Samples /\ RealSample(r.sample) /\ Followed(r)
<1>1. SnapshotsTyped /\ MachineTyped /\ History
  BY Typed DEF IInv
<1>2. snapshots \in SUBSET Snapshots /\ now \in Nat /\ \A r \in snapshots : r.at <= now
  BY <1>1, RunAssumption DEF SnapshotsTyped, MachineTyped
<1>3. \A r \in snapshots : r.at \in Nat /\ r.sample \in Samples
  BY <1>2 DEF Snapshots
<1> QED BY <1>1, <1>2, <1>3, Baselines DEF History

\* Errors the comparison reports, relative to the newest row of its window.
LEMMA ErrorsReported ==
  ASSUME IInv, NEW f \in CompareDisk(snapshots, now, Sample),
         NEW r \in NewestRow(Window(snapshots, now))
  PROVE  /\ f.category = "kernel" => booted + f.subject[1] >= r.at
         /\ f.category = "io" => \E t \in log : t >= r.at
<1>1. CASE f \in Remark
  BY <1>1, NamesOfFinding DEF Remark
<1>2. CASE f \notin Remark
  <2>1. PICK p \in Basis(snapshots, now), q \in PrevRecent(snapshots, now) :
           f \in CompareWith(p.sample, q.sample, Sample)
    BY <1>2, Compared
  <2>2. q \in NewestRow(Window(snapshots, now))
    BY WindowOfAudit, Baselines
  <2>3. q \in Window(snapshots, now) /\ r \in Window(snapshots, now) /\ q.at <= r.at /\ r.at <= q.at
    BY <2>2 DEF NewestRow
  <2>4. q \in Snapshots /\ RealSample(q.sample) /\ Followed(q) /\ q.at <= now /\ q.at = r.at
    BY <2>3, WindowOfAudit
  <2>5. /\ \A g \in CheckKernel(q.sample, Sample) : booted + g.subject[1] >= r.at
        /\ CheckCounters(q.sample, Sample) # {} => \E t \in log : t >= r.at
    BY <2>4, RunFacts, NewErrors
  <2> QED BY <2>1, <2>5, ErrorsFrom
<1> QED BY <1>1, <1>2

\* Renamed disks are not lost in the comparison.
LEMMA RenamesCompared ==
  ASSUME IInv, NEW f \in CompareDisk(snapshots, now, Sample),
         \A r \in Window(snapshots, now) : SameDisks(r.sample, Sample)
  PROVE  f.category # "lost" /\ (f.category = "change" => f.subject[2] # "disk")
<1>1. CASE f \in Remark
  BY <1>1, NamesOfFinding DEF Remark
<1>2. CASE f \notin Remark
  <2>1. PICK p \in Basis(snapshots, now), q \in PrevRecent(snapshots, now) :
           f \in CompareWith(p.sample, q.sample, Sample)
    BY <1>2, Compared
  <2>2. p \in Window(snapshots, now)
    BY WindowOfAudit, Baselines
  <2>3. p.sample \in Samples /\ RealSample(p.sample) /\ SameDisks(p.sample, Sample)
    BY <2>2, WindowOfAudit
  <2> QED BY <2>1, <2>3, NothingLost, SampleTyped, RunFacts
<1> QED BY <1>1, <1>2

LEMMA Auditing ==
  ASSUME IInv, Audit
  PROVE  IInv'
<1> DEFINE found == CompareDisk(snapshots, now, worker.sample)
           current == [hardware |-> hardware, disk |-> Structure(worker.sample)]
<1>1. /\ At("auditing") /\ worker.sample # NoSample
      /\ UNCHANGED <<now, machine, events, snapshots, hardware, rows, results, faults>>
  BY DEF Audit
<1>2. PICK verdict \in Verdicts :
         /\ Evaluate(current, verdict)
         /\ worker' = [worker EXCEPT !.pc = "saving", !.found = found,
                !.base = Window(snapshots, now),
                !.kept = Filtered(found, verdict),
                !.resource = verdict \in OpenStatuses]
         /\ shown' = Points(worker.sample) \cup IF Decided(verdict) THEN {} ELSE shown
  BY DEF Audit
<1>3. worker.sample = Sample /\ worker.at = now
  BY <1>1 DEF IInv, Holding, At
<1>4. Sample \in Samples /\ RealSample(Sample) /\ Sample' = Sample
  BY <1>1, RunFacts, SampleTyped, SameSample
<1>5. found \in SUBSET Findings /\ Filtered(found, verdict) \in SUBSET Findings
  BY <1>3, <1>4, WindowOfAudit, ComparisonTyped, FilteredTyped
<1>6. Window(snapshots, now) \in SUBSET Snapshots
  BY WindowOfAudit
<1>7. current \in Payloads /\ current.disk # NoStructure /\ current.disk.mounts = Points(worker.sample)
  BY <1>3, <1>4, StructureKnown, RunFacts, AttachedCounted DEF HardwareTyped, Payloads
<1> HIDE DEF found, current
<1>8. /\ worker' \in Workers /\ worker'.pc = "saving"
      /\ worker'.sample = Sample /\ worker'.at = now /\ worker'.faulted = worker.faulted
      /\ worker'.found = found /\ worker'.base = Window(snapshots, now)
      /\ worker'.kept = Filtered(found, verdict)
      /\ worker'.resource = (verdict \in OpenStatuses)
  <2> DEFINE res == verdict \in OpenStatuses
             b == Window(snapshots, now)
             k == Filtered(found, verdict)
  <2>1. worker' = [worker EXCEPT !.pc = "saving", !.found = found, !.base = b, !.kept = k,
                                 !.resource = res]
    BY <1>2
  <2>2. res \in BOOLEAN /\ b \in SUBSET Snapshots /\ k \in SUBSET Findings
    BY <1>5, <1>6
  <2> HIDE DEF res, b, k
  <2>3. /\ worker' \in Workers /\ worker'.pc = "saving"
        /\ worker'.found = found /\ worker'.base = b
        /\ worker'.kept = k /\ worker'.resource = res
        /\ worker'.sample = worker.sample /\ worker'.at = worker.at
        /\ worker'.faulted = worker.faulted
    <3>1. /\ worker.at \in Nat /\ worker.sample \in Samples \cup {NoSample}
          /\ worker.reachable \in BOOLEAN /\ worker.faulted \in SUBSET Places
      BY RunFacts DEF Workers
    <3>2. worker' = [pc |-> "saving", at |-> worker.at, sample |-> worker.sample,
                     reachable |-> worker.reachable, base |-> b, found |-> found, kept |-> k,
                     resource |-> res, faulted |-> worker.faulted]
      BY <2>1, RunFacts DEF Workers
    <3> QED BY <1>5, <2>2, <3>1, <3>2 DEF Workers, Places
  <2> QED BY <1>3, <2>3 DEF res, b, k
<1>9. Evaluated(current, verdict)
  BY <1>2, <1>7, RunFacts, Evaluating
<1>10. HardwareTyped' /\ SnapshotsTyped' /\ AcceptedTyped' /\ RunTyped'
  BY <1>1, <1>8, <1>9, RunFacts DEF HardwareTyped, SnapshotsTyped, RunTyped, Evaluated
<1>11. History'
  BY <1>1, SameHistory
<1>12. Holding'
  BY <1>1, <1>3, <1>4, <1>8 DEF Holding
<1>13. Phases'
  BY <1>1, <1>8 DEF IInv, Phases, Before, At
<1>14. Covered'
  <2>1. CASE verdict = "planned"
    BY <1>2, <1>7, <1>9, <2>1 DEF Evaluated, Covered, Decided
  <2>2. CASE verdict # "planned"
    BY <1>2, <1>7, <1>9, <2>2 DEF IInv, Evaluated, Covered, Decided
  <2> QED BY <2>1, <2>2
<1>15. Missed'
  <2> SUFFICES ASSUME shown' \ Points(worker'.sample) # {} PROVE worker'.resource
    BY DEF Missed
  <2>1. verdict # "planned" /\ shown \ Points(worker.sample) # {}
    BY <1>2, <1>3, <1>8 DEF Decided
  <2>2. shown # {} /\ accepted.disk # NoStructure
    BY <2>1 DEF IInv, Covered
  <2>3. ASSUME verdict \notin OpenStatuses PROVE FALSE
    <3>1. open = <<>> /\ current.disk = accepted.disk
      BY <1>7, <1>9, <2>1, <2>2, <2>3 DEF Evaluated
    <3>2. shown \subseteq Points(worker.sample)
      BY <1>7, <2>2, <3>1 DEF IInv, Covered
    <3> QED BY <2>1, <3>2
  <2> QED BY <1>8, <2>3
<1>16. RealFaultsAreKept'
  <2> SUFFICES ASSUME worker'.base # {}
               PROVE  /\ Sample.raid = "degraded"
                            => Finding("severe", "raid", Nobody) \in worker'.kept
                      /\ \A m \in Sample.mounts :
                            /\ m.ro
                            /\ \A r \in worker'.base :
                                  \E o \in r.sample.mounts : o.point = m.point /\ ~o.ro
                            => Finding("severe", "readonly", <<m.point, "mount">>) \in worker'.kept
    BY <1>8 DEF RealFaultsAreKept
  <2>1. Window(snapshots, now) # {}
    BY <1>8
  <2>2. /\ Sample.raid = "degraded"
               => Finding("severe", "raid", Nobody) \in Filtered(found, verdict)
        /\ \A m \in Sample.mounts :
               /\ m.ro
               /\ \A r \in Window(snapshots, now) :
                     \E o \in r.sample.mounts : o.point = m.point /\ ~o.ro
               => Finding("severe", "readonly", <<m.point, "mount">>) \in Filtered(found, verdict)
    BY <1>3, <2>1, WindowOfAudit, FaultsFound DEF found
  <2> QED BY <1>8, <2>2
<1>17. RenameIsNoLoss'
  BY <1>3, <1>8, RenamesCompared DEF RenameIsNoLoss, found
<1>18. ReportedErrorIsNew'
  <2> SUFFICES ASSUME NEW f \in found, NEW r \in NewestRow(Window(snapshots, now))
               PROVE  /\ f.category = "kernel" => now - Sample.uptime + f.subject[1] >= r.at
                      /\ f.category = "io" => \E t \in Sample.kernel : now - Sample.uptime + t >= r.at
    BY <1>8 DEF ReportedErrorIsNew
  <2>1. /\ f.category = "kernel" => booted + f.subject[1] >= r.at
        /\ f.category = "io" => \E t \in log : t >= r.at
    BY <1>3, ErrorsReported DEF found
  <2>2. /\ now \in Nat /\ booted \in Nat /\ log \subseteq Nat
        /\ Sample.uptime = now - booted /\ Sample.kernel = {t - booted : t \in log}
    BY RunFacts, SampleTyped, RunAssumption DEF MachineTyped
  <2>3. now - Sample.uptime = booted
    BY <2>2
  <2>4. \A t \in log : t - booted \in Sample.kernel /\ booted + (t - booted) = t
    BY <2>2
  <2> QED BY <2>1, <2>3, <2>4
<1>19. Outcome'
  BY <1>15, <1>16, <1>17, <1>18 DEF Outcome
<1> QED BY <1>1, <1>10, <1>11, <1>12, <1>13, <1>14, <1>19, SavingStep

\* One row of a day replaces the earlier one.
LEMMA Saving ==
  ASSUME IInv, SaveSnapshot
  PROVE  IInv'
<1> DEFINE row == [date |-> now \div DayLength, at |-> now, sample |-> worker.sample]
<1>1. /\ At("saving")
      /\ UNCHANGED <<now, machine, events, hardware, accepted, open, plan, rows, results, shown>>
  BY DEF SaveSnapshot
<1>2. /\ worker.sample = Sample /\ worker.at = now /\ worker.sample # NoSample
      /\ now \in Nat /\ Sample \in Samples /\ RealSample(Sample) /\ Sample' = Sample
      /\ now \div DayLength \in Nat
  <2>1. worker.sample = Sample /\ worker.at = now /\ worker.sample # NoSample
    BY <1>1 DEF IInv, Holding, At
  <2>2. now \in Nat
    BY RunFacts, RunAssumption DEF MachineTyped
  <2>3. now \div DayLength \in Nat
    BY <2>2, RunAssumption
  <2> QED BY <1>1, <2>1, <2>2, <2>3, RunFacts, SampleTyped, SameSample
<1>3. /\ worker' \in Workers /\ worker'.pc = "attaching"
      /\ worker'.sample = worker.sample /\ worker'.at = worker.at /\ worker'.base = worker.base
      /\ worker'.found = worker.found /\ worker.kept \subseteq worker'.kept
      /\ worker'.resource = worker.resource
      /\ worker.faulted \subseteq worker'.faulted
      /\ worker'.faulted \subseteq worker.faulted \cup {"saving"}
  <2>1. CASE worker' = [worker EXCEPT !.pc = "attaching"]
    BY <2>1, RunFacts DEF Workers, Places
  <2>2. CASE worker' = [worker EXCEPT !.pc = "attaching", !.kept = @ \cup Remark,
                                      !.faulted = @ \cup {"saving"}]
    <3>1. /\ worker.kept \in SUBSET Findings /\ worker.faulted \in SUBSET Places
      BY RunFacts DEF Workers
    <3>2. /\ worker.kept \cup Remark \in SUBSET Findings
          /\ worker.faulted \cup {"saving"} \in SUBSET Places
      BY <3>1, RemarkTyped DEF Places
    <3> QED BY <2>2, <3>1, <3>2, RunFacts DEF Workers, Places
  <2> QED BY <2>1, <2>2 DEF SaveSnapshot, Goto
<1>4. faults' \in 0 .. MaxFaults
  BY FaultCounted, RunFacts DEF SaveSnapshot, RunTyped
<1>5. RunTyped' /\ HardwareTyped' /\ AcceptedTyped'
  BY <1>1, <1>3, <1>4, RunFacts DEF RunTyped, HardwareTyped, AcceptedTyped
<1>6. snapshots' = snapshots \/ snapshots' = OtherDays(now \div DayLength) \cup {row}
  BY DEF SaveSnapshot
<1>7. row \in Snapshots /\ row.at = now /\ row.sample = Sample /\ row.date = now \div DayLength
  BY <1>2 DEF Snapshots
<1> HIDE DEF row
<1>8. SnapshotsTyped'
  <2>1. CASE snapshots' = snapshots
    BY <1>1, <2>1, RunFacts DEF SnapshotsTyped
  <2>2. CASE snapshots' = OtherDays(now \div DayLength) \cup {row}
    <3>1. \A r \in OtherDays(now \div DayLength) : r \in snapshots /\ r.date # now \div DayLength
      BY DEF OtherDays
    <3>2. SnapshotsTyped /\ now' = now
      BY <1>1, RunFacts
    <3>3. snapshots' \subseteq Snapshots
      BY <1>7, <2>2, <3>1, <3>2 DEF SnapshotsTyped
    <3>4. \A r \in snapshots' : r.date = r.at \div DayLength /\ r.at <= now
      BY <1>2, <1>7, <2>2, <3>1, <3>2 DEF SnapshotsTyped
    <3>5. \A r, s \in snapshots' : r.date = s.date => r = s
      BY <1>7, <2>2, <3>1, <3>2 DEF SnapshotsTyped
    <3> QED BY <3>2, <3>3, <3>4, <3>5 DEF SnapshotsTyped
  <2> QED BY <1>6, <2>1, <2>2
<1>9. Followed(row)
  <2>1. /\ MachineTyped /\ booted \in Nat /\ booted <= now
        /\ Sample.uptime = now - booted /\ Sample.kernel = {t - booted : t \in log}
    BY RunFacts, SampleTyped, RunAssumption DEF MachineTyped
  <2>2. ASSUME NEW e \in Sample.devices, NEW d \in Attached, e.name = DiskName(disk[d].slot)
        PROVE  e.ioerr = disk[d].errors
    <3>1. PICK c \in Attached : e = DiskRow(c) \/ e = PartRow(c)
      BY SampleRows
    <3>2. CASE e = PartRow(c)
      <4>1. e.name = PartName(disk[c].slot)
        BY <3>2 DEF PartRow
      <4> QED BY <2>2, <4>1 DEF DiskName, PartName
    <3>3. CASE e = DiskRow(c)
      <4>1. e.name = DiskName(disk[c].slot) /\ e.ioerr = disk[c].errors
        BY <3>3 DEF DiskRow
      <4>2. disk[c].slot = disk[d].slot
        BY <2>2, <4>1 DEF DiskName
      <4>3. c = d
        BY <2>1, <4>2 DEF MachineTyped
      <4> QED BY <4>1, <4>3
    <3> QED BY <3>1, <3>2, <3>3
  <2>3. \A d \in Attached : ~(disk[d].errors < disk[d].errors)
    BY <2>1, AttachedTyped
  <2>4. row.at - row.sample.uptime = booted /\ row.sample.uptime <= row.at
    BY <1>2, <1>7, <2>1
  <2>5. ~(booted < booted)
    BY <2>1
  <2> QED BY <1>7, <2>1, <2>2, <2>3, <2>4, <2>5 DEF Followed
<1>10. History'
  <2> SUFFICES ASSUME NEW r \in snapshots' PROVE RealSample(r.sample) /\ Followed(r)'
    BY DEF History
  <2>1. RealSample(r.sample) /\ Followed(r)
    BY <1>2, <1>6, <1>7, <1>9 DEF IInv, History, OtherDays
  <2> QED BY <1>1, <2>1 DEF Followed, Attached, machine
<1>11. Holding'
  BY <1>1, <1>2, <1>3 DEF Holding
<1>12. Phases'
  BY <1>1, <1>3 DEF IInv, Phases, Before, Tolerated, At
<1>13. Covered'
  BY <1>1 DEF IInv, Covered
<1>14. Audited' => Audited
  BY <1>1, <1>2, <1>3 DEF Audited, At
<1>15. Outcome'
  BY <1>1, <1>3, <1>14, Settled DEF IInv
<1> QED BY <1>1, <1>5, <1>8, <1>10, <1>11, <1>12, <1>13, <1>15, SavingStep

\* Places after the audit, and the handlers that come with them.
After == {"attaching", "adding", "announcing", "failing", "failed", "pruning", "reported"}

Going(p, F, res) ==
    [pc |-> p, at |-> worker.at, sample |-> worker.sample, reachable |-> worker.reachable,
     base |-> worker.base, found |-> worker.found, kept |-> worker.kept, resource |-> res,
     faulted |-> worker.faulted \cup F]

\* The run goes on, and at most remembers more.
LEMMA GoesOn ==
  ASSUME IInv, NEW p \in After, NEW F \in SUBSET Places, NEW res \in BOOLEAN,
         UNCHANGED shown, worker.resource => res,
         worker.pc \in After \cup {"connecting"},
         worker' = Going(p, F, res)
  PROVE  /\ worker' \in Workers /\ worker'.pc = p /\ worker'.faulted = worker.faulted \cup F
         /\ worker'.reachable = worker.reachable
         /\ Holding' /\ Outcome'
<1>1. /\ worker.at \in Nat /\ worker.sample \in Samples \cup {NoSample}
      /\ worker.reachable \in BOOLEAN /\ worker.faulted \in SUBSET Places
      /\ worker.base \in SUBSET Snapshots /\ worker.found \in SUBSET Findings
      /\ worker.kept \in SUBSET Findings
  BY RunFacts DEF Workers
<1>2. worker' = [pc |-> p, at |-> worker.at, sample |-> worker.sample,
                 reachable |-> worker.reachable, base |-> worker.base, found |-> worker.found,
                 kept |-> worker.kept, resource |-> res, faulted |-> worker.faulted \cup F]
  BY DEF Going
<1>3. p \in Places /\ worker.faulted \cup F \in SUBSET Places
  BY <1>1 DEF After, Places
<1>4. worker' \in Workers
  BY <1>1, <1>2, <1>3 DEF Workers
<1>5. Holding'
  BY <1>2 DEF Holding, After
<1>6. Audited' => Audited
  BY <1>2 DEF IInv, Holding, Audited, After
<1>7. Outcome'
  BY <1>2, <1>6, Settled DEF IInv
<1> QED BY <1>2, <1>4, <1>5, <1>7

LEMMA GoesTo ==
  ASSUME IInv, NEW p \in After, UNCHANGED shown, worker.pc \in After, Goto(p)
  PROVE  /\ worker' \in Workers /\ worker'.pc = p /\ worker'.faulted = worker.faulted
         /\ worker'.reachable = worker.reachable
         /\ Holding' /\ Outcome'
<1>1. worker.resource \in BOOLEAN
  BY RunFacts DEF Workers
<1>2. worker' = Going(p, {}, worker.resource)
  BY RunFacts DEF Workers, Going, Goto
<1>3. {} \in SUBSET Places /\ worker.faulted \cup {} = worker.faulted
  OBVIOUS
<1> QED BY <1>1, <1>2, <1>3, GoesOn

LEMMA IsCaught ==
  ASSUME IInv, UNCHANGED shown, worker.pc \in After \cup {"connecting"}, Caught
  PROVE  /\ worker' \in Workers /\ worker'.pc = "failing"
         /\ worker'.faulted = worker.faulted \cup {worker.pc}
         /\ worker'.reachable = worker.reachable
         /\ Holding' /\ Outcome'
<1>1. worker.resource \in BOOLEAN
  BY RunFacts DEF Workers
<1>2. worker' = Going("failing", {worker.pc}, worker.resource)
  BY RunFacts DEF Workers, Going, Caught
<1>3. {worker.pc} \in SUBSET Places /\ "failing" \in After
  BY RunFacts DEF Workers, After
<1> QED BY <1>1, <1>2, <1>3, GoesOn

LEMMA Attaching ==
  ASSUME IInv, Attach
  PROVE  IInv'
<1>1. At("attaching") /\ UNCHANGED <<now, machine, events, store, rows, results, shown>>
  BY DEF Attach
<1>2. faults' \in 0 .. MaxFaults
  BY FaultCounted, RunFacts DEF Attach, RunTyped
<1>3. /\ worker' \in Workers /\ Holding' /\ Outcome' /\ worker'.reachable = worker.reachable
      /\ \/ worker'.pc = "adding" /\ worker'.faulted = worker.faulted
         \/ worker'.pc = "failing" /\ worker'.faulted = worker.faulted \cup {"attaching"}
  <2>1. CASE worker' = [worker EXCEPT !.pc = "adding", !.resource = @ \/ open # <<>>]
    <3> DEFINE res == worker.resource \/ open # <<>>
    <3>1. res \in BOOLEAN /\ (worker.resource => res)
      OBVIOUS
    <3>2. worker' = [worker EXCEPT !.pc = "adding", !.resource = res]
      BY <2>1
    <3> HIDE DEF res
    <3>3. worker' = Going("adding", {}, res)
      BY <3>2, RunFacts DEF Workers, Going
    <3> QED BY <1>1, <3>1, <3>3, GoesOn DEF At, After
  <2>2. CASE Caught
    BY <1>1, <2>2, IsCaught DEF At, After
  <2> QED BY <2>1, <2>2 DEF Attach
<1>4. RunTyped'
  BY <1>1, <1>2, <1>3, RunFacts DEF RunTyped
<1>5. Phases'
  BY <1>1, <1>3 DEF IInv, Phases, Before, Tolerated, NoRows, At
<1> QED BY <1>1, <1>3, <1>4, <1>5, RunStep

\* What is counted in a report that has no row yet.
LEMMA FirstRow ==
  ASSUME IInv
  PROVE  /\ Plus(NoRows) \in [good : 0 .. 1, bad : 0 .. 1]
         /\ \A counts \in [good : 0 .. 1, bad : 0 .. 1] :
               PlusBad(counts) \in [good : 0 .. 1, bad : 0 .. 2]
BY DEF Plus, PlusBad, NoRows

LEMMA Adding ==
  ASSUME IInv, Add
  PROVE  IInv'
<1>1. /\ At("adding") /\ UNCHANGED <<now, machine, events, store, shown>>
      /\ rows' = Plus(rows) /\ results' \in {results, Plus(results)}
  BY DEF Add
<1>2. rows = NoRows /\ results = NoRows /\ worker.faulted \subseteq Tolerated
  BY <1>1 DEF IInv, Phases, Before, At
<1>3. faults' \in 0 .. MaxFaults
  BY FaultCounted, RunFacts DEF Add, RunTyped
<1>4. /\ worker' \in Workers /\ Holding' /\ Outcome' /\ worker'.reachable = worker.reachable
      /\ \/ /\ worker'.pc = "announcing" /\ worker'.faulted = worker.faulted
            /\ results' = Plus(results)
         \/ worker'.pc = "failing" /\ worker'.faulted = worker.faulted \cup {"adding"}
  <2>1. CASE results' = Plus(results) /\ Goto("announcing")
    BY <1>1, <2>1, GoesTo DEF Goto, At, After
  <2>2. CASE Caught
    BY <1>1, <2>2, IsCaught DEF At, After
  <2> QED BY <2>1, <2>2 DEF Add
<1>5. Plus(NoRows)' = Plus(NoRows)
  BY <1>4 DEF Plus
<1>6. RunTyped'
  BY <1>1, <1>2, <1>3, <1>4, FirstRow, RunFacts DEF RunTyped
<1>7. Phases'
  BY <1>1, <1>2, <1>4, <1>5, FirstRow DEF Phases, Before, Tolerated, NoRows
<1> QED BY <1>1, <1>4, <1>6, <1>7, RunStep

LEMMA Announcing ==
  ASSUME IInv, Announce \/ AnnounceRaises
  PROVE  IInv'
<1>1. /\ worker.pc \in {"connecting", "announcing"}
      /\ UNCHANGED <<now, machine, events, store, rows, results, shown>>
  BY DEF Announce, AnnounceRaises, At
<1>2. /\ rows \in {NoRows, Plus(NoRows)} /\ results \in {NoRows, Plus(NoRows)}
      /\ worker.faulted \subseteq Tolerated
  BY <1>1 DEF IInv, Phases, Before
<1>3. faults' \in 0 .. MaxFaults
  BY FaultCounted, RunFacts DEF Announce, AnnounceRaises, RunTyped
<1>4. /\ worker' \in Workers /\ Holding' /\ Outcome' /\ worker'.reachable = worker.reachable
      /\ \/ worker.pc = "announcing" /\ worker'.pc = "pruning" /\ worker'.faulted = worker.faulted
         \/ worker'.pc = "failing" /\ worker'.faulted = worker.faulted \cup {worker.pc}
  <2>1. CASE Announce
    BY <1>1, <2>1, GoesTo DEF Announce, Goto, At, After
  <2>2. CASE Caught
    BY <1>1, <2>2, IsCaught DEF After
  <2> QED BY <2>1, <2>2 DEF Announce, AnnounceRaises
<1>5. Plus(NoRows)' = Plus(NoRows)
  BY <1>4 DEF Plus
<1>6. RunTyped'
  BY <1>1, <1>3, <1>4, RunFacts DEF RunTyped
<1>7. rows.bad <= 1 /\ results.bad <= 1
  BY <1>2, FirstRow DEF NoRows
<1>8. Phases'
  BY <1>1, <1>2, <1>4, <1>5, <1>7 DEF IInv, Phases, Before, Tolerated
<1> QED BY <1>1, <1>4, <1>6, <1>8, RunStep

\* The handler's own row; what raises in it ends the run.
LEMMA Failing ==
  ASSUME IInv, AddFailed \/ AnnounceFailed
  PROVE  IInv'
<1>1. /\ worker.pc \in {"failing", "failed"}
      /\ UNCHANGED <<now, machine, events, store, shown>>
  BY DEF AddFailed, AnnounceFailed, At
<1>2. ~(worker.faulted \subseteq Tolerated)
  BY <1>1 DEF IInv, Phases
<1>3. faults' \in 0 .. MaxFaults
  BY FaultCounted, RunFacts DEF AddFailed, AnnounceFailed, RunTyped
<1>4. /\ rows' \in [good : 0 .. 1, bad : 0 .. 2]
      /\ results' \in [good : 0 .. 1, bad : 0 .. 2]
  <2>1. CASE AddFailed
    <3>1. rows \in [good : 0 .. 1, bad : 0 .. 1] /\ results \in [good : 0 .. 1, bad : 0 .. 1]
      BY <2>1, RunFacts DEF IInv, Phases, RunTyped, AddFailed, At
    <3>2. rows' = PlusBad(rows) /\ results' \in {results, PlusBad(results)}
      BY <2>1 DEF AddFailed
    <3>3. PlusBad(rows) \in [good : 0 .. 1, bad : 0 .. 2]
      BY <3>1, FirstRow
    <3>4. PlusBad(results) \in [good : 0 .. 1, bad : 0 .. 2]
      BY <3>1, FirstRow
    <3> QED BY <3>1, <3>2, <3>3, <3>4, RunFacts DEF RunTyped
  <2>2. CASE AnnounceFailed
    BY <2>2, RunFacts DEF RunTyped, AnnounceFailed
  <2> QED BY <2>1, <2>2
<1>5. \/ /\ worker' \in Workers /\ Holding' /\ Outcome'
         /\ worker'.pc \in {"failed", "pruning"} /\ worker'.faulted = worker.faulted
      \/ worker' = IdleWorker
  <2>1. CASE Goto("failed")
    BY <1>1, <2>1, GoesTo DEF Goto, After
  <2>2. CASE Goto("pruning")
    BY <1>1, <2>2, GoesTo DEF Goto, After
  <2> QED BY <2>1, <2>2 DEF AddFailed, AnnounceFailed
<1>6. CASE worker' = IdleWorker
  <2>1. worker' \in Workers /\ worker'.pc = "idle" /\ worker'.sample = NoSample /\ worker'.faulted = {}
    BY <1>6, RunFacts
  <2>2. RunTyped' /\ Holding' /\ Phases'
    BY <1>3, <1>4, <2>1 DEF RunTyped, Holding, Phases, Before
  <2>3. ~Audited'
    BY <2>1 DEF Audited
  <2>4. Outcome'
    BY <2>3 DEF Outcome, Missed, RealFaultsAreKept, RenameIsNoLoss, ReportedErrorIsNew
  <2> QED BY <1>1, <2>2, <2>4, RunStep
<1>7. CASE /\ worker' \in Workers /\ Holding' /\ Outcome'
           /\ worker'.pc \in {"failed", "pruning"} /\ worker'.faulted = worker.faulted
  <2>1. RunTyped' /\ Phases'
    BY <1>2, <1>3, <1>4, <1>7 DEF RunTyped, Phases, Before
  <2> QED BY <1>1, <1>7, <2>1, RunStep
<1> QED BY <1>5, <1>6, <1>7

LEMMA Pruning ==
  ASSUME IInv, Prune
  PROVE  IInv'
<1>1. /\ At("pruning") /\ Goto("reported")
      /\ UNCHANGED <<now, machine, events, hardware, accepted, open, plan, rows, results, shown>>
  BY DEF Prune
<1>2. snapshots' \subseteq snapshots
  BY DEF Prune
<1>3. faults' \in 0 .. MaxFaults
  BY FaultCounted, RunFacts DEF Prune, RunTyped
<1>4. /\ worker' \in Workers /\ worker'.pc = "reported" /\ worker'.faulted = worker.faulted
      /\ worker'.reachable = worker.reachable /\ Holding' /\ Outcome'
  BY <1>1, GoesTo DEF Goto, At, After
<1>5. SnapshotsTyped' /\ HardwareTyped' /\ AcceptedTyped' /\ RunTyped'
  BY <1>1, <1>2, <1>3, <1>4, RunFacts DEF SnapshotsTyped, HardwareTyped, AcceptedTyped, RunTyped
<1>6. History'
  BY <1>1, <1>2 DEF IInv, History, Followed, Attached, machine
<1>7. Plus(NoRows)' = Plus(NoRows)
  BY <1>4 DEF Plus
<1>8. Phases'
  BY <1>1, <1>4, <1>7 DEF IInv, Phases, Before, At
<1>9. Covered'
  BY <1>1 DEF IInv, Covered
<1> QED BY <1>1, <1>4, <1>5, <1>6, <1>8, <1>9, SavingStep

-----------------------------------------------------------------------------
(* Theorems.                                                               *)

LEMMA Starts == Init => IInv
<1> SUFFICES ASSUME Init PROVE IInv
  OBVIOUS
<1>1. worker = IdleWorker /\ rows = NoRows /\ results = NoRows /\ snapshots = {} /\ shown = {}
  BY DEF Init
<1>2. /\ IdleWorker \in Workers /\ NoRows \in [good : 0 .. 1, bad : 0 .. 2]
      /\ IdleWorker.sample = NoSample /\ IdleWorker.pc = "idle" /\ IdleWorker.faulted = {}
  BY DEF IdleWorker, Workers, Places, NoRows
<1>3. MachineTyped
  <2>1. PICK size \in Sizes :
          disk = [d \in Disks |-> [slot |-> d, mounted |-> d \in Data, ro |-> FALSE,
                                  size |-> size, errors |-> 0]]
    BY RunAssumption DEF Init
  <2>2. disk \in [Disks -> [slot : Slots \cup {Gone}, mounted : BOOLEAN, ro : BOOLEAN,
                           size : Sizes, errors : Nat]]
    <3>1. \A d \in Disks : (d \in Data) \in BOOLEAN
      OBVIOUS
    <3>2. \A d \in Disks : disk[d] \in [slot : Slots \cup {Gone}, mounted : BOOLEAN, ro : BOOLEAN,
                                        size : Sizes, errors : Nat]
      BY <2>1, <3>1, RunAssumption
    <3> QED BY <2>1, <3>2
  <2>3. \A c, d \in Attached : disk[c].slot = disk[d].slot => c = d
    BY <2>1 DEF Attached
  <2> QED BY <2>2, <2>3, RunAssumption DEF Init, MachineTyped
<1>4. RunTyped /\ SnapshotsTyped
  BY <1>1, <1>2, RunAssumption DEF Init, RunTyped, SnapshotsTyped
<1>5. HardwareTyped
  BY AttachedCounted DEF Init, HardwareTyped
<1>6. AcceptedTyped
  <2>1. accepted \in [source : {"none", "initial", "planned", "confirmed"},
                      hardware : Nat, disk : Structures]
    BY DEF Init, NoBaseline, Baseline, Unknown, NoStructure, Structures
  <2>2. open = <<>> /\ plan = FALSE
    BY DEF Init
  <2>3. open \in Seq(Events) /\ Len(open) = 0
    BY <2>2, EmptySeq
  <2>4. plan \in BOOLEAN
    BY <2>2, Zenon
  <2>5. 0 <= MaxOpen
    BY RunAssumption
  <2> QED BY <2>1, <2>3, <2>4, <2>5 DEF AcceptedTyped
<1>7. History /\ Holding /\ Phases /\ Covered /\ ~Audited
  BY <1>1, <1>2 DEF History, Holding, Phases, Before, Covered, Audited
<1> QED BY <1>3, <1>4, <1>5, <1>6, <1>7, Typed
        DEF IInv, Outcome, Missed, RealFaultsAreKept, RenameIsNoLoss, ReportedErrorIsNew

LEMMA Steps == IInv /\ [Next]_vars => IInv'
<1> SUFFICES ASSUME IInv, [Next]_vars PROVE IInv'
  OBVIOUS
<1>1. CASE MachineChanges
  BY <1>1, MachineSteps
<1>2. CASE \/ Tick \/ RegisterPlan \/ MonitorRefresh
           \/ \E decision \in {"normal", "abnormal", "resolved"} : Decide(decision)
  BY <1>2, ConfigurationSteps
<1>3. CASE StartRun \/ FinishRun
  BY <1>3, Starting
<1>4. CASE AuditNothing \/ AuditRaises
  BY <1>4, NotAuditing
<1>5. CASE Announce \/ AnnounceRaises
  BY <1>5, Announcing
<1>6. CASE AddFailed \/ AnnounceFailed
  BY <1>6, Failing
<1>7. CASE Connect \/ RefreshHardware \/ Audit \/ SaveSnapshot \/ Attach \/ Add \/ Prune
  BY <1>7, Connecting, Refreshing, Auditing, Saving, Attaching, Adding, Pruning
<1>8. CASE UNCHANGED vars
  <2>1. MachineTyped' /\ SnapshotsTyped' /\ HardwareTyped' /\ AcceptedTyped' /\ RunTyped'
    BY <1>8, RunFacts DEF vars, machine, store, run, MachineTyped, SnapshotsTyped,
                          HardwareTyped, AcceptedTyped, RunTyped, Attached
  <2>2. UNCHANGED <<now, machine, events, store, shown, snapshots, worker, rows, results>>
    BY <1>8 DEF vars, run, store
  <2>3. Sample' = Sample
    BY <2>2, SameSample
  <2>4. Holding' /\ Phases'
    BY <2>2, <2>3 DEF IInv, Holding, Phases, Plus
  <2>5. Audited' => Audited
    BY <2>2 DEF Audited
  <2>6. Outcome'
    BY <2>2, <2>5, Settled DEF IInv
  <2> QED BY <2>1, <2>2, <2>4, <2>6, RunStep
<1> QED BY <1>1, <1>2, <1>3, <1>4, <1>5, <1>6, <1>7, <1>8 DEF Next, MachineChanges

\* The inductive invariant.
THEOREM Invariance == Spec => []IInv
BY Starts, Steps, PTL DEF Spec

\* Every variable keeps its type.
THEOREM TypeCorrect == Spec => []TypeOK
<1>1. IInv => TypeOK
  BY DEF IInv
<1> QED BY Invariance, <1>1, PTL

\* A mount an audit has seen since the last decision and that is gone is in the
\* report: as long as no event is open the accepted configuration has the mounts
\* that were seen (Covered), so the evaluation finds the difference.
THEOREM VanishedMountsAreReported == Spec => []VanishedMountIsReported
<1>1. IInv => VanishedMountIsReported
  BY DEF IInv, Outcome, Missed, VanishedMountIsReported
<1> QED BY Invariance, <1>1, PTL

\* The report has one row of the server, the true one, unless a call outside the
\* hardware refresh, the audit and the pruning has raised (Phases).
THEOREM RowsAreTrue == Spec => []OneTrueRow
<1>1. IInv => OneTrueRow
  BY DEF IInv, Phases, Tolerated, OneTrueRow, At
<1> QED BY Invariance, <1>1, PTL

\* A degraded array and a file system that is newly read-only stay in the report
\* whatever the resource verdict: the baselines are rows of the window, and the
\* filter drops structural findings only.
THEOREM RealFaultsStay == Spec => []RealFaultsAreKept
<1>1. IInv => RealFaultsAreKept
  BY DEF IInv, Outcome
<1> QED BY Invariance, <1>1, PTL

\* Disks that only have other names are neither lost nor new: every disk has a
\* partition, whose UUID leads to its parent on both sides.
THEOREM RenamesAreNoLosses == Spec => []RenameIsNoLoss
<1>1. IInv => RenameIsNoLoss
  BY DEF IInv, Outcome
<1> QED BY Invariance, <1>1, PTL

\* A reported disk error is not older than the snapshot it is compared with: the
\* snapshot has the earlier lines, or the machine has been started since (History).
THEOREM ReportedErrorsAreNew == Spec => []ReportedErrorIsNew
<1>1. IInv => ReportedErrorIsNew
  BY DEF IInv, Outcome
<1> QED BY Invariance, <1>1, PTL
==============================================================================
