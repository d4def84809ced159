----------------------------- MODULE BackupProofs -----------------------------
(* The platform's backups (PlatformBackups): their types, that retention     *)
(* leaves the newest run of a schedule its files, and what stops a full      *)
(* restore half-way, however runs, restores and servers interleave; and      *)
(* where they take turns, that a successful run is whole and a full restore  *)
(* that ends puts it all back. The desktop's backups (DesktopBackups): their *)
(* types, and that a file stays readable. For any processes, firms,          *)
(* schedules, ages and bounds.                                               *)
EXTENDS MCPlatformBackups, TLAPS, FiniteSetTheorems, SequenceTheorems, WellFoundedInduction

Statuses == {"none", "active", "suspended"}

\* A workspace belongs to a firm, in the registry and in every copy of it.
Copies == {c \in [status : [Firms -> Statuses], spaces : SUBSET Firms] :
              \A f \in c.spaces : c.status[f] # "none"}

Entries == {Absent, Failed} \cup 0..MaxEdits

JobRow == [at : {"idle", "platform", "list", "tenants", "retention"},
           schedule : Schedules \cup {"none"}, todo : SUBSET Firms, platform : BOOLEAN,
           copy : Copies, tenants : [Firms -> Entries]]

RunRow == [schedule : Schedules, platform : BOOLEAN, copy : Copies,
           tenants : [Firms -> Entries], age : Nat, kept : BOOLEAN, success : BOOLEAN]

RestoreRow == [at : {"idle", "platform", "tenants"}, what : {"none", "full", "platform", "tenant"},
               run : Nat, todo : SUBSET Firms]

\* A manifest's age stops counting once its files are due to be removed, and its
\* success is that of all its entries.
Manifest(run) ==
    /\ run.age <= Keep[run.schedule] + 1
    /\ run.success => run.platform /\ \A f \in Firms : run.tenants[f] # Failed

Registry ==
    /\ status \in [Firms -> Statuses]
    /\ spaces \subseteq Firms
    /\ \A f \in spaces : status[f] # "none"
    /\ created \in {0} \cup Firms

Jobs ==
    /\ job \in [Backers -> JobRow]
    /\ \A b \in Backers : ~At(b, "idle") => job[b].schedule \in Schedules

Manifests == runs \in Seq(RunRow) /\ \A i \in DOMAIN runs : Manifest(runs[i])

Restoring ==
    /\ restore \in RestoreRow
    /\ restore.run \in 0..Len(runs)
    /\ ~Resting => restore.run \in DOMAIN runs

Types == Registry /\ data \in [Firms -> Missing..MaxEdits] /\ Jobs /\ Manifests /\ Restoring

-----------------------------------------------------------------------------
LEMMA ConstantsTyped ==
  /\ Missing \in Int /\ Absent \in Int /\ Failed \in Int
  /\ Missing < 0 /\ Absent < 0 /\ Failed < 0 /\ Absent # Failed
  /\ MaxEdits \in Nat /\ MaxRuns \in Nat
  /\ \A s \in Schedules : Keep[s] \in Nat
  BY BackupAssumption DEF BackupAssumption, Missing, Absent, Failed

LEMMA NoCopyIsCopy == NoCopy \in Copies
  BY DEF NoCopy, Copies, Statuses

LEMMA NoJobIsJob == NoJob \in JobRow /\ NoJob.at = "idle"
  BY NoCopyIsCopy DEF NoJob, JobRow, Entries

LEMMA RunsAre == Manifests => DOMAIN runs = 1..Len(runs) /\ Len(runs) \in Nat
                                /\ \A i \in DOMAIN runs : runs[i] \in RunRow /\ Manifest(runs[i])
  BY DEF Manifests

\* The registry as it is may be copied.
LEMMA RegistryIsCopy == Registry => [status |-> status, spaces |-> spaces] \in Copies
<1> SUFFICES ASSUME Registry PROVE [status |-> status, spaces |-> spaces] \in Copies
  OBVIOUS
<1> DEFINE c == [status |-> status, spaces |-> spaces]
<1>1. c \in [status : [Firms -> Statuses], spaces : SUBSET Firms]
  BY DEF Registry
<1>2. \A f \in c.spaces : c.status[f] # "none"
  BY DEF Registry
<1> QED
  BY <1>1, <1>2 DEF Copies

\* Copying a tenant reads no more than a ledger that is there.
LEMMA EntriesAre ==
  ASSUME Types, NEW f \in spaces
  PROVE  {data[f]} \ {Missing} \subseteq 0..MaxEdits
<1>1. data[f] \in Missing..MaxEdits
  BY DEF Types, Registry
<1> QED
  BY <1>1, ConstantsTyped DEF Missing

LEMMA TypesInit == Init => Types
<1> SUFFICES ASSUME Init PROVE Types
  OBVIOUS
<1>1. Registry /\ data \in [Firms -> Missing..MaxEdits]
  <2>1. CASE Fresh
    BY <2>1, ConstantsTyped DEF Fresh, Registry, Statuses, Missing
  <2>2. CASE Settled
    BY <2>2, ConstantsTyped DEF Settled, Registry, Statuses, Missing
  <2> QED
    BY <2>1, <2>2 DEF Init
<1>2. Jobs
  BY NoJobIsJob DEF Init, Jobs, At
<1>3. Manifests /\ Len(runs) = 0
  BY DEF Init, Manifests
<1>4. Restoring
  BY <1>3 DEF Init, Restoring, RestoreRow, NoRestore, Resting
<1> QED
  BY <1>1, <1>2, <1>3, <1>4 DEF Types

LEMMA TypesServer == Types /\ Server => Types'
<1> SUFFICES ASSUME Types, Server PROVE Types'
  OBVIOUS
<1>1. Jobs' /\ Manifests' /\ Restoring'
  BY DEF Types, Server, CreateFirm, CreateWorkspace, UpdateFirmStatus, Edit, registry,
     Jobs, At, Manifests, Restoring, Resting
<1>2. CASE CreateFirm
  BY <1>1, <1>2 DEF CreateFirm, Types, Registry, Statuses
<1>3. ASSUME NEW f \in Firms, CreateWorkspace(f) PROVE Types'
  BY <1>1, <1>3, ConstantsTyped DEF CreateWorkspace, Types, Registry, Missing
<1>4. ASSUME NEW f \in Firms, UpdateFirmStatus(f) PROVE Types'
  BY <1>1, <1>4 DEF UpdateFirmStatus, Types, Registry, Statuses
<1>5. ASSUME NEW f \in Firms, Edit(f) PROVE Types'
  BY <1>1, <1>5, ConstantsTyped DEF Edit, registry, Types, Registry, Missing
<1> QED
  BY <1>2, <1>3, <1>4, <1>5 DEF Server

\* A step of b's run that writes no manifest.
LEMMA JobStep ==
  ASSUME Types, NEW b \in Backers, NEW j \in JobRow,
         j.at # "idle" => j.schedule \in Schedules,
         job' = [job EXCEPT ![b] = j],
         UNCHANGED <<registry, data, runs, restore>>
  PROVE  Types'
<1>1. job' \in [Backers -> JobRow]
  BY DEF Types, Jobs
<1>2. \A c \in Backers : job'[c].at # "idle" => job'[c].schedule \in Schedules
  BY DEF Types, Jobs, At
<1>3. Jobs'
  BY <1>1, <1>2 DEF Jobs, At
<1> QED
  BY <1>3 DEF Types, Registry, registry, Manifests, Restoring, Resting

\* Manifests that are rewritten in place.
LEMMA RunsRewritten ==
  ASSUME Types, DOMAIN runs' = DOMAIN runs, runs' = [i \in DOMAIN runs |-> runs'[i]],
         \A i \in DOMAIN runs : runs'[i] \in RunRow /\ Manifest(runs'[i])
  PROVE  Manifests' /\ Len(runs') = Len(runs)
<1>1. DOMAIN runs = 1..Len(runs) /\ Len(runs) \in Nat
  BY RunsAre DEF Types
<1>2. runs' \in [1..Len(runs) -> RunRow]
  BY <1>1
<1>3. runs' \in Seq(RunRow)
  BY <1>1, <1>2, SeqDef
<1>4. Len(runs') = Len(runs)
  BY <1>1, <1>3
<1> QED
  BY <1>3, <1>4 DEF Manifests, Manifest

LEMMA TypesWriteManifest ==
  ASSUME Types, NEW b \in Backers, WriteManifest(b)
  PROVE  Types'
<1> DEFINE success == job[b].platform /\ \A f \in Firms : job[b].tenants[f] # Failed
           run == [schedule |-> job[b].schedule, platform |-> job[b].platform,
                   copy |-> job[b].copy, tenants |-> job[b].tenants, age |-> 0, kept |-> TRUE,
                   success |-> success]
           j == [NoJob EXCEPT !.at = "retention", !.schedule = job[b].schedule]
<1>1. /\ runs' = Append(runs, run) /\ job' = [job EXCEPT ![b] = j]
      /\ UNCHANGED <<registry, data, restore>> /\ ~At(b, "idle")
  BY DEF WriteManifest, At
<1>2. job[b] \in JobRow /\ job[b].schedule \in Schedules
  BY <1>1 DEF Types, Jobs
<1>3. run \in RunRow /\ Manifest(run)
  <2>1. success \in BOOLEAN
    BY <1>2 DEF JobRow
  <2>2. success => job[b].platform /\ \A f \in Firms : job[b].tenants[f] # Failed
    OBVIOUS
  <2> HIDE DEF success
  <2>3. run \in RunRow
    BY <1>2, <2>1 DEF JobRow, RunRow
  <2>4. Manifest(run)
    BY <1>2, <2>2, ConstantsTyped DEF Manifest
  <2> QED
    BY <2>3, <2>4
<1>4. j \in JobRow /\ j.schedule \in Schedules
  BY <1>2, NoJobIsJob DEF JobRow
<1> HIDE DEF run, j
<1>5. runs \in Seq(RunRow) /\ DOMAIN runs = 1..Len(runs)
  BY RunsAre DEF Types, Manifests
<1>6. /\ runs' \in Seq(RunRow) /\ Len(runs') = Len(runs) + 1
      /\ DOMAIN runs' = 1..(Len(runs) + 1)
      /\ runs'[Len(runs) + 1] = run /\ \A i \in DOMAIN runs : runs'[i] = runs[i]
  BY <1>1, <1>3, <1>5
<1>7. \A i \in DOMAIN runs' : Manifest(runs'[i])
  <2>1. \A i \in DOMAIN runs' : i \in DOMAIN runs \/ i = Len(runs) + 1
    BY <1>5, <1>6
  <2> QED
    BY <1>3, <1>6, <2>1 DEF Types, Manifests
<1>8. Manifests'
  BY <1>6, <1>7 DEF Manifests, Manifest
<1>9. Restoring'
  BY <1>1, <1>5, <1>6 DEF Types, Restoring, Resting
<1>10. job' \in [Backers -> JobRow] /\ \A c \in Backers : job'[c].at # "idle" => job'[c].schedule \in Schedules
  BY <1>1, <1>4 DEF Types, Jobs, At
<1> QED
  BY <1>1, <1>8, <1>9, <1>10 DEF Types, Registry, registry, Jobs, At

LEMMA TypesApplyRetention ==
  ASSUME Types, NEW b \in Backers, ApplyRetention(b)
  PROVE  Types'
<1> DEFINE due(i) == runs[i].schedule = job[b].schedule /\ runs[i].age > Keep[job[b].schedule]
           left(i) == IF due(i) THEN [runs[i] EXCEPT !.kept = FALSE] ELSE runs[i]
<1>1. /\ runs' = [i \in DOMAIN runs |-> left(i)] /\ job' = [job EXCEPT ![b] = NoJob]
      /\ UNCHANGED <<registry, data, restore>>
  BY DEF ApplyRetention
<1>2. \A i \in DOMAIN runs : left(i) \in RunRow /\ Manifest(left(i))
  <2> SUFFICES ASSUME NEW i \in DOMAIN runs PROVE left(i) \in RunRow /\ Manifest(left(i))
    OBVIOUS
  <2>1. runs[i] \in RunRow /\ Manifest(runs[i])
    BY RunsAre DEF Types
  <2> QED
    BY <2>1 DEF RunRow, Manifest
<1> HIDE DEF left
<1>3. Manifests' /\ Len(runs') = Len(runs) /\ DOMAIN runs' = DOMAIN runs
  BY <1>1, <1>2, RunsRewritten
<1>4. Restoring'
  BY <1>1, <1>3 DEF Types, Restoring, Resting
<1>5. job' \in [Backers -> JobRow] /\ \A c \in Backers : job'[c].at # "idle" => job'[c].schedule \in Schedules
  BY <1>1, NoJobIsJob DEF Types, Jobs, At
<1> QED
  BY <1>1, <1>3, <1>4, <1>5 DEF Types, Registry, registry, Jobs, At

LEMMA TypesBackup ==
  ASSUME Types, NEW b \in Backers, Backup(b)
  PROVE  Types'
<1>1. job[b] \in JobRow /\ (~At(b, "idle") => job[b].schedule \in Schedules)
  BY DEF Types, Jobs
<1>2. ASSUME NEW s \in Schedules, StartBackup(b, s) PROVE Types'
  <2> DEFINE j == [NoJob EXCEPT !.at = "platform", !.schedule = s]
  <2>1. j \in JobRow /\ j.schedule \in Schedules
    BY NoJobIsJob DEF JobRow
  <2> QED
    BY <1>2, <2>1, JobStep DEF StartBackup
<1>3. CASE BackupPlatform(b)
  <2>1. PICK j \in {[job[b] EXCEPT !.at = "list", !.platform = TRUE,
                                  !.copy = [status |-> status, spaces |-> spaces]],
                    [job[b] EXCEPT !.at = "list"]} :
          job' = [job EXCEPT ![b] = j]
    BY <1>3 DEF BackupPlatform
  <2>2. [status |-> status, spaces |-> spaces] \in Copies
    BY RegistryIsCopy DEF Types
  <2>3. j \in JobRow /\ j.schedule = job[b].schedule
    BY <1>1, <2>2 DEF JobRow
  <2> QED
    BY <1>1, <1>3, <2>1, <2>3, JobStep DEF BackupPlatform, At
<1>4. CASE ListFirms(b)
  <2> DEFINE j == [job[b] EXCEPT !.at = "tenants", !.todo = {f \in Firms : status[f] = "active"}]
  <2>1. j \in JobRow /\ j.schedule = job[b].schedule
    BY <1>1 DEF JobRow
  <2>2. job' = [job EXCEPT ![b] = j]
    BY <1>4 DEF ListFirms
  <2> QED
    BY <1>1, <1>4, <2>1, <2>2, JobStep DEF ListFirms, At
<1>5. CASE BackupTenant(b)
  <2>1. PICK f : \E entry \in {Failed} \cup (IF f \in spaces THEN {data[f]} \ {Missing} ELSE {}) :
                   job' = [job EXCEPT ![b].todo = @ \ {f}, ![b].tenants[f] = entry]
    BY <1>5 DEF BackupTenant
  <2>2. PICK entry \in {Failed} \cup (IF f \in spaces THEN {data[f]} \ {Missing} ELSE {}) :
                   job' = [job EXCEPT ![b].todo = @ \ {f}, ![b].tenants[f] = entry]
    BY <2>1
  <2>3. entry \in Entries
    BY <2>2, EntriesAre DEF Entries
  <2> DEFINE j == [job[b] EXCEPT !.todo = @ \ {f}, !.tenants[f] = entry]
  <2>4. j \in JobRow /\ j.schedule = job[b].schedule
    BY <1>1, <2>3 DEF JobRow
  <2>5. job' = [job EXCEPT ![b] = j]
    BY <2>2
  <2> QED
    BY <1>1, <1>5, <2>4, <2>5, JobStep DEF BackupTenant, At
<1>6. CASE WriteManifest(b)
  BY <1>6, TypesWriteManifest
<1>7. CASE ApplyRetention(b)
  BY <1>7, TypesApplyRetention
<1>8. CASE BackupDies(b)
  BY <1>8, NoJobIsJob, JobStep DEF BackupDies
<1> QED
  BY <1>2, <1>3, <1>4, <1>5, <1>6, <1>7, <1>8 DEF Backup

LEMMA TypesNewDay == Types /\ NewDay => Types'
<1> SUFFICES ASSUME Types, NewDay PROVE Types'
  OBVIOUS
<1> DEFINE older(i) == [runs[i] EXCEPT !.age = IF @ > Keep[runs[i].schedule] THEN @ ELSE @ + 1]
<1>1. runs' = [i \in DOMAIN runs |-> older(i)] /\ UNCHANGED <<registry, data, job, restore>>
  BY DEF NewDay
<1>2. \A i \in DOMAIN runs : older(i) \in RunRow /\ Manifest(older(i))
  <2> SUFFICES ASSUME NEW i \in DOMAIN runs PROVE older(i) \in RunRow /\ Manifest(older(i))
    OBVIOUS
  <2>1. runs[i] \in RunRow /\ Manifest(runs[i])
    BY RunsAre DEF Types
  <2>2. Keep[runs[i].schedule] \in Nat
    BY <2>1, ConstantsTyped DEF RunRow
  <2> QED
    BY <2>1, <2>2 DEF RunRow, Manifest
<1> HIDE DEF older
<1>3. Manifests' /\ Len(runs') = Len(runs) /\ DOMAIN runs' = DOMAIN runs
  BY <1>1, <1>2, RunsRewritten
<1> QED
  BY <1>1, <1>3 DEF Types, Registry, registry, Jobs, At, Restoring, Resting

LEMMA TypesRestore == Types /\ Restore => Types'
<1> SUFFICES ASSUME Types, Restore PROVE Types'
  OBVIOUS
<1>1. UNCHANGED <<job, runs, created>> /\ Jobs' /\ Manifests'
  BY DEF Types, Restore, RestoreOf, StartRestore, RestorePlatform, RestoreTenant, RestoreStops,
     RestoreEnds, RestoreDies, registry, Jobs, At, Manifests
<1>2. DOMAIN runs = 1..Len(runs) /\ Len(runs) \in Nat
  BY RunsAre DEF Types
<1>3. ASSUME NEW i \in DOMAIN runs, RestoreOf(i) PROVE Types'
  <2>1. PICK what \in {"full", "platform", "tenant"}, todo \in SUBSET Firms :
          StartRestore(i, what, todo)
    BY <1>3 DEF RestoreOf
  <2>2. Restoring'
    BY <1>1, <1>2, <2>1 DEF StartRestore, Restoring, RestoreRow
  <2> QED
    BY <1>1, <2>1, <2>2 DEF StartRestore, Types, Registry, registry
<1>4. CASE RestorePlatform
  <2>1. ~Resting
    BY <1>4 DEF RestorePlatform, Resting, NoRestore
  <2>2. runs[restore.run] \in RunRow
    BY <2>1, RunsAre DEF Types, Restoring
  <2>3. runs[restore.run].copy \in Copies
    BY <2>2 DEF RunRow
  <2>4. status' = runs[restore.run].copy.status /\ spaces' = runs[restore.run].copy.spaces
    BY <1>4 DEF RestorePlatform
  <2>5. Registry'
    BY <1>1, <2>3, <2>4 DEF Copies, Types, Registry
  <2>6. Restoring'
    BY <1>1, <1>4, <2>1 DEF RestorePlatform, Types, Restoring, RestoreRow, Resting
  <2> QED
    BY <1>1, <1>4, <2>5, <2>6 DEF RestorePlatform, Types
<1>5. CASE RestoreTenant
  <2> DEFINE f == NextTenant
             entry == runs[restore.run].tenants[f]
  <2>1. ~Resting
    BY <1>5 DEF RestoreTenant, Resting, NoRestore
  <2>2. /\ Valid(restore.run, entry) /\ f \in spaces
        /\ data' = [data EXCEPT ![f] = entry]
        /\ restore' = [restore EXCEPT !.todo = @ \ {f}]
        /\ UNCHANGED registry
    BY <1>5 DEF RestoreTenant
  <2>3. runs[restore.run] \in RunRow /\ f \in Firms
    BY <2>1, <2>2, RunsAre DEF Types, Restoring, Registry
  <2>4. entry \in 0..MaxEdits
    BY <2>2, <2>3 DEF RunRow, Valid, Entries
  <2> HIDE DEF f, entry
  <2>5. data' \in [Firms -> Missing..MaxEdits]
    BY <2>2, <2>3, <2>4, ConstantsTyped DEF Types
  <2>6. Restoring'
    BY <1>1, <2>1, <2>2 DEF Types, Restoring, RestoreRow, Resting
  <2> QED
    BY <1>1, <2>2, <2>5, <2>6 DEF Types, Registry, registry
<1>6. CASE RestoreStops \/ RestoreEnds \/ RestoreDies
  <2>1. restore' = NoRestore /\ UNCHANGED <<registry, data>>
    BY <1>6 DEF RestoreStops, RestoreEnds, RestoreDies
  <2>2. Restoring'
    BY <1>1, <1>2, <2>1 DEF Restoring, RestoreRow, NoRestore, Resting
  <2> QED
    BY <1>1, <2>1, <2>2 DEF Types, Registry, registry
<1> QED
  BY <1>3, <1>4, <1>5, <1>6 DEF Restore

LEMMA TypesNext == Types /\ [Next]_vars => Types'
<1> SUFFICES ASSUME Types, [Next]_vars PROVE Types'
  OBVIOUS
<1>1. CASE UNCHANGED vars
  BY <1>1 DEF vars, registry, Types, Registry, Jobs, At, Manifests, Restoring, Resting
<1> QED
  BY <1>1, TypesServer, TypesBackup, TypesRestore, TypesNewDay DEF Next

-----------------------------------------------------------------------------
(* The bound on runs: each run under way has room for its manifest.         *)

Writing == {b \in Backers : job[b].at \in {"platform", "list", "tenants"}}
Busy == {b \in Backers : ~At(b, "idle")}

RoomLeft == Len(runs) + Cardinality(Writing) <= MaxRuns

LEMMA BackersFinite == ASSUME NEW S \in SUBSET Backers PROVE IsFiniteSet(S) /\ Cardinality(S) \in Nat
  BY BackupAssumption, FS_Subset, FS_CardinalityType DEF BackupAssumption

\* A process that stops writing, with or without a manifest.
LEMMA RoomKept ==
  ASSUME Types, RoomLeft, Writing' \subseteq Writing, Len(runs') = Len(runs)
  PROVE  RoomLeft'
<1>1. Cardinality(Writing') <= Cardinality(Writing)
  BY BackersFinite, FS_Subset DEF Writing
<1>2. Cardinality(Writing)' = Cardinality(Writing')
  OBVIOUS
<1> QED
  BY <1>1, <1>2, BackersFinite, RunsAre, ConstantsTyped DEF RoomLeft, Types, Writing

LEMMA RoomInit == Init => RoomLeft
<1> SUFFICES ASSUME Init PROVE RoomLeft
  OBVIOUS
<1>1. Writing = {} /\ Len(runs) = 0
  BY DEF Init, Writing, NoJob
<1> QED
  BY <1>1, FS_EmptySet, ConstantsTyped DEF RoomLeft

LEMMA RoomStart ==
  ASSUME Types, RoomLeft, NEW b \in Backers, NEW s \in Schedules, StartBackup(b, s)
  PROVE  RoomLeft'
<1>1. /\ At(b, "idle") /\ Len(runs) + Cardinality(Busy) < MaxRuns
      /\ UNCHANGED runs
  BY DEF StartBackup, Busy
<1>2. Writing' \subseteq Busy \cup {b}
  BY DEF StartBackup, Writing, Busy, At, Types, Jobs
<1>3. Cardinality(Busy \cup {b}) = Cardinality(Busy) + 1
  BY <1>1, BackersFinite, FS_AddElement DEF Busy
<1>4. Cardinality(Writing') <= Cardinality(Busy \cup {b})
  BY <1>2, BackersFinite, FS_Subset DEF Busy
<1>5. Cardinality(Writing)' = Cardinality(Writing')
  OBVIOUS
<1>6. Cardinality(Busy) \in Nat /\ Cardinality(Writing') \in Nat
  BY BackersFinite DEF Busy, Writing
<1> QED
  BY <1>1, <1>3, <1>4, <1>5, <1>6, RunsAre, ConstantsTyped DEF RoomLeft, Types

LEMMA RoomWrite ==
  ASSUME Types, RoomLeft, NEW b \in Backers, WriteManifest(b)
  PROVE  RoomLeft'
<1>1. b \in Writing /\ Writing' \subseteq Writing \ {b}
  BY DEF WriteManifest, Writing, At, Types, Jobs, NoJob
<1>2. Len(runs') = Len(runs) + 1
  BY DEF WriteManifest, Types, Manifests
<1>3. Cardinality(Writing \ {b}) = Cardinality(Writing) - 1
  BY <1>1, BackersFinite, FS_RemoveElement DEF Writing
<1>4. Cardinality(Writing') <= Cardinality(Writing \ {b})
  BY <1>1, BackersFinite, FS_Subset DEF Writing
<1>5. Cardinality(Writing)' = Cardinality(Writing')
  OBVIOUS
<1>6. Cardinality(Writing) \in Nat /\ Cardinality(Writing') \in Nat
  BY BackersFinite DEF Writing
<1> QED
  BY <1>2, <1>3, <1>4, <1>5, <1>6, RunsAre, ConstantsTyped DEF RoomLeft, Types

\* Neither the age of a run nor what is left of its files makes another.
LEMMA SameLength ==
  ASSUME Types, DOMAIN runs' = DOMAIN runs, runs' = [i \in DOMAIN runs |-> runs'[i]]
  PROVE  Len(runs') = Len(runs)
<1>1. DOMAIN runs = 1..Len(runs) /\ Len(runs) \in Nat
  BY RunsAre DEF Types
<1>2. runs' \in Seq({runs'[i] : i \in DOMAIN runs})
  BY <1>1, SeqDef
<1> QED
  BY <1>1, <1>2

LEMMA RoomNext == Types /\ RoomLeft /\ [Next]_vars => RoomLeft'
<1> SUFFICES ASSUME Types, RoomLeft, [Next]_vars PROVE RoomLeft'
  OBVIOUS
<1>1. CASE UNCHANGED <<job, runs>>
  BY <1>1 DEF RoomLeft, Writing
<1>2. ASSUME NEW b \in Backers, Backup(b) PROVE RoomLeft'
  <2>1. ASSUME NEW s \in Schedules, StartBackup(b, s) PROVE RoomLeft'
    BY <2>1, RoomStart
  <2>2. CASE WriteManifest(b)
    BY <2>2, RoomWrite
  <2>3. CASE BackupPlatform(b) \/ ListFirms(b) \/ BackupTenant(b) \/ BackupDies(b)
    <3>1. Writing' \subseteq Writing /\ runs' = runs
      BY <2>3 DEF BackupPlatform, ListFirms, BackupTenant, BackupDies, Writing, At, NoJob,
         Types, Jobs
    <3> QED
      BY <3>1, RoomKept
  <2>4. CASE ApplyRetention(b)
    <3>1. Writing' \subseteq Writing
      BY <2>4 DEF ApplyRetention, Writing, At, NoJob, Types, Jobs
    <3>2. Len(runs') = Len(runs)
      BY <2>4, SameLength DEF ApplyRetention
    <3> QED
      BY <3>1, <3>2, RoomKept
  <2> QED
    BY <1>2, <2>1, <2>2, <2>3, <2>4 DEF Backup
<1>3. CASE NewDay
  <2>1. Len(runs') = Len(runs) /\ job' = job
    BY <1>3, SameLength DEF NewDay
  <2>2. Writing' = Writing
    BY <2>1 DEF Writing
  <2> QED
    BY <2>1, <2>2, RoomKept
<1>4. CASE Server \/ Restore
  BY <1>1, <1>4 DEF Server, CreateFirm, CreateWorkspace, UpdateFirmStatus, Edit, Restore, RestoreOf,
     StartRestore, RestorePlatform, RestoreTenant, RestoreStops, RestoreEnds, RestoreDies
<1> QED
  BY <1>1, <1>2, <1>3, <1>4 DEF Next, vars

-----------------------------------------------------------------------------
(* Retention.                                                               *)

\* A later run of a schedule is no older.
AgesFall ==
    \A i, j \in DOMAIN runs :
        i <= j /\ runs[i].schedule = runs[j].schedule => runs[j].age <= runs[i].age

\* Retention comes on the day of the run it follows.
RetentionToday ==
    \A b \in Backers : At(b, "retention") =>
        \E j \in DOMAIN runs : runs[j].schedule = job[b].schedule /\ runs[j].age = 0

Retention == AgesFall /\ RetentionToday /\ LastRunWhole

\* A step that takes no run away and lets none grow older or go.
LEMMA RetentionKept ==
  ASSUME Types, Retention, UNCHANGED runs,
         \A b \in Backers : At(b, "retention")' =>
             At(b, "retention") /\ job'[b].schedule = job[b].schedule
  PROVE  Retention'
  BY DEF Retention, AgesFall, RetentionToday, LastRunWhole, At

LEMMA RetentionWrite ==
  ASSUME Types, Retention, NEW b \in Backers, WriteManifest(b)
  PROVE  Retention'
<1> DEFINE n == Len(runs) + 1
<1>1. DOMAIN runs = 1..Len(runs) /\ Len(runs) \in Nat
      /\ \A i \in DOMAIN runs : runs[i].age \in Nat
  BY RunsAre DEF Types, RunRow
<1>2. PICK run : runs' = Append(runs, run) /\ run.schedule = job[b].schedule
                   /\ run.age = 0 /\ run.kept = TRUE
  BY DEF WriteManifest
<1>3. /\ DOMAIN runs' = 1..n /\ runs'[n] = run
      /\ \A i \in DOMAIN runs : runs'[i] = runs[i]
  BY <1>1, <1>2 DEF Types, Manifests
<1>4. \A i \in DOMAIN runs' : i \in DOMAIN runs \/ i = n
  BY <1>1, <1>3
<1>5. \A i \in DOMAIN runs : i \in DOMAIN runs' /\ i < n
  BY <1>1, <1>3
<1>6. n \in DOMAIN runs'
  BY <1>1, <1>3
<1> HIDE DEF n
<1>7. AgesFall'
  <2> SUFFICES ASSUME NEW i \in DOMAIN runs', NEW j \in DOMAIN runs',
                      i <= j, runs'[i].schedule = runs'[j].schedule
               PROVE  runs'[j].age <= runs'[i].age
    BY DEF AgesFall
  <2>1. runs'[i].age \in Nat
    BY <1>1, <1>2, <1>3, <1>4
  <2>2. CASE j = n
    BY <1>2, <1>3, <2>1, <2>2
  <2>3. CASE j \in DOMAIN runs
    <3>1. i \in DOMAIN runs
      BY <1>1, <1>4, <1>5, <2>3
    <3> QED
      BY <1>3, <2>3, <3>1 DEF Retention, AgesFall
  <2> QED
    BY <1>4, <2>2, <2>3
<1>8. RetentionToday'
  <2> SUFFICES ASSUME NEW c \in Backers, At(c, "retention")'
               PROVE  \E j \in DOMAIN runs' : runs'[j].schedule = job'[c].schedule /\ runs'[j].age = 0
    BY DEF RetentionToday
  <2>1. CASE c = b
    <3>1. job'[b].schedule = job[b].schedule
      BY DEF WriteManifest, Types, Jobs, NoJob
    <3> QED
      BY <1>2, <1>3, <1>6, <2>1, <3>1
  <2>2. CASE c # b
    <3>1. job'[c] = job[c]
      BY <2>2 DEF WriteManifest, Types, Jobs
    <3>2. PICK j \in DOMAIN runs : runs[j].schedule = job[c].schedule /\ runs[j].age = 0
      BY <3>1 DEF Retention, RetentionToday, At
    <3> QED
      BY <1>3, <1>5, <3>1, <3>2
  <2> QED
    BY <2>1, <2>2
<1>9. LastRunWhole'
  <2> SUFFICES ASSUME NEW i \in DOMAIN runs', ~runs'[i].kept
               PROVE  \E j \in DOMAIN runs' : j > i /\ runs'[j].schedule = runs'[i].schedule
    BY DEF LastRunWhole
  <2>1. i \in DOMAIN runs
    BY <1>2, <1>3, <1>4
  <2>2. PICK j \in DOMAIN runs : j > i /\ runs[j].schedule = runs[i].schedule
    BY <1>3, <2>1 DEF Retention, LastRunWhole
  <2> QED
    BY <1>3, <1>5, <2>1, <2>2
<1> QED
  BY <1>7, <1>8, <1>9 DEF Retention

LEMMA RetentionApply ==
  ASSUME Types, Retention, NEW b \in Backers, ApplyRetention(b)
  PROVE  Retention'
<1>1. /\ DOMAIN runs' = DOMAIN runs
      /\ \A i \in DOMAIN runs :
            /\ runs'[i].schedule = runs[i].schedule /\ runs'[i].age = runs[i].age
            /\ ~runs'[i].kept => ~runs[i].kept \/ (/\ runs[i].schedule = job[b].schedule
                                                   /\ runs[i].age > Keep[job[b].schedule])
  <2>1. \A i \in DOMAIN runs : runs[i] \in RunRow
    BY RunsAre DEF Types
  <2> QED
    BY <2>1 DEF ApplyRetention, RunRow
<1>2. \A c \in Backers : At(c, "retention")' => At(c, "retention") /\ job'[c].schedule = job[c].schedule
  BY DEF ApplyRetention, At, Types, Jobs, NoJob
<1>3. AgesFall' /\ RetentionToday'
  BY <1>1, <1>2 DEF Retention, AgesFall, RetentionToday
<1>4. LastRunWhole'
  <2> SUFFICES ASSUME NEW i \in DOMAIN runs', ~runs'[i].kept
               PROVE  \E j \in DOMAIN runs' : j > i /\ runs'[j].schedule = runs'[i].schedule
    BY DEF LastRunWhole
  <2>1. CASE ~runs[i].kept
    BY <1>1, <2>1 DEF Retention, LastRunWhole
  <2>2. CASE runs[i].schedule = job[b].schedule /\ runs[i].age > Keep[job[b].schedule]
    <3>1. PICK j \in DOMAIN runs : runs[j].schedule = job[b].schedule /\ runs[j].age = 0
      BY DEF ApplyRetention, Retention, RetentionToday
    <3>2. job[b].schedule \in Schedules
      BY DEF ApplyRetention, At, Types, Jobs
    <3>3. Keep[job[b].schedule] \in Nat /\ runs[i].age \in Nat
      BY <1>1, <3>2, ConstantsTyped, RunsAre DEF Types, RunRow
    <3>4. DOMAIN runs \subseteq Nat
      BY RunsAre DEF Types
    <3>5. ~(j <= i)
      BY <1>1, <2>2, <3>1, <3>3 DEF Retention, AgesFall
    <3> QED
      BY <1>1, <2>2, <3>1, <3>4, <3>5
  <2> QED
    BY <1>1, <2>1, <2>2
<1> QED
  BY <1>3, <1>4 DEF Retention

LEMMA RetentionNewDay == Types /\ Retention /\ NewDay => Retention'
<1> SUFFICES ASSUME Types, Retention, NewDay PROVE Retention'
  OBVIOUS
<1>1. \A i \in DOMAIN runs : runs[i] \in RunRow /\ Keep[runs[i].schedule] \in Nat
  BY RunsAre, ConstantsTyped DEF Types, RunRow
<1>2. /\ DOMAIN runs' = DOMAIN runs
      /\ \A i \in DOMAIN runs :
            /\ runs'[i].schedule = runs[i].schedule /\ runs'[i].kept = runs[i].kept
            /\ runs'[i].age = IF runs[i].age > Keep[runs[i].schedule]
                              THEN runs[i].age ELSE runs[i].age + 1
  BY <1>1 DEF NewDay, RunRow
<1>3. AgesFall'
  <2> SUFFICES ASSUME NEW i \in DOMAIN runs, NEW j \in DOMAIN runs,
                      i <= j, runs'[i].schedule = runs'[j].schedule
               PROVE  runs'[j].age <= runs'[i].age
    BY <1>2 DEF AgesFall
  <2>1. runs[i].schedule = runs[j].schedule /\ runs[j].age <= runs[i].age
    BY <1>2 DEF Retention, AgesFall
  <2>2. runs[i].age \in Nat /\ runs[j].age \in Nat /\ Keep[runs[i].schedule] \in Nat
    BY <1>1 DEF RunRow
  <2> QED
    BY <1>2, <2>1, <2>2
<1>4. RetentionToday'
  BY DEF NewDay, RetentionToday, At
<1>5. LastRunWhole'
  BY <1>2 DEF Retention, LastRunWhole
<1> QED
  BY <1>3, <1>4, <1>5 DEF Retention

LEMMA RetentionNext == Types /\ Retention /\ [Next]_vars => Retention'
<1> SUFFICES ASSUME Types, Retention, [Next]_vars PROVE Retention'
  OBVIOUS
<1>1. CASE UNCHANGED <<job, runs>>
  BY <1>1, RetentionKept DEF At
<1>2. ASSUME NEW b \in Backers, Backup(b) PROVE Retention'
  <2>1. CASE WriteManifest(b)
    BY <2>1, RetentionWrite
  <2>2. CASE ApplyRetention(b)
    BY <2>2, RetentionApply
  <2>3. CASE \/ \E s \in Schedules : StartBackup(b, s)
             \/ BackupPlatform(b) \/ ListFirms(b) \/ BackupTenant(b) \/ BackupDies(b)
    <3>1. UNCHANGED runs /\ \A c \in Backers \ {b} : job'[c] = job[c]
      BY <2>3 DEF StartBackup, BackupPlatform, ListFirms, BackupTenant, BackupDies, Types, Jobs
    <3>2. job'[b].at # "retention"
      <4>1. CASE BackupTenant(b)
        <5>1. PICK f : \E entry \in {Failed} \cup (IF f \in spaces THEN {data[f]} \ {Missing} ELSE {}) :
                         job' = [job EXCEPT ![b].todo = @ \ {f}, ![b].tenants[f] = entry]
          BY <4>1 DEF BackupTenant
        <5>2. job'[b].at = job[b].at
          BY <5>1 DEF Types, Jobs, JobRow
        <5> QED
          BY <4>1, <5>2 DEF BackupTenant, At
      <4>2. ASSUME NEW s \in Schedules, StartBackup(b, s)
            PROVE  job'[b].at # "retention"
        BY <4>2 DEF StartBackup, NoJob, Types, Jobs
      <4>3. CASE BackupPlatform(b)
        BY <4>3 DEF BackupPlatform, Types, Jobs, JobRow
      <4>4. CASE ListFirms(b)
        BY <4>4 DEF ListFirms, Types, Jobs, JobRow
      <4>5. CASE BackupDies(b)
        BY <4>5 DEF BackupDies, NoJob, Types, Jobs
      <4> QED
        BY <2>3, <4>1, <4>2, <4>3, <4>4, <4>5
    <3>3. \A c \in Backers : At(c, "retention")' =>
             At(c, "retention") /\ job'[c].schedule = job[c].schedule
      BY <3>1, <3>2 DEF At
    <3> QED
      BY <3>1, <3>3, RetentionKept
  <2> QED
    BY <1>2, <2>1, <2>2, <2>3 DEF Backup
<1>3. CASE Server \/ Restore
  BY <1>1, <1>3 DEF Server, CreateFirm, CreateWorkspace, UpdateFirmStatus, Edit, Restore, RestoreOf,
     StartRestore, RestorePlatform, RestoreTenant, RestoreStops, RestoreEnds, RestoreDies
<1> QED
  BY <1>1, <1>2, <1>3, RetentionNewDay DEF Next, vars

-----------------------------------------------------------------------------
(* The full restore.                                                        *)

\* A full restore takes only entries that succeeded, and once the registry is
\* the run's copy it has every workspace of that copy: servers only add some.
FullRestore ==
    ~Resting /\ restore.what = "full" =>
        LET run == runs[restore.run]
        IN  /\ \A f \in restore.todo : run.tenants[f] >= 0
            /\ restore.at = "tenants" => run.copy.spaces \subseteq spaces

\* A manifest's entries and copy are never rewritten.
LEMMA EntriesStay ==
  ASSUME Types, [Next]_vars
  PROVE  /\ DOMAIN runs \subseteq DOMAIN runs'
         /\ \A i \in DOMAIN runs : /\ runs'[i].tenants = runs[i].tenants
                                   /\ runs'[i].copy = runs[i].copy
<1>1. /\ runs \in Seq(RunRow) /\ DOMAIN runs = 1..Len(runs) /\ Len(runs) \in Nat
      /\ \A i \in DOMAIN runs : runs[i] \in RunRow
  BY RunsAre DEF Types, Manifests
<1>2. CASE UNCHANGED runs
  BY <1>2
<1>3. ASSUME NEW b \in Backers, WriteManifest(b)
      PROVE  \E run : runs' = Append(runs, run)
  BY <1>3 DEF WriteManifest
<1>4. ASSUME NEW run, runs' = Append(runs, run)
      PROVE  DOMAIN runs \subseteq DOMAIN runs' /\ \A i \in DOMAIN runs : runs'[i] = runs[i]
  BY <1>1, <1>4
<1>5. CASE NewDay
  <2> DEFINE age(i) == IF runs[i].age > Keep[runs[i].schedule] THEN runs[i].age ELSE runs[i].age + 1
  <2>1. runs' = [i \in DOMAIN runs |-> [runs[i] EXCEPT !.age = age(i)]]
    BY <1>5 DEF NewDay
  <2> HIDE DEF age
  <2>2. DOMAIN runs' = DOMAIN runs /\ \A i \in DOMAIN runs : runs'[i] = [runs[i] EXCEPT !.age = age(i)]
    BY <2>1
  <2>3. ASSUME NEW i \in DOMAIN runs
        PROVE  runs'[i].tenants = runs[i].tenants /\ runs'[i].copy = runs[i].copy
    <3>1. runs[i] \in RunRow /\ runs'[i] = [runs[i] EXCEPT !.age = age(i)]
      BY <1>1, <2>2
    <3> QED
      BY <3>1 DEF RunRow
  <2> QED
    BY <2>2, <2>3
<1>6. ASSUME NEW b \in Backers, ApplyRetention(b)
       PROVE  /\ DOMAIN runs' = DOMAIN runs
              /\ \A i \in DOMAIN runs : runs'[i] \in {runs[i], [runs[i] EXCEPT !.kept = FALSE]}
  BY <1>6 DEF ApplyRetention
<1>7. CASE NewDay \/ \E b \in Backers : ApplyRetention(b)
  <2>1. CASE \E b \in Backers : ApplyRetention(b)
    <3>1. PICK b \in Backers : ApplyRetention(b)
      BY <2>1
    <3>2. ASSUME NEW i \in DOMAIN runs
          PROVE  runs'[i].tenants = runs[i].tenants /\ runs'[i].copy = runs[i].copy
      <4>1. runs[i] \in RunRow /\ runs'[i] \in {runs[i], [runs[i] EXCEPT !.kept = FALSE]}
        BY <1>1, <1>6, <3>1
      <4> QED
        BY <4>1 DEF RunRow
    <3> QED
      BY <1>6, <3>1, <3>2
  <2> QED
    BY <1>7, <1>5, <2>1
<1>8. CASE \E b \in Backers : WriteManifest(b)
  BY <1>3, <1>4, <1>8
<1>9. UNCHANGED runs \/ NewDay \/ (\E b \in Backers : ApplyRetention(b))
        \/ (\E b \in Backers : WriteManifest(b))
  BY DEF Next, vars, Backup, StartBackup, BackupPlatform, ListFirms, BackupTenant, BackupDies,
     Server, CreateFirm, CreateWorkspace, UpdateFirmStatus, Edit, Restore, RestoreOf,
     StartRestore, RestorePlatform, RestoreTenant, RestoreStops, RestoreEnds, RestoreDies
<1> QED
  BY <1>2, <1>7, <1>8, <1>9

\* Whatever happens beside it, a restore under way goes on as it was.
LEMMA FullRestoreGoesOn ==
  ASSUME Types, FullRestore, [Next]_vars, UNCHANGED restore, spaces \subseteq spaces'
  PROVE  FullRestore'
<1> SUFFICES ASSUME ~Resting, restore.what = "full"
             PROVE  LET run == runs'[restore.run]
                    IN  /\ \A f \in restore.todo : run.tenants[f] >= 0
                        /\ restore.at = "tenants" => run.copy.spaces \subseteq spaces'
  BY DEF FullRestore, Resting
<1>1. restore.run \in DOMAIN runs
  BY DEF Types, Restoring
<1> QED
  BY <1>1, EntriesStay DEF FullRestore

LEMMA FullRestoreNext == Types /\ FullRestore /\ [Next]_vars => FullRestore'
<1> SUFFICES ASSUME Types, FullRestore, [Next]_vars PROVE FullRestore'
  OBVIOUS
<1>1. CASE ~Restore
  <2>1. UNCHANGED restore /\ spaces \subseteq spaces'
    BY <1>1 DEF Next, vars, registry, Backup, StartBackup, BackupPlatform, ListFirms, BackupTenant,
       WriteManifest, ApplyRetention, BackupDies, NewDay, Server, CreateFirm, CreateWorkspace,
       UpdateFirmStatus, Edit
  <2> QED
    BY <2>1, FullRestoreGoesOn
<1>2. ASSUME NEW i \in DOMAIN runs, RestoreOf(i) PROVE FullRestore'
  <2>1. PICK what \in {"full", "platform", "tenant"}, todo \in SUBSET Firms :
          /\ StartRestore(i, what, todo)
          /\ what = "full" => todo = {f \in Firms : runs[i].tenants[f] >= 0}
    <3>1. CASE StartRestore(i, "full", {f \in Firms : runs[i].tenants[f] >= 0})
      <4> DEFINE all == {f \in Firms : runs[i].tenants[f] >= 0}
      <4>1. all \in SUBSET Firms
        OBVIOUS
      <4> QED
        BY <3>1, <4>1
    <3>2. CASE StartRestore(i, "platform", {})
      BY <3>2, "platform" # "full"
    <3>3. ASSUME NEW f \in Firms, StartRestore(i, "tenant", {f})
          PROVE  \E what \in {"full", "platform", "tenant"}, todo \in SUBSET Firms :
                    /\ StartRestore(i, what, todo)
                    /\ what = "full" => todo = {g \in Firms : runs[i].tenants[g] >= 0}
      <4>1. {f} \in SUBSET Firms /\ "tenant" # "full"
        OBVIOUS
      <4> QED
        BY <3>3, <4>1
    <3> QED
      BY <1>2, <3>1, <3>2, <3>3 DEF RestoreOf
  <2> QED
    BY <2>1 DEF StartRestore, FullRestore
<1>3. CASE RestorePlatform
  <2>1. ~Resting /\ restore \in RestoreRow /\ UNCHANGED runs
        /\ restore' = [restore EXCEPT !.at = "tenants"]
        /\ spaces' = runs[restore.run].copy.spaces
    BY <1>3 DEF RestorePlatform, Resting, NoRestore, Types, Restoring
  <2> QED
    BY <2>1 DEF FullRestore, RestoreRow
<1>4. CASE RestoreTenant
  <2>1. ~Resting /\ restore \in RestoreRow /\ UNCHANGED <<runs, spaces>>
        /\ restore' = [restore EXCEPT !.todo = @ \ {NextTenant}]
    BY <1>4 DEF RestoreTenant, Resting, NoRestore, Types, Restoring, registry
  <2> QED
    BY <2>1 DEF FullRestore, RestoreRow
<1>5. CASE RestoreStops \/ RestoreEnds \/ RestoreDies
  BY <1>5 DEF RestoreStops, RestoreEnds, RestoreDies, FullRestore, Resting
<1> QED
  BY <1>1, <1>2, <1>3, <1>4, <1>5 DEF Restore

\* The lowest of some firms is one of them.
LEMMA LeastFirm ==
  ASSUME NEW S \in SUBSET Firms, S # {}
  PROVE  (CHOOSE f \in S : \A g \in S : f <= g) \in S
<1> DEFINE R == OpToRel(<, Nat)
<1>1. S \subseteq Nat
  BY BackupAssumption DEF BackupAssumption
<1>2. IsWellFoundedOn(R, Nat)
  BY NatLessThanWellFounded
<1>3. \A u, v \in Nat : <<v, u>> \in R <=> v < u
  BY DEF OpToRel
<1> HIDE DEF R
<1>4. PICK f \in S : \A g \in S : ~(<<g, f>> \in R)
  BY <1>1, <1>2, WFMin
<1>5. \A g \in S : ~(g < f)
  BY <1>1, <1>3, <1>4
<1>6. \A g \in S : f <= g
  BY <1>1, <1>5
<1> QED
  BY <1>6

\* The tenant taken next is one that is still to do.
LEMMA NextIsToDo == ASSUME Types, restore.todo # {} PROVE NextTenant \in restore.todo
  BY LeastFirm DEF NextTenant, Types, Restoring, RestoreRow

-----------------------------------------------------------------------------
Backups == Types /\ RoomLeft /\ Retention /\ FullRestore

LEMMA BackupsInit == Init => Backups
<1> SUFFICES ASSUME Init PROVE Backups
  OBVIOUS
<1>1. Retention
  BY DEF Init, Retention, AgesFall, RetentionToday, LastRunWhole, At, NoJob
<1>2. FullRestore
  BY DEF Init, FullRestore, Resting
<1> QED
  BY <1>1, <1>2, TypesInit, RoomInit DEF Backups

LEMMA BackupsAlways == Spec => []Backups
<1>1. Backups /\ [Next]_vars => Backups'
  BY TypesNext, RoomNext, RetentionNext, FullRestoreNext DEF Backups
<1> QED
  BY <1>1, BackupsInit, PTL DEF Spec

LEMMA BackupsTyped == Backups => TypeOK
<1> SUFFICES ASSUME Backups PROVE TypeOK
  OBVIOUS
<1>1. Len(runs) <= MaxRuns /\ DOMAIN runs = 1..Len(runs)
  BY BackersFinite, RunsAre, ConstantsTyped DEF Backups, RoomLeft, Types, Writing
<1>2. \A i \in DOMAIN runs :
         /\ runs[i].success => runs[i].platform /\ Failed \notin {runs[i].tenants[f] : f \in Firms}
         /\ runs[i].kept \in BOOLEAN
         /\ runs[i].age \in 0..(Keep[runs[i].schedule] + 1)
  BY RunsAre, ConstantsTyped DEF Backups, Types, RunRow, Manifest
<1> QED
  BY <1>1, <1>2 DEF Backups, Types, Registry, Restoring, Statuses, TypeOK

\* However runs, restores and servers interleave, the tables and manifests keep
\* to their columns, a run that succeeded has every entry it lists, and no run
\* is begun without room for its manifest (service.py, run_backup).
THEOREM TypeCorrect == Spec => []TypeOK
  BY BackupsAlways, BackupsTyped, PTL

\* Whatever the ages and schedules, retention leaves the newest run of each
\* schedule its files (service.py, apply_retention).
THEOREM NewestKept == Spec => []LastRunWhole
<1>1. Backups => LastRunWhole
  BY DEF Backups, Retention
<1> QED
  BY <1>1, BackupsAlways, PTL

\* A full restore stops half-way only for want of a file or of a workspace that
\* the run's own copy of platform.db lacks (restore.py, restore_full).
THEOREM HalfRestores == Spec => HalfRestoreCauses
<1> DEFINE Caused ==
      restore.what = "full" /\ restore.at = "tenants" /\ RestoreStops =>
          \/ ~runs[restore.run].kept
          \/ NextTenant \notin runs[restore.run].copy.spaces
<1>1. Backups => Caused
  <2> SUFFICES ASSUME Backups, restore.what = "full", restore.at = "tenants", RestoreStops,
                      runs[restore.run].kept
               PROVE  NextTenant \notin runs[restore.run].copy.spaces
    OBVIOUS
  <2> DEFINE run == runs[restore.run]
             f == NextTenant
  <2>1. restore.todo # {} /\ (~Valid(restore.run, run.tenants[f]) \/ f \notin spaces)
    BY DEF RestoreStops
  <2>2. f \in restore.todo /\ ~Resting
    BY <2>1, NextIsToDo DEF Backups, Resting, NoRestore
  <2>3. run.tenants[f] >= 0 /\ run.copy.spaces \subseteq spaces
    BY <2>2 DEF Backups, FullRestore
  <2>4. Valid(restore.run, run.tenants[f])
    BY <2>3, ConstantsTyped DEF Valid, Absent, Failed
  <2> QED
    BY <2>1, <2>3, <2>4
<1> HIDE DEF Caused
<1>2. Spec => [][Caused]_vars
  BY <1>1, BackupsAlways, PTL DEF Spec
<1> QED
  BY <1>2 DEF HalfRestoreCauses, Caused

-----------------------------------------------------------------------------
(* Runs and restores one at a time.                                         *)

Actives == {f \in Firms : status[f] = "active"}

Snapshot == [status |-> status, spaces |-> spaces]

\* A run's entries are of the active firms it has come to, and its copy of
\* platform.db is still how the registry is.
CopyInOrder(j) ==
    /\ j.at = "platform" => ~j.platform
    /\ j.at \in {"platform", "list"} => \A f \in Firms : j.tenants[f] = Absent
    /\ j.at \in {"list", "tenants"} /\ j.platform => j.copy = Snapshot
    /\ j.at = "tenants" =>
          /\ j.todo \subseteq Actives
          /\ \A f \in Firms : f \notin Actives \/ f \in j.todo => j.tenants[f] = Absent
          /\ \A f \in Actives \ j.todo :
                j.tenants[f] = Failed \/ (f \in spaces /\ j.tenants[f] >= 0)

\* A successful run holds what its copy of platform.db has as active.
RunWhole(run) ==
    run.success =>
        {f \in Firms : run.tenants[f] >= 0} =
            {f \in run.copy.spaces : run.copy.status[f] = "active"}

RunsWhole == \A i \in DOMAIN runs : RunWhole(runs[i])

\* A full restore has put back what it has come to.
RestoreInOrder ==
    ~Resting /\ restore.what = "full" =>
        /\ restore.at = "platform" =>
              restore.todo = {f \in Firms : runs[restore.run].tenants[f] >= 0}
        /\ restore.at = "tenants" =>
              /\ Snapshot = runs[restore.run].copy
              /\ \A f \in Firms \ restore.todo :
                    runs[restore.run].tenants[f] >= 0 => data[f] = runs[restore.run].tenants[f]

OneAtATime ==
    /\ ~Resting => BackupsIdle
    /\ \A b, c \in Backers : ~At(b, "idle") /\ ~At(c, "idle") => b = c

OrderInv == OneAtATime /\ RunsWhole /\ RestoreInOrder /\ \A b \in Backers : CopyInOrder(job[b])

LEMMA IdleInOrder == ASSUME NEW j, j.at \in {"idle", "retention"} PROVE CopyInOrder(j) /\ CopyInOrder(j)'
  BY DEF CopyInOrder

LEMMA OrderInit == Init => OrderInv
<1> SUFFICES ASSUME Init PROVE OrderInv
  OBVIOUS
<1>1. OneAtATime
  BY DEF Init, OneAtATime, Resting, At, NoJob
<1>2. RunsWhole /\ RestoreInOrder
  BY DEF Init, RunsWhole, RestoreInOrder, Resting
<1>3. \A b \in Backers : CopyInOrder(job[b])
  BY IdleInOrder DEF Init, NoJob
<1> QED
  BY <1>1, <1>2, <1>3 DEF OrderInv

LEMMA OrderServer ==
  ASSUME Types, OrderInv, Server, BackupsIdle, Resting
  PROVE  OrderInv'
<1>1. UNCHANGED <<job, runs, restore>>
  BY DEF Server, CreateFirm, CreateWorkspace, UpdateFirmStatus, Edit
<1>2. \A b \in Backers : CopyInOrder(job[b])'
  BY <1>1 DEF BackupsIdle, At, CopyInOrder
<1>3. OneAtATime' /\ RunsWhole' /\ RestoreInOrder'
  BY <1>1 DEF OrderInv, OneAtATime, Resting, BackupsIdle, At, RunsWhole, RunWhole, RestoreInOrder
<1> QED
  BY <1>2, <1>3 DEF OrderInv

\* A step of the one run under way: what it leaves of its job is in order.
LEMMA OrderJob ==
  ASSUME Types, OrderInv, NEW b \in Backers, NEW j, job' = [job EXCEPT ![b] = j],
         CopyInOrder(j), UNCHANGED <<registry, data, runs, restore>>, Resting,
         \A c \in Backers \ {b} : At(c, "idle")
  PROVE  OrderInv'
<1>1. job'[b] = j /\ \A c \in Backers \ {b} : job'[c] = job[c]
  BY DEF Types, Jobs
<1>2. Snapshot' = Snapshot /\ Actives' = Actives /\ spaces' = spaces
  BY DEF Snapshot, Actives, registry
<1>3. CopyInOrder(job[b])'
  BY <1>1, <1>2 DEF CopyInOrder
<1>4. \A c \in Backers \ {b} : CopyInOrder(job[c])'
  BY <1>1 DEF At, CopyInOrder
<1>5. OneAtATime'
  BY <1>1 DEF OneAtATime, Resting, At
<1>6. RunsWhole' /\ RestoreInOrder'
  BY DEF OrderInv, RunsWhole, RunWhole, RestoreInOrder, Resting
<1> QED
  BY <1>3, <1>4, <1>5, <1>6 DEF OrderInv

LEMMA RunIs ==
  ASSUME Types, OrderInv, NEW b \in Backers
  PROVE  job[b] \in JobRow /\ CopyInOrder(job[b])
  BY DEF Types, Jobs, OrderInv

LEMMA OrderBackupPlatform ==
  ASSUME Types, OrderInv, NEW b \in Backers, BackupPlatform(b), Resting,
         \A c \in Backers \ {b} : At(c, "idle")
  PROVE  OrderInv'
<1>1. job[b] \in JobRow /\ CopyInOrder(job[b]) /\ job[b].at = "platform"
  BY RunIs DEF BackupPlatform, At
<1>2. PICK j \in {[job[b] EXCEPT !.at = "list", !.platform = TRUE, !.copy = Snapshot],
                  [job[b] EXCEPT !.at = "list"]} :
        job' = [job EXCEPT ![b] = j] /\ UNCHANGED <<registry, data, runs, restore>>
  BY DEF BackupPlatform, Snapshot
<1>3. /\ j.at = "list" /\ j.tenants = job[b].tenants
      /\ j.platform => j.copy = Snapshot
  BY <1>1, <1>2 DEF CopyInOrder, JobRow
<1>4. CopyInOrder(j)
  BY <1>1, <1>3 DEF CopyInOrder
<1> QED
  BY <1>2, <1>4, OrderJob

LEMMA OrderListFirms ==
  ASSUME Types, OrderInv, NEW b \in Backers, ListFirms(b), Resting,
         \A c \in Backers \ {b} : At(c, "idle")
  PROVE  OrderInv'
<1>1. job[b] \in JobRow /\ CopyInOrder(job[b]) /\ job[b].at = "list"
  BY RunIs DEF ListFirms, At
<1> DEFINE j == [job[b] EXCEPT !.at = "tenants", !.todo = Actives]
<1>2. job' = [job EXCEPT ![b] = j] /\ UNCHANGED <<registry, data, runs, restore>>
  BY DEF ListFirms, Actives
<1>3. /\ j.at = "tenants" /\ j.tenants = job[b].tenants /\ j.todo = Actives
      /\ j.platform = job[b].platform /\ j.copy = job[b].copy
  BY <1>1 DEF JobRow
<1> HIDE DEF j
<1>4. CopyInOrder(j)
  BY <1>1, <1>3 DEF CopyInOrder
<1> QED
  BY <1>2, <1>4, OrderJob

LEMMA OrderBackupTenant ==
  ASSUME Types, OrderInv, NEW b \in Backers, BackupTenant(b), Resting,
         \A c \in Backers \ {b} : At(c, "idle")
  PROVE  OrderInv'
<1>1. job[b] \in JobRow /\ CopyInOrder(job[b]) /\ job[b].at = "tenants" /\ job[b].todo # {}
  BY RunIs DEF BackupTenant, At
<1>2. job[b].todo \in SUBSET Firms /\ job[b].tenants \in [Firms -> Entries]
  BY <1>1 DEF JobRow
<1>3. PICK f : f = CHOOSE h \in job[b].todo : \A g \in job[b].todo : h <= g
  OBVIOUS
<1>4. f \in job[b].todo
  BY <1>1, <1>2, <1>3, LeastFirm
<1>5. PICK entry \in {Failed} \cup (IF f \in spaces THEN {data[f]} \ {Missing} ELSE {}) :
        job' = [job EXCEPT ![b].todo = @ \ {f}, ![b].tenants[f] = entry]
  BY <1>3 DEF BackupTenant
<1>6. entry = Failed \/ (f \in spaces /\ entry >= 0)
  <2>1. CASE f \in spaces
    BY <1>5, <2>1, EntriesAre, ConstantsTyped
  <2> QED
    BY <1>5, <2>1
<1> DEFINE j == [job[b] EXCEPT !.todo = @ \ {f}, !.tenants[f] = entry]
<1>7. job' = [job EXCEPT ![b] = j]
  BY <1>5
<1>8. /\ j.at = "tenants" /\ j.todo = job[b].todo \ {f}
      /\ j.tenants = [job[b].tenants EXCEPT ![f] = entry]
      /\ j.platform = job[b].platform /\ j.copy = job[b].copy
  BY <1>1 DEF JobRow
<1> HIDE DEF j
<1>9. j.tenants[f] = entry /\ \A g \in Firms : g # f => j.tenants[g] = job[b].tenants[g]
  BY <1>2, <1>4, <1>8
<1>10. job[b].todo \subseteq Actives
  BY <1>1 DEF CopyInOrder
<1>11. \A g \in Firms : g \notin Actives \/ g \in j.todo => j.tenants[g] = Absent
  BY <1>1, <1>4, <1>8, <1>9, <1>10 DEF CopyInOrder
<1>12. \A g \in Actives \ j.todo : j.tenants[g] = Failed \/ (g \in spaces /\ j.tenants[g] >= 0)
  <2> SUFFICES ASSUME NEW g \in Actives \ j.todo
               PROVE  j.tenants[g] = Failed \/ (g \in spaces /\ j.tenants[g] >= 0)
    OBVIOUS
  <2>1. CASE g = f
    BY <1>6, <1>9, <2>1
  <2>2. CASE g # f
    <3>1. g \in Actives \ job[b].todo /\ g \in Firms
      BY <1>8, <2>2 DEF Actives
    <3> QED
      BY <1>1, <1>9, <2>2, <3>1 DEF CopyInOrder
  <2> QED
    BY <2>1, <2>2
<1>13. CopyInOrder(j)
  BY <1>1, <1>8, <1>10, <1>11, <1>12 DEF CopyInOrder
<1> QED
  BY <1>7, <1>13, OrderJob DEF BackupTenant

\* What a run leaves in its manifest.
LEMMA WholeWhenDone ==
  ASSUME Types, OrderInv, NEW b \in Backers, job[b].at = "tenants", job[b].todo = {},
         job[b].platform, \A f \in Firms : job[b].tenants[f] # Failed
  PROVE  {f \in Firms : job[b].tenants[f] >= 0} =
            {f \in job[b].copy.spaces : job[b].copy.status[f] = "active"}
<1>1. CopyInOrder(job[b])
  BY RunIs
<1>2. job[b].copy.spaces = spaces /\ job[b].copy.status = status
  BY <1>1 DEF CopyInOrder, Snapshot
<1>3. spaces \subseteq Firms
  BY DEF Types, Registry
<1>4. ASSUME NEW f \in Firms
      PROVE  job[b].tenants[f] >= 0 <=> f \in spaces /\ status[f] = "active"
  <2>1. CASE f \in Actives
    BY <1>1, <2>1 DEF CopyInOrder, Actives
  <2>2. CASE f \notin Actives
    <3>1. job[b].tenants[f] = Absent
      BY <1>1, <2>2 DEF CopyInOrder
    <3> QED
      BY <2>2, <3>1, ConstantsTyped DEF Actives
  <2> QED
    BY <2>1, <2>2
<1> QED
  BY <1>2, <1>3, <1>4

LEMMA OrderWriteManifest ==
  ASSUME Types, OrderInv, NEW b \in Backers, WriteManifest(b), Resting,
         \A c \in Backers \ {b} : At(c, "idle")
  PROVE  OrderInv'
<1> DEFINE run == [schedule |-> job[b].schedule, platform |-> job[b].platform,
                   copy |-> job[b].copy, tenants |-> job[b].tenants, age |-> 0, kept |-> TRUE,
                   success |-> job[b].platform /\ \A f \in Firms : job[b].tenants[f] # Failed]
           j == [NoJob EXCEPT !.at = "retention", !.schedule = job[b].schedule]
<1>1. /\ job[b].at = "tenants" /\ job[b].todo = {}
      /\ runs' = Append(runs, run) /\ job' = [job EXCEPT ![b] = j]
      /\ UNCHANGED <<registry, data, restore>>
  BY DEF WriteManifest, At
<1>2. RunWhole(run)
  <2>1. /\ run.success => job[b].platform /\ \A f \in Firms : job[b].tenants[f] # Failed
        /\ run.tenants = job[b].tenants /\ run.copy = job[b].copy
    OBVIOUS
  <2> HIDE DEF run
  <2> QED
    BY <1>1, <2>1, WholeWhenDone DEF RunWhole
<1> HIDE DEF run
<1>3. /\ DOMAIN runs' = DOMAIN runs \cup {Len(runs) + 1}
      /\ runs'[Len(runs) + 1] = run /\ \A i \in DOMAIN runs : runs'[i] = runs[i]
  BY <1>1, RunsAre DEF Types, Manifests
<1>4. RunsWhole'
  BY <1>2, <1>3 DEF OrderInv, RunsWhole, RunWhole
<1>5. j.at = "retention"
  BY DEF NoJob
<1> HIDE DEF j
<1>6. job'[b] = j /\ \A c \in Backers \ {b} : job'[c] = job[c]
  BY <1>1 DEF Types, Jobs
<1>7. \A c \in Backers : CopyInOrder(job[c])'
  BY <1>5, <1>6 DEF At, CopyInOrder
<1>8. OneAtATime' /\ RestoreInOrder'
  BY <1>1, <1>6 DEF OneAtATime, Resting, At, RestoreInOrder
<1> QED
  BY <1>4, <1>7, <1>8 DEF OrderInv

\* Manifests that are rewritten but for their entries, copies and success.
LEMMA WholeStays ==
  ASSUME RunsWhole, DOMAIN runs' = DOMAIN runs,
         \A i \in DOMAIN runs : /\ runs'[i].success = runs[i].success
                                /\ runs'[i].tenants = runs[i].tenants
                                /\ runs'[i].copy = runs[i].copy
  PROVE  RunsWhole'
  BY DEF RunsWhole, RunWhole

LEMMA OrderApplyRetention ==
  ASSUME Types, OrderInv, NEW b \in Backers, ApplyRetention(b), Resting,
         \A c \in Backers \ {b} : At(c, "idle")
  PROVE  OrderInv'
<1>1. /\ job' = [job EXCEPT ![b] = NoJob] /\ UNCHANGED <<registry, data, restore>>
      /\ DOMAIN runs' = DOMAIN runs
  BY DEF ApplyRetention
<1>2. \A i \in DOMAIN runs : /\ runs'[i].success = runs[i].success
                             /\ runs'[i].tenants = runs[i].tenants
                             /\ runs'[i].copy = runs[i].copy
  BY RunsAre DEF Types, ApplyRetention, RunRow
<1>3. RunsWhole'
  BY <1>1, <1>2, WholeStays DEF OrderInv
<1>4. job'[b].at = "idle" /\ \A c \in Backers \ {b} : job'[c] = job[c]
  BY <1>1, NoJobIsJob DEF Types, Jobs
<1>5. \A c \in Backers : CopyInOrder(job[c])'
  BY <1>4 DEF At, CopyInOrder
<1>6. OneAtATime' /\ RestoreInOrder'
  BY <1>1, <1>4 DEF OneAtATime, Resting, At, RestoreInOrder
<1> QED
  BY <1>3, <1>5, <1>6 DEF OrderInv

LEMMA OrderBackup ==
  ASSUME Types, OrderInv, NEW b \in Backers, Backup(b), Resting,
         \A c \in Backers \ {b} : At(c, "idle")
  PROVE  OrderInv'
<1>1. ASSUME NEW s \in Schedules, StartBackup(b, s) PROVE OrderInv'
  <2> DEFINE j == [NoJob EXCEPT !.at = "platform", !.schedule = s]
  <2>1. job' = [job EXCEPT ![b] = j] /\ UNCHANGED <<registry, data, runs, restore>>
    BY <1>1 DEF StartBackup
  <2>2. CopyInOrder(j)
    BY DEF NoJob, CopyInOrder
  <2> HIDE DEF j
  <2> QED
    BY <2>1, <2>2, OrderJob
<1>2. CASE BackupDies(b)
  <2>1. CopyInOrder(NoJob)
    BY IdleInOrder, NoJobIsJob
  <2> QED
    BY <1>2, <2>1, OrderJob DEF BackupDies
<1> QED
  BY <1>1, <1>2, OrderBackupPlatform, OrderListFirms, OrderBackupTenant, OrderWriteManifest,
     OrderApplyRetention DEF Backup

\* A day that passes only ages the manifests.
LEMMA OrderNewDay ==
  ASSUME Types, OrderInv, NewDay
  PROVE  OrderInv'
<1>1. UNCHANGED <<registry, data, job, restore>> /\ DOMAIN runs' = DOMAIN runs
  BY DEF NewDay
<1>2. \A i \in DOMAIN runs : /\ runs'[i].success = runs[i].success
                             /\ runs'[i].tenants = runs[i].tenants
                             /\ runs'[i].copy = runs[i].copy
  BY RunsAre DEF Types, NewDay, RunRow
<1>3. RunsWhole'
  BY <1>1, <1>2, WholeStays DEF OrderInv
<1>4. Snapshot' = Snapshot
  BY <1>1 DEF Snapshot, registry
<1>5. RestoreInOrder'
  <2>1. CASE Resting
    BY <1>1, <2>1 DEF RestoreInOrder, Resting
  <2>2. CASE ~Resting
    <3>1. restore.run \in DOMAIN runs
      BY <2>2 DEF Types, Restoring
    <3> QED
      BY <1>1, <1>2, <1>4, <2>2, <3>1 DEF OrderInv, RestoreInOrder, Resting
  <2> QED
    BY <2>1, <2>2
<1>6. OneAtATime'
  BY <1>1 DEF OrderInv, OneAtATime, Resting, BackupsIdle, At
<1>7. \A b \in Backers : CopyInOrder(job[b])'
  BY <1>1 DEF NewDay, At, CopyInOrder
<1> QED
  BY <1>3, <1>5, <1>6, <1>7 DEF OrderInv

\* A restore's step, while no run is under way.
LEMMA OrderRestoring ==
  ASSUME OrderInv, BackupsIdle, UNCHANGED <<job, runs>>, RestoreInOrder'
  PROVE  OrderInv'
<1>1. OneAtATime'
  BY DEF OneAtATime, BackupsIdle, At
<1>2. RunsWhole'
  BY DEF OrderInv, RunsWhole, RunWhole
<1>3. \A b \in Backers : CopyInOrder(job[b])'
  BY DEF BackupsIdle, At, CopyInOrder
<1> QED
  BY <1>1, <1>2, <1>3 DEF OrderInv

LEMMA OrderRestoreOf ==
  ASSUME NEW i \in DOMAIN runs, RestoreOf(i)
  PROVE  RestoreInOrder'
<1> DEFINE all == {f \in Firms : runs[i].tenants[f] >= 0}
<1>1. UNCHANGED runs
  BY DEF RestoreOf, StartRestore
<1>2. CASE StartRestore(i, "full", all)
  <2>1. /\ restore'.at = "platform" /\ restore'.run = i
        /\ restore'.todo = all
    BY <1>2 DEF StartRestore
  <2> QED
    BY <1>1, <2>1 DEF RestoreInOrder
<1>3. ASSUME NEW what \in {"platform", "tenant"}, NEW todo, StartRestore(i, what, todo)
      PROVE  RestoreInOrder'
  <2>1. restore'.what # "full"
    BY <1>3 DEF StartRestore
  <2> QED
    BY <2>1 DEF RestoreInOrder
<1> QED
  BY <1>2, <1>3 DEF RestoreOf

LEMMA OrderRestorePlatform ==
  ASSUME Types, OrderInv, RestorePlatform
  PROVE  RestoreInOrder'
<1>1. ~Resting
  BY DEF RestorePlatform, Resting, NoRestore
<1> DEFINE run == runs[restore.run]
<1>2. run \in RunRow
  BY <1>1, RunsAre DEF Types, Restoring
<1>3. run.copy \in Copies
  BY <1>2 DEF RunRow
<1>4. /\ restore.at = "platform" /\ UNCHANGED runs
      /\ status' = run.copy.status /\ spaces' = run.copy.spaces
  BY DEF RestorePlatform
<1>5. run.copy = [status |-> run.copy.status, spaces |-> run.copy.spaces]
  BY <1>3 DEF Copies
<1>6. Snapshot' = run.copy
  BY <1>4, <1>5 DEF Snapshot
<1>7. /\ restore'.at = "tenants" /\ restore'.run = restore.run
      /\ restore'.what = restore.what /\ restore'.todo = restore.todo
  BY DEF RestorePlatform, Types, Restoring, RestoreRow
<1>8. restore.what = "full" => restore.todo = {f \in Firms : run.tenants[f] >= 0}
  BY <1>1, <1>4 DEF OrderInv, RestoreInOrder
<1>9. runs'[restore'.run] = run
  BY <1>4, <1>7
<1> HIDE DEF run
<1> QED
  BY <1>6, <1>7, <1>8, <1>9 DEF RestoreInOrder

LEMMA OrderRestoreTenant ==
  ASSUME Types, OrderInv, RestoreTenant
  PROVE  RestoreInOrder'
<1>1. ~Resting /\ restore.todo # {} /\ restore.at = "tenants"
  BY DEF RestoreTenant, Resting, NoRestore
<1> DEFINE run == runs[restore.run]
<1>2. PICK f : f = NextTenant
  OBVIOUS
<1>3. f \in restore.todo
  BY <1>1, <1>2, NextIsToDo
<1>4. /\ data' = [data EXCEPT ![f] = run.tenants[f]]
      /\ restore' = [restore EXCEPT !.todo = @ \ {f}]
      /\ UNCHANGED <<registry, job, runs>>
  BY <1>2 DEF RestoreTenant
<1>5. restore \in RestoreRow /\ data \in [Firms -> Missing..MaxEdits]
  BY DEF Types, Restoring
<1>6. /\ restore'.at = "tenants" /\ restore'.run = restore.run
      /\ restore'.what = restore.what /\ restore'.todo = restore.todo \ {f}
  BY <1>1, <1>4, <1>5 DEF RestoreRow
<1>7. /\ f \in Firms => data'[f] = run.tenants[f]
      /\ \A g \in Firms \ {f} : data'[g] = data[g]
  BY <1>4, <1>5
<1>8. Snapshot' = Snapshot /\ runs'[restore'.run] = run
  BY <1>4, <1>6 DEF Snapshot, registry
<1>9. restore.what = "full" =>
         /\ Snapshot = run.copy
         /\ \A g \in Firms \ restore.todo : run.tenants[g] >= 0 => data[g] = run.tenants[g]
  BY <1>1 DEF OrderInv, RestoreInOrder
<1> HIDE DEF run
<1>10. restore.what = "full" =>
         \A g \in Firms \ restore'.todo : run.tenants[g] >= 0 => data'[g] = run.tenants[g]
  BY <1>6, <1>7, <1>9
<1> QED
  BY <1>6, <1>8, <1>9, <1>10 DEF RestoreInOrder

LEMMA OrderRestore ==
  ASSUME Types, OrderInv, Restore, BackupsIdle
  PROVE  OrderInv'
<1>1. UNCHANGED <<job, runs>>
  BY DEF Restore, RestoreOf, StartRestore, RestorePlatform, RestoreTenant, RestoreStops,
     RestoreEnds, RestoreDies
<1>2. ASSUME RestoreStops \/ RestoreEnds \/ RestoreDies PROVE RestoreInOrder'
  <2>1. Resting'
    BY <1>2 DEF RestoreStops, RestoreEnds, RestoreDies, Resting
  <2> QED
    BY <2>1 DEF RestoreInOrder
<1>3. RestoreInOrder'
  BY <1>2, OrderRestoreOf, OrderRestorePlatform, OrderRestoreTenant DEF Restore
<1> QED
  BY <1>1, <1>3, OrderRestoring

-----------------------------------------------------------------------------
(* The instances' one-at-a-time behaviours.                                 *)

LEMMA MCStep == [MCNext]_MCvars => [Next]_vars /\ (Alone' <=> Alone)
  BY DEF MCNext, MCvars, BackupStep, Next, Alone

LEMMA OrderStep ==
  ASSUME Types, OrderInv, Alone, [MCNext]_MCvars
  PROVE  OrderInv'
<1>1. CASE UNCHANGED MCvars
  <2>1. UNCHANGED <<registry, data, job, runs, restore>>
    BY <1>1 DEF MCvars, vars
  <2>2. UNCHANGED <<status, spaces>>
    BY <2>1 DEF registry
  <2>3. \A b \in Backers : CopyInOrder(job[b])'
    BY <2>1, <2>2 DEF OrderInv, CopyInOrder, Snapshot, Actives
  <2>4. OneAtATime' /\ RunsWhole' /\ RestoreInOrder'
    BY <2>1, <2>2 DEF OrderInv, OneAtATime, Resting, BackupsIdle, At, RunsWhole, RunWhole,
       RestoreInOrder, Snapshot
  <2> QED
    BY <2>3, <2>4 DEF OrderInv
<1>2. ASSUME NEW b \in Backers, BackupStep(b) PROVE OrderInv'
  BY <1>2, OrderBackup DEF BackupStep
<1>3. CASE Server /\ (Alone => BackupsIdle /\ Resting)
  BY <1>3, OrderServer
<1>4. CASE Restore /\ (Alone => BackupsIdle)
  BY <1>4, OrderRestore
<1>5. CASE NewDay
  BY <1>5, OrderNewDay
<1> QED
  BY <1>1, <1>2, <1>3, <1>4, <1>5 DEF MCNext

LEMMA OrderAlways == MCSpec => [](Backups /\ (Alone => OrderInv))
<1>1. MCInit => Backups /\ (Alone => OrderInv)
  BY BackupsInit, OrderInit DEF MCInit
<1>2. Backups /\ (Alone => OrderInv) /\ [MCNext]_MCvars => (Backups /\ (Alone => OrderInv))'
  <2> SUFFICES ASSUME Backups, Alone => OrderInv, [MCNext]_MCvars
               PROVE  (Backups /\ (Alone => OrderInv))'
    OBVIOUS
  <2>1. [Next]_vars /\ (Alone' <=> Alone)
    BY MCStep
  <2>2. Backups'
    BY <2>1, TypesNext, RoomNext, RetentionNext, FullRestoreNext DEF Backups
  <2>3. Alone' => OrderInv'
    BY <2>1, OrderStep DEF Backups
  <2> QED
    BY <2>2, <2>3
<1> QED
  BY <1>1, <1>2, PTL DEF MCSpec

\* Taken one at a time, runs leave manifests that can be trusted: the newest of
\* a schedule has its files, and a success has a copy of every ledger that its
\* copy of platform.db has as active (service.py, run_backup, apply_retention).
THEOREM ManifestsStandAlone == MCSpec => []ManifestsSound
<1>1. Backups /\ (Alone => OrderInv) => ManifestsSound
  BY DEF Backups, Retention, OrderInv, RunsWhole, RunWhole, ManifestsSound
<1> QED
  BY <1>1, OrderAlways, PTL

\* A full restore that comes to its end has put back the registry and every
\* ledger of its run, however many restores before it stopped or died half-way
\* (restore.py, restore_full).
THEOREM RestoresArePut == MCSpec => RestoreWhole
<1> DEFINE Whole ==
      Alone /\ RestoreEnds /\ restore.what = "full" =>
          LET run == runs[restore.run]
          IN  /\ status = run.copy.status /\ spaces = run.copy.spaces
              /\ \A f \in Firms : run.tenants[f] >= 0 => data[f] = run.tenants[f]
<1>1. Backups /\ (Alone => OrderInv) => Whole
  <2> SUFFICES ASSUME OrderInv, RestoreEnds, restore.what = "full"
               PROVE  /\ status = runs[restore.run].copy.status
                      /\ spaces = runs[restore.run].copy.spaces
                      /\ \A f \in Firms : runs[restore.run].tenants[f] >= 0 =>
                                             data[f] = runs[restore.run].tenants[f]
    OBVIOUS
  <2>1. ~Resting /\ restore.at = "tenants" /\ restore.todo = {}
    BY DEF RestoreEnds, Resting, NoRestore
  <2>2. /\ Snapshot = runs[restore.run].copy
        /\ \A f \in Firms \ restore.todo :
              runs[restore.run].tenants[f] >= 0 => data[f] = runs[restore.run].tenants[f]
    BY <2>1 DEF OrderInv, RestoreInOrder
  <2> QED
    BY <2>1, <2>2 DEF Snapshot
<1> HIDE DEF Whole
<1>2. MCSpec => [][Whole]_MCvars
  BY <1>1, OrderAlways, PTL DEF MCSpec
<1> QED
  BY <1>2 DEF RestoreWhole, Whole

-----------------------------------------------------------------------------
(* The desktop's backups (DesktopBackups), with parameters and variables of  *)
(* their own; `task` is its job, `plan` its schedule.                       *)
CONSTANTS Processes, DayLen, Night, Hour, RetentionDays, MaxKeys, q1, q2, MaxActs

VARIABLES slot, db, keys, up, env, local, onedrive, custom, task, wait, lastRun, plan, acts,
          misread

Desk == INSTANCE MCDesktopBackups WITH job <- task, schedule <- plan

\* Two files of a folder have two names, until they are too old to tell; what is
\* copied to a cloud folder is not open.
Folder(files) ==
    /\ files \subseteq Desk!Files
    /\ \A f, g \in files :
          f.age = g.age /\ f.slot = g.slot /\ f.age <= RetentionDays => f = g

Cloud(files) == Folder(files) /\ \A f \in files : f.state # "writing"

\* From the snapshot on a job has its key.
Keyed == {"snapshot", "open", "write", "copy", "cleanup"}
HasKey(j) == j.at \in Keyed => j.key # Desk!NoKey

DeskJobs == task \in [Processes -> Desk!Jobs] /\ \A p \in Processes : HasKey(task[p])

DeskFiles == Folder(local) /\ Cloud(onedrive) /\ Cloud(custom)

DeskClock ==
    /\ slot \in 0..(DayLen - 1)
    /\ wait \in [Processes -> 0..(Hour + 1)] /\ lastRun \in [Processes -> BOOLEAN]

DeskKeys ==
    /\ db \in Desk!Databases /\ keys \in 0..MaxKeys
    /\ up \subseteq Processes
    /\ env \in [Processes -> 0..MaxKeys]

DeskTypes == DeskClock /\ DeskKeys /\ DeskFiles /\ DeskJobs

\* A file of this minute's name, alone.
Single(files) ==
    /\ files \subseteq Desk!Files
    /\ \A f \in files : f.age = 0 /\ f.slot = slot
    /\ \A f, g \in files : f = g

LEMMA DeskNumbers ==
  Desk!Parameters => /\ DayLen \in Nat /\ DayLen >= 1 /\ Hour \in Nat /\ RetentionDays \in Nat
                     /\ MaxKeys \in Nat /\ MaxKeys >= 1 /\ Desk!NoKey = 0
  BY DEF Desk!Parameters, Desk!NoKey

LEMMA DeskJob ==
  ASSUME DeskTypes, NEW p \in Processes
  PROVE  /\ task[p] \in Desk!Jobs /\ HasKey(task[p])
         /\ task[p].key \in 0..MaxKeys /\ task[p].opens \in 0..MaxKeys
         /\ task[p].copy \in Desk!Databases
  BY DEF DeskTypes, DeskJobs, Desk!Jobs

\* Only the job of one process changes.
LEMMA DeskJobsBut ==
  ASSUME DeskTypes, NEW p \in Processes, NEW j \in Desk!Jobs, HasKey(j),
         task' = [task EXCEPT ![p] = j]
  PROVE  DeskJobs'
  BY DEF DeskTypes, DeskJobs

LEMMA FolderPart ==
  ASSUME NEW files, NEW part \in SUBSET files
  PROVE  (Folder(files) => Folder(part)) /\ (Cloud(files) => Cloud(part))
  BY DEF Folder, Cloud

LEMMA FolderOlder ==
  ASSUME Desk!Parameters, NEW files, Folder(files)
  PROVE  Folder(Desk!Older(files)) /\ (Cloud(files) => Cloud(Desk!Older(files)))
<1> DEFINE Aged(f) == [f EXCEPT !.age = IF @ > RetentionDays THEN @ ELSE @ + 1]
<1>1. \A f \in files : /\ Aged(f) \in Desk!Files
                       /\ Aged(f).age <= RetentionDays => Aged(f).age = f.age + 1
                       /\ Aged(f).slot = f.slot /\ Aged(f).state = f.state
                       /\ f.age \in Nat
  BY DEF Folder, Desk!Files, Desk!Parameters
<1>2. Desk!Older(files) = {Aged(f) : f \in files}
  BY DEF Desk!Older
<1> HIDE DEF Aged
<1>3. Folder(Desk!Older(files))
  <2>1. Desk!Older(files) \subseteq Desk!Files
    BY <1>1, <1>2
  <2>2. ASSUME NEW f \in files, NEW g \in files, Aged(f).age = Aged(g).age,
               Aged(f).slot = Aged(g).slot, Aged(f).age <= RetentionDays
        PROVE  f = g
    <3>1. f.age = g.age /\ f.slot = g.slot /\ f.age <= RetentionDays
      BY <1>1, <2>2 DEF Desk!Parameters
    <3> QED
      BY <3>1 DEF Folder
  <2> QED
    BY <1>2, <2>1, <2>2 DEF Folder
<1> QED
  BY <1>1, <1>2, <1>3 DEF Cloud

LEMMA FolderPlaced ==
  ASSUME Desk!Parameters, NEW files, Folder(files), NEW new, Single(new)
  PROVE  /\ Folder((files \ Desk!Named(files)) \cup new)
         /\ Cloud(files) /\ (\A f \in new : f.state # "writing") =>
               Cloud((files \ Desk!Named(files)) \cup new)
<1> DEFINE placed == (files \ Desk!Named(files)) \cup new
<1>1. placed \subseteq Desk!Files
  BY DEF Folder, Single
<1>2. \A f \in files \ Desk!Named(files) : ~(f.age = 0 /\ f.slot = slot)
  BY DEF Desk!Named
<1>3. \A f, g \in placed : f.age = g.age /\ f.slot = g.slot /\ f.age <= RetentionDays => f = g
  BY <1>2 DEF Folder, Single
<1> QED
  BY <1>1, <1>3 DEF Folder, Cloud

\* The files of this minute's name are one, and so is what is left of it.
LEMMA NamedSingle ==
  ASSUME Desk!Parameters, NEW files, Folder(files)
  PROVE  /\ Single(Desk!Named(files))
         /\ Single(Desk!Torn(Desk!Named(files)))
         /\ \A f \in Desk!Torn(Desk!Named(files)) : f.state = "broken"
         /\ Single(Desk!Settle(Desk!Named(files)))
         /\ \A f \in Desk!Settle(Desk!Named(files)) : f.state # "writing"
<1> DEFINE named == Desk!Named(files)
<1> DEFINE Broken(f) == [f EXCEPT !.state = "broken"]
<1>1. Single(named)
  BY DEF Desk!Named, Folder, Single, Desk!Parameters
<1> HIDE DEF named
<1>2. \A f \in named : /\ Broken(f) \in Desk!Files /\ Broken(f).state = "broken"
                       /\ Broken(f).age = 0 /\ Broken(f).slot = slot
  BY <1>1 DEF Single, Desk!Files
<1> HIDE DEF Broken
<1>3. \A part \in SUBSET named : Desk!Torn(part) = {Broken(f) : f \in part}
  BY DEF Desk!Torn, Broken
<1>4. Single(Desk!Torn(named)) /\ \A f \in Desk!Torn(named) : f.state = "broken"
  BY <1>1, <1>2, <1>3 DEF Single
<1>5. CASE \E f \in named : f.state = "writing"
  <2>1. Desk!Settle(named) = Desk!Torn(named)
    BY <1>1, <1>5 DEF Desk!Settle, Single, Desk!Torn
  <2> QED
    BY <1>1, <1>4, <2>1 DEF named
<1>6. CASE \A f \in named : f.state # "writing"
  <2>1. Desk!Settle(named) = named
    BY <1>6 DEF Desk!Settle, Desk!Torn
  <2> QED
    BY <1>1, <1>4, <1>6, <2>1 DEF named
<1> QED
  BY <1>5, <1>6

\* What a job writes.
LEMMA FileOfSingle ==
  ASSUME Desk!Parameters, DeskTypes, NEW p \in Processes, task[p].key # Desk!NoKey,
         NEW state \in {"writing", "whole", "broken"}
  PROVE  Single({Desk!FileOf(p, state)})
<1>1. task[p].key \in 1..MaxKeys /\ task[p].copy \in Desk!Databases
  BY DeskJob, DeskNumbers
<1>2. 0 \in 0..(RetentionDays + 1) /\ slot \in 0..(DayLen - 1)
  BY DEF DeskTypes, DeskClock, Desk!Parameters
<1>3. Desk!FileOf(p, state) \in Desk!Files
  BY <1>1, <1>2 DEF Desk!FileOf, Desk!Files
<1> QED
  BY <1>3 DEF Single, Desk!FileOf

LEMMA NoDeskJob == Desk!Parameters => Desk!NoJob \in Desk!Jobs /\ HasKey(Desk!NoJob)
  BY DEF Desk!NoJob, Desk!Jobs, Desk!Empty, Desk!Databases, Desk!NoKey, HasKey, Keyed,
     Desk!Parameters

LEMMA DeskRelease ==
  ASSUME Desk!Parameters, DeskTypes, NEW p \in Processes, Desk!Release(p), slot' = slot
  PROVE  DeskJobs' /\ DeskClock'
  BY NoDeskJob DEF DeskTypes, DeskJobs, DeskClock, Desk!Release, Desk!Parameters

-----------------------------------------------------------------------------
LEMMA DeskInit == Desk!Parameters /\ Desk!Init => DeskTypes
<1> SUFFICES ASSUME Desk!Parameters, Desk!Init PROVE DeskTypes
  OBVIOUS
<1>1. DeskClock
  BY DEF Desk!Init, DeskClock, Desk!Parameters
<1>2. DeskKeys
  <2>1. keys \in 0..MaxKeys /\ db = [Desk!Empty EXCEPT !.key = keys]
    BY DeskNumbers DEF Desk!Init
  <2>2. Desk!Empty \in [key : {Desk!NoKey}, custom : BOOLEAN, state : {"whole"}]
    BY DEF Desk!Empty
  <2>3. db \in Desk!Databases
    BY <2>1, <2>2 DEF Desk!Databases
  <2> QED
    BY <2>1, <2>3, DeskNumbers DEF Desk!Init, DeskKeys
<1>3. DeskFiles
  BY DEF Desk!Init, DeskFiles, Folder, Cloud
<1>4. DeskJobs
  BY NoDeskJob DEF Desk!Init, DeskJobs
<1> QED
  BY <1>1, <1>2, <1>3, <1>4 DEF DeskTypes

LEMMA DeskWake ==
  ASSUME Desk!Parameters, DeskTypes, NEW p \in Processes, Desk!Wake(p)
  PROVE  DeskTypes'
<1>1. DeskClock'
  <2>1. PICK n \in {1, Hour + 1} : wait' = wait \/ wait' = [wait EXCEPT ![p] = n]
    BY DEF Desk!Wake
  <2>2. n \in 0..(Hour + 1)
    BY DeskNumbers
  <2> QED
    BY <2>1, <2>2 DEF Desk!Wake, DeskTypes, DeskClock
<1>2. DeskJobs'
  <2>1. CASE UNCHANGED task
    BY <2>1 DEF DeskTypes, DeskJobs
  <2>2. CASE task' = [task EXCEPT ![p].at = "key", ![p].by = "scheduler"]
    <3>1. PICK j : j = [task[p] EXCEPT !.at = "key", !.by = "scheduler"]
      OBVIOUS
    <3>2. j \in Desk!Jobs /\ HasKey(j)
      BY <3>1, DeskJob DEF Desk!Jobs, HasKey, Keyed
    <3>3. task' = [task EXCEPT ![p] = j]
      BY <2>2, <3>1
    <3> QED
      BY <3>2, <3>3, DeskJobsBut
  <2> QED
    BY <2>1, <2>2 DEF Desk!Wake
<1> QED
  BY <1>1, <1>2 DEF Desk!Wake, Desk!folders, DeskTypes, DeskKeys, DeskFiles, Folder, Cloud

LEMMA DeskTick ==
  ASSUME Desk!Parameters, DeskTypes, Desk!Tick
  PROVE  DeskTypes'
<1>1. DeskClock'
  <2>1. slot' \in 0..(DayLen - 1)
    BY DeskNumbers DEF Desk!Tick, DeskTypes, DeskClock
  <2>2. wait' \in [Processes -> 0..(Hour + 1)]
    BY DeskNumbers DEF Desk!Tick, DeskTypes, DeskClock
  <2>3. lastRun' \in [Processes -> BOOLEAN]
    BY DEF Desk!Tick, Desk!Today, DeskTypes, DeskClock
  <2> QED
    BY <2>1, <2>2, <2>3 DEF DeskClock
<1>2. DeskFiles'
  <2>1. CASE UNCHANGED <<local, onedrive, custom>>
    BY <2>1 DEF DeskTypes, DeskFiles, Folder, Cloud
  <2>2. CASE /\ local' = Desk!Older(local) /\ onedrive' = Desk!Older(onedrive)
             /\ custom' = Desk!Older(custom)
    <3>1. /\ Folder(local) /\ Folder(onedrive) /\ Folder(custom)
          /\ Cloud(onedrive) /\ Cloud(custom)
      BY DEF DeskTypes, DeskFiles, Cloud
    <3>2. /\ Folder(Desk!Older(local)) /\ Cloud(Desk!Older(onedrive))
          /\ Cloud(Desk!Older(custom))
      BY <3>1, FolderOlder
    <3> QED
      BY <2>2, <3>2 DEF DeskFiles, Folder, Cloud
  <2> QED
    BY <2>1, <2>2 DEF Desk!Tick, Desk!folders
<1> QED
  BY <1>1, <1>2 DEF Desk!Tick, DeskTypes, DeskKeys, DeskJobs

\* The steps that change neither folder nor clock.
LEMMA DeskJobStep ==
  ASSUME Desk!Parameters, DeskTypes, NEW p \in Processes,
         Desk!CreateNow(p) \/ Desk!Snapshot(p) \/ Desk!Restore(p)
            \/ \E fails \in BOOLEAN : Desk!ReadKey(p, fails) \/ Desk!GenerateKey(p, fails)
  PROVE  DeskTypes'
<1>1. CASE Desk!CreateNow(p)
  <2>1. DeskJobs'
    BY <1>1, ZenonT(30) DEF Desk!CreateNow, DeskTypes, DeskJobs, Desk!Jobs, HasKey, Keyed
  <2> QED
    BY <1>1, <2>1 DEF Desk!CreateNow, Desk!folders, Desk!threads, DeskTypes, DeskKeys,
       DeskClock, DeskFiles, Folder, Cloud
<1>2. CASE Desk!Snapshot(p)
  <2>1. DeskJobs'
    <3>1. \A state \in {"whole", "broken"} : [db EXCEPT !.state = state] \in Desk!Databases
      BY DEF DeskTypes, DeskKeys, Desk!Databases
    <3>2. PICK copy \in Desk!Databases :
             task' = [task EXCEPT ![p].at = "open", ![p].copy = copy]
      BY <1>2, <3>1 DEF Desk!Snapshot
    <3>3. task[p].at = "snapshot"
      BY <1>2 DEF Desk!Snapshot, Desk!At
    <3> QED
      BY <3>2, <3>3, ZenonT(30) DEF DeskTypes, DeskJobs, Desk!Jobs, HasKey, Keyed
  <2> QED
    BY <1>2, <2>1 DEF Desk!Snapshot, Desk!folders, Desk!threads, DeskTypes, DeskKeys,
       DeskClock, DeskFiles, Folder, Cloud
<1>3. CASE Desk!Restore(p)
  <2>1. PICK f \in local \cup onedrive \cup custom : Desk!StartRestore(p, f)
    BY <1>3 DEF Desk!Restore
  <2>2. f.copy \in Desk!Databases /\ f.key \in 0..MaxKeys
    BY DEF DeskTypes, DeskFiles, Folder, Cloud, Desk!Files
  <2> DEFINE opens == IF f.state = "whole" THEN f.key ELSE Desk!NoKey
  <2>3. opens \in 0..MaxKeys
    BY <2>2, DeskNumbers
  <2>4. PICK j : j = [Desk!NoJob EXCEPT !.at = "restore", !.by = "admin", !.copy = f.copy,
                                        !.opens = opens]
    OBVIOUS
  <2>5. j \in Desk!Jobs /\ HasKey(j)
    <3> HIDE DEF opens
    <3> QED
      BY <2>2, <2>3, <2>4, NoDeskJob DEF Desk!Jobs, HasKey, Keyed
  <2>6. DeskJobs'
    BY <2>1, <2>4, <2>5, DeskJobsBut DEF Desk!StartRestore
  <2> QED
    BY <2>1, <2>6 DEF Desk!StartRestore, Desk!folders, Desk!threads, DeskTypes, DeskKeys,
       DeskClock, DeskFiles, Folder, Cloud
<1>4. ASSUME NEW fails \in BOOLEAN, Desk!ReadKey(p, fails) PROVE DeskTypes'
  <2>1. Desk!KeyFound(p, fails) \in 0..MaxKeys
    BY DEF Desk!KeyFound, DeskTypes, DeskKeys, Desk!Databases
  <2>2. PICK label \in {"regenerate", "generate", "replace", "snapshot"} :
           /\ task' = [task EXCEPT ![p].key = Desk!KeyFound(p, fails), ![p].at = label]
           /\ label \in {"replace", "snapshot"} => Desk!KeyFound(p, fails) # Desk!NoKey
    BY <1>4 DEF Desk!ReadKey
  <2>3. PICK j : j = [task[p] EXCEPT !.key = Desk!KeyFound(p, fails), !.at = label]
    OBVIOUS
  <2>4. j \in Desk!Jobs /\ HasKey(j)
    BY <2>1, <2>2, <2>3, DeskJob DEF Desk!Jobs, HasKey, Keyed
  <2>5. DeskJobs'
    BY <2>2, <2>3, <2>4, DeskJobsBut
  <2> QED
    BY <1>4, <2>5 DEF Desk!ReadKey, Desk!folders, Desk!threads, DeskTypes, DeskKeys,
       DeskClock, DeskFiles, Folder, Cloud
<1>5. ASSUME NEW fails \in BOOLEAN, Desk!GenerateKey(p, fails) PROVE DeskTypes'
  <2>1. keys' \in 0..MaxKeys /\ keys' # Desk!NoKey
    <3>1. keys \in 0..MaxKeys /\ keys < MaxKeys /\ keys' = keys + 1
      BY <1>5 DEF Desk!GenerateKey, DeskTypes, DeskKeys
    <3> QED
      BY <3>1, DeskNumbers
  <2>2. PICK label \in {"replace", "snapshot"} :
           task' = [task EXCEPT ![p].key = keys', ![p].at = label]
    BY <1>5 DEF Desk!GenerateKey
  <2>3. PICK j : j = [task[p] EXCEPT !.key = keys', !.at = label]
    OBVIOUS
  <2>4. j \in Desk!Jobs /\ HasKey(j)
    BY <2>1, <2>2, <2>3, DeskJob DEF Desk!Jobs, HasKey, Keyed
  <2>5. DeskJobs'
    BY <2>2, <2>3, <2>4, DeskJobsBut
  <2>6. DeskKeys'
    BY <1>5, <2>1 DEF Desk!GenerateKey, DeskTypes, DeskKeys, Desk!Databases
  <2> QED
    BY <1>5, <2>5, <2>6 DEF Desk!GenerateKey, Desk!folders, Desk!threads, DeskTypes,
       DeskClock, DeskFiles, Folder, Cloud
<1> QED
  BY <1>1, <1>2, <1>3, <1>4, <1>5

LEMMA DeskGoto ==
  ASSUME DeskTypes, NEW p \in Processes, NEW label \in {"write", "copy", "cleanup"},
         task[p].at \in Keyed, Desk!Goto(p, label)
  PROVE  DeskJobs'
  BY DEF Desk!Goto, DeskTypes, DeskJobs, Desk!Jobs, HasKey, Keyed

LEMMA DeskOpenWrite ==
  ASSUME Desk!Parameters, DeskTypes, NEW p \in Processes, Desk!OpenFile(p) \/ Desk!WriteFile(p)
  PROVE  DeskTypes'
<1>1. task[p].at \in {"open", "write"}
  BY DEF Desk!OpenFile, Desk!WriteFile, Desk!At
<1>2. task[p].key # Desk!NoKey
  BY <1>1 DEF DeskTypes, DeskJobs, HasKey, Keyed
<1>3. PICK state \in {"writing", "whole", "broken"} :
         local' = (local \ Desk!Named(local)) \cup {Desk!FileOf(p, state)}
  BY DEF Desk!OpenFile, Desk!WriteFile
<1>4. Folder(local')
  <2>1. Folder((local \ Desk!Named(local)) \cup {Desk!FileOf(p, state)})
    BY <1>2, FileOfSingle, FolderPlaced DEF DeskTypes, DeskFiles
  <2> QED
    BY <1>3, <2>1
<1>5. DeskJobs'
  BY <1>1, DeskGoto DEF Desk!OpenFile, Desk!WriteFile, Keyed
<1> QED
  BY <1>4, <1>5 DEF Desk!OpenFile, Desk!WriteFile, Desk!threads, DeskTypes, DeskKeys, DeskClock,
     DeskFiles, Folder, Cloud

LEMMA DeskPlace ==
  ASSUME Desk!Parameters, DeskTypes, NEW files, Single(files),
         \A f \in files : f.state # "writing", Desk!Place(files)
  PROVE  Cloud(onedrive') /\ Cloud(custom')
<1>1. Cloud(onedrive) /\ Cloud(custom) /\ Folder(onedrive) /\ Folder(custom)
  BY DEF DeskTypes, DeskFiles, Cloud
<1>2. /\ Cloud((onedrive \ Desk!Named(onedrive)) \cup files)
      /\ Cloud((custom \ Desk!Named(custom)) \cup files)
  BY <1>1, FolderPlaced
<1> QED
  BY <1>1, <1>2 DEF Desk!Place

LEMMA DeskCopyToCloud ==
  ASSUME Desk!Parameters, DeskTypes, NEW p \in Processes, Desk!CopyToCloud(p)
  PROVE  DeskTypes'
<1>1. Folder(local)
  BY DEF DeskTypes, DeskFiles
<1>2. Cloud(onedrive') /\ Cloud(custom')
  BY <1>1, NamedSingle, DeskPlace DEF Desk!CopyToCloud
<1>3. DeskJobs'
  BY DeskGoto DEF Desk!CopyToCloud, Desk!At, Keyed
<1> QED
  BY <1>1, <1>2, <1>3 DEF Desk!CopyToCloud, Desk!threads, DeskTypes, DeskKeys, DeskClock,
     DeskFiles, Folder, Cloud

LEMMA DeskCleanup ==
  ASSUME Desk!Parameters, DeskTypes, NEW p \in Processes, Desk!Cleanup(p)
  PROVE  DeskTypes'
<1>1. Folder(Desk!Kept(local)) /\ Cloud(Desk!Kept(onedrive))
  BY FolderPart DEF Desk!Kept, DeskTypes, DeskFiles
<1>2. DeskJobs' /\ DeskClock'
  BY DeskRelease DEF Desk!Cleanup
<1> QED
  BY <1>1, <1>2 DEF Desk!Cleanup, DeskTypes, DeskKeys, DeskFiles, Folder, Cloud

\* What a failure or the end of a process leaves of the file being written.
LEMMA TornFolder ==
  ASSUME Desk!Parameters, DeskTypes
  PROVE  Folder((local \ Desk!Named(local)) \cup Desk!Torn(Desk!Named(local)))
  BY NamedSingle, FolderPlaced DEF DeskTypes, DeskFiles

LEMMA DeskBrokenOff ==
  ASSUME DeskTypes, NEW p \in Processes
  PROVE  Desk!BrokenOff(p) \in Desk!Databases
  BY DEF DeskTypes, DeskKeys, Desk!BrokenOff, Desk!Databases

LEMMA DeskFails ==
  ASSUME Desk!Parameters, DeskTypes, NEW p \in Processes, Desk!StepFails(p)
  PROVE  DeskTypes'
<1>1. Folder(local')
  BY TornFolder DEF Desk!StepFails, DeskTypes, DeskFiles
<1>2. Cloud(onedrive') /\ Cloud(custom')
  <2>1. CASE UNCHANGED <<onedrive, custom>>
    BY <2>1 DEF DeskTypes, DeskFiles, Cloud, Folder
  <2>2. CASE Desk!Place(Desk!Torn(Desk!Named(local)))
    BY <2>2, NamedSingle, DeskPlace DEF DeskTypes, DeskFiles
  <2> QED
    BY <2>1, <2>2 DEF Desk!StepFails
<1>3. DeskJobs' /\ DeskClock'
  BY DeskRelease DEF Desk!StepFails
<1>4. db' \in Desk!Databases
  BY DeskBrokenOff DEF Desk!StepFails
<1> QED
  BY <1>1, <1>2, <1>3, <1>4 DEF Desk!StepFails, DeskTypes, DeskKeys, DeskFiles, Folder, Cloud

LEMMA DeskReplace ==
  ASSUME Desk!Parameters, DeskTypes, NEW p \in Processes,
         Desk!OpenLedger(p) \/ Desk!OverwriteLedger(p)
  PROVE  DeskTypes'
<1> DEFINE States == {"writing", "whole", "broken"}
<1>1. \A found \in {db, task[p].copy} : \A state \in States :
         [found EXCEPT !.state = state] \in Desk!Databases
  BY DeskJob DEF DeskTypes, DeskKeys, Desk!Databases
<1>2. task[p].copy.state \in States
  BY DeskJob DEF Desk!Databases
<1>3. db' \in Desk!Databases
  <2>1. CASE Desk!OpenLedger(p)
    BY <1>1, <2>1 DEF Desk!OpenLedger, DeskTypes, DeskKeys
  <2>2. CASE Desk!OverwriteLedger(p)
    BY <1>1, <1>2, <2>2 DEF Desk!OverwriteLedger
  <2> QED
    BY <2>1, <2>2
<1>4. DeskJobs' /\ DeskClock'
  <2>1. CASE Desk!Release(p)
    BY <2>1, DeskRelease DEF Desk!OpenLedger, Desk!OverwriteLedger
  <2>2. CASE Desk!Goto(p, "overwrite") /\ UNCHANGED Desk!threads
    <3>1. slot' = slot
      BY DEF Desk!OpenLedger, Desk!OverwriteLedger
    <3> QED
      BY <2>2, <3>1 DEF Desk!Goto, Desk!threads, DeskTypes, DeskClock, DeskJobs, Desk!Jobs, HasKey,
         Keyed
  <2> QED
    BY <2>1, <2>2 DEF Desk!OpenLedger, Desk!OverwriteLedger
<1> QED
  BY <1>3, <1>4 DEF Desk!OpenLedger, Desk!OverwriteLedger, Desk!folders, DeskTypes, DeskKeys,
     DeskFiles, Folder, Cloud

LEMMA DeskSettings ==
  ASSUME Desk!Parameters, DeskTypes,
         Desk!SetBackupLocation \/ \E p \in Processes : Desk!RestoreLegacy(p)
  PROVE  DeskTypes'
<1>1. CASE Desk!SetBackupLocation
  <2>1. [db EXCEPT !.custom = ~@] \in Desk!Databases
    BY DEF DeskTypes, DeskKeys, Desk!Databases
  <2> QED
    BY <1>1, <2>1 DEF Desk!SetBackupLocation, Desk!folders, Desk!threads, DeskTypes, DeskKeys,
       DeskClock, DeskJobs, DeskFiles, Folder, Cloud
<1>2. ASSUME NEW p \in Processes, Desk!RestoreLegacy(p) PROVE DeskTypes'
  <2>1. Desk!Empty \in Desk!Databases
    BY DeskNumbers DEF Desk!Empty, Desk!Databases
  <2>2. PICK j : j = [Desk!NoJob EXCEPT !.at = "replace", !.by = "admin", !.copy = Desk!Empty]
    OBVIOUS
  <2>3. j \in Desk!Jobs /\ HasKey(j)
    BY <2>1, <2>2, NoDeskJob DEF Desk!Jobs, HasKey, Keyed
  <2>4. DeskJobs'
    BY <1>2, <2>2, <2>3, DeskJobsBut DEF Desk!RestoreLegacy
  <2> QED
    BY <1>2, <2>4 DEF Desk!RestoreLegacy, Desk!folders, Desk!threads, DeskTypes, DeskKeys,
       DeskClock, DeskFiles, Folder, Cloud
<1> QED
  BY <1>1, <1>2

LEMMA DeskUpDown ==
  ASSUME Desk!Parameters, DeskTypes, NEW p \in Processes, Desk!Start(p) \/ Desk!Stop(p)
  PROVE  DeskTypes'
<1>1. DeskClock'
  <2>1. 0 \in 0..(Hour + 1) /\ 1 \in 0..(Hour + 1)
    BY DeskNumbers
  <2> QED
    BY <2>1 DEF Desk!Start, Desk!Stop, DeskTypes, DeskClock
<1>2. DeskKeys'
  BY DeskBrokenOff DEF Desk!Start, Desk!Stop, DeskTypes, DeskKeys, Desk!NoKey, Desk!Parameters
<1>3. DeskJobs'
  BY NoDeskJob DEF Desk!Start, Desk!Stop, DeskTypes, DeskJobs
<1>4. DeskFiles'
  BY TornFolder DEF Desk!Start, Desk!Stop, Desk!folders, DeskTypes, DeskFiles, Cloud
<1> QED
  BY <1>1, <1>2, <1>3, <1>4 DEF DeskTypes

LEMMA DeskNext ==
  ASSUME Desk!Parameters, DeskTypes, [Desk!Next]_Desk!vars
  PROVE  DeskTypes'
<1>1. CASE UNCHANGED Desk!vars
  BY <1>1 DEF Desk!vars, Desk!folders, Desk!threads, DeskTypes, DeskKeys, DeskClock, DeskJobs,
     DeskFiles, Folder, Cloud
<1>2. CASE Desk!Tick
  BY <1>2, DeskTick
<1>3. CASE Desk!SetBackupLocation
  BY <1>3, DeskSettings
<1>4. ASSUME NEW p \in Processes, Desk!BackupStep(p) PROVE DeskTypes'
  BY <1>4, DeskJobStep, DeskOpenWrite, DeskCopyToCloud, DeskCleanup, DeskReplace
  DEF Desk!BackupStep
<1>5. ASSUME NEW p \in Processes, Desk!Fault(p) \/ Desk!Start(p) PROVE DeskTypes'
  BY <1>5, DeskFails, DeskUpDown DEF Desk!Fault
<1>6. ASSUME NEW p \in Processes,
             Desk!ConfigFault(p) \/ Desk!MisreadStep(p) \/ Desk!CreateNow(p) \/ Desk!Restore(p)
      PROVE  DeskTypes'
  BY <1>6, DeskJobStep DEF Desk!ConfigFault, Desk!MisreadStep
<1>7. ASSUME NEW p \in Processes, Desk!Wake(p) \/ Desk!RestoreLegacy(p) PROVE DeskTypes'
  BY <1>7, DeskWake, DeskSettings
<1> QED
  BY <1>1, <1>2, <1>3, <1>4, <1>5, <1>6, <1>7 DEF Desk!Next

\* Whatever runs, fails or is restored, no folder has two files of one name, and
\* a file in a cloud folder is whole or known to be torn, never one that is still
\* being written (backup_service.py, create_backup).
THEOREM DesktopTypeCorrect ==
  ASSUME Desk!Parameters
  PROVE  Desk!Spec => []Desk!TypeOK
<1>1. DeskTypes => Desk!TypeOK
  <2> SUFFICES ASSUME DeskTypes PROVE Desk!TypeOK
    OBVIOUS
  <2>1. /\ Folder(local) /\ Folder(onedrive) /\ Folder(custom)
        /\ Cloud(onedrive) /\ Cloud(custom)
    BY DEF DeskTypes, DeskFiles, Cloud
  <2>2. local \cup onedrive \cup custom \subseteq Desk!Files
    BY <2>1 DEF Folder
  <2>3. \A files \in {local, onedrive, custom} : \A f, g \in files :
           f.age = g.age /\ f.slot = g.slot /\ f.age <= RetentionDays => f = g
    BY <2>1 DEF Folder
  <2>4. \A f \in onedrive \cup custom : f.state # "writing"
    BY <2>1 DEF Cloud
  <2> QED
    BY <2>2, <2>3, <2>4 DEF Desk!TypeOK, DeskTypes, DeskClock, DeskKeys, DeskJobs
<1> QED
  BY <1>1, DeskInit, DeskNext, PTL DEF Desk!Spec

-----------------------------------------------------------------------------
(* One key.                                                                 *)

OneKeyPlan == plan \in {"first", "shared"}

\* What a job works with under a ledger's key k: nobody generates one where one
\* is stored, and a restore is of a file under that key.
JobUnder(j, k) ==
    /\ j.at = "generate" => k = Desk!NoKey
    /\ j.at # "regenerate"
    /\ j.at \in Keyed => j.key = k
    /\ j.at \in {"open", "write", "restore", "replace", "overwrite"} =>
          j.copy.key = k /\ j.copy.state = "whole"
    /\ j.at \in {"restore", "replace", "overwrite"} => k # Desk!NoKey

FilesUnder(files, k) == \A f \in files : f.key = k /\ f.copy.key = k /\ f.copy.state = "whole"

\* The one process that may find no key is the first and only one; what is in
\* an environment, a file, a copy or a job is the ledger's key.
OneKey ==
    /\ keys = db.key
    /\ db.key = Desk!NoKey => db.state = "whole"
    /\ plan = "shared" => db.key # Desk!NoKey
    /\ plan = "first" => \A p \in Processes \ {q1} : Desk!At(p, "idle")
    /\ \A p \in Processes : env[p] \in {Desk!NoKey, db.key}
    /\ FilesUnder(local, db.key) /\ FilesUnder(onedrive, db.key) /\ FilesUnder(custom, db.key)
    /\ \A p \in Processes : JobUnder(task[p], db.key)

LEMMA OneKeyInit == Desk!Parameters /\ Desk!MCInit /\ OneKeyPlan => OneKey
<1> SUFFICES ASSUME Desk!Parameters, Desk!MCInit, OneKeyPlan PROVE OneKey
  OBVIOUS
<1>1. keys = db.key /\ db.state = "whole" /\ (plan = "shared" => db.key # Desk!NoKey)
  BY DEF Desk!MCInit, Desk!Init, Desk!Empty, Desk!NoKey
<1>2. FilesUnder(local, db.key) /\ FilesUnder(onedrive, db.key) /\ FilesUnder(custom, db.key)
  BY DEF Desk!MCInit, Desk!Init, FilesUnder
<1>3. \A p \in Processes : env[p] = Desk!NoKey /\ task[p].at = "idle"
  BY DEF Desk!MCInit, Desk!Init, Desk!NoJob
<1> QED
  BY <1>1, <1>2, <1>3 DEF OneKey, JobUnder, Keyed, Desk!At

\* A step that neither generates nor stores a key: what is left to see is its job
\* and its files.
LEMMA OneKeyStep ==
  ASSUME DeskTypes, OneKey, NEW p \in Processes,
         plan' = plan, keys' = keys, db'.key = db.key,
         db.key = Desk!NoKey => db'.state = db.state,
         plan = "first" => p = q1,
         \A q \in Processes : env'[q] \in {env[q], Desk!NoKey},
         \A q \in Processes \ {p} : task'[q] = task[q],
         JobUnder(task'[p], db.key),
         FilesUnder(local', db.key), FilesUnder(onedrive', db.key), FilesUnder(custom', db.key)
  PROVE  OneKey'
<1>1. \A q \in Processes : JobUnder(task'[q], db'.key)
  BY DEF OneKey
<1>2. \A q \in Processes : env'[q] \in {Desk!NoKey, db'.key}
  BY DEF OneKey
<1>3. plan' = "first" => \A q \in Processes \ {q1} : task'[q].at = "idle"
  BY DEF OneKey, Desk!At
<1> QED
  BY <1>1, <1>2, <1>3 DEF OneKey, Desk!At

LEMMA UnderFileOf ==
  ASSUME OneKey, NEW p \in Processes, task[p].at \in {"open", "write"}, NEW state
  PROVE  FilesUnder({Desk!FileOf(p, state)}, db.key)
<1>1. JobUnder(task[p], db.key)
  BY DEF OneKey
<1>2. task[p].key = db.key /\ task[p].copy.key = db.key /\ task[p].copy.state = "whole"
  BY <1>1 DEF JobUnder, Keyed
<1> QED
  BY <1>2 DEF FilesUnder, Desk!FileOf

LEMMA UnderLeft ==
  ASSUME NEW files, files \subseteq Desk!Files, NEW k, FilesUnder(files, k)
  PROVE  /\ FilesUnder(Desk!Older(files), k)
         /\ \A part \in SUBSET files :
               /\ FilesUnder(part, k) /\ FilesUnder(Desk!Torn(part), k)
               /\ FilesUnder(Desk!Settle(part), k)
<1> DEFINE Broken(f) == [f EXCEPT !.state = "broken"]
<1>1. \A f \in files : Broken(f).key = f.key /\ Broken(f).copy = f.copy
  BY DEF Desk!Files
<1>2. \A part \in SUBSET files : FilesUnder(part, k) /\ FilesUnder(Desk!Torn(part), k)
  <2>1. \A part \in SUBSET files : Desk!Torn(part) = {Broken(f) : f \in part}
    BY DEF Desk!Torn
  <2> HIDE DEF Broken
  <2> QED
    BY <1>1, <2>1 DEF FilesUnder
<1>3. ASSUME NEW part \in SUBSET files PROVE FilesUnder(Desk!Settle(part), k)
  <2>1. FilesUnder(Desk!Torn({f \in part : f.state = "writing"}), k)
    BY <1>2
  <2> QED
    BY <1>2, <2>1 DEF Desk!Settle, FilesUnder
<1>4. FilesUnder(Desk!Older(files), k)
  <2> DEFINE Aged(f) == [f EXCEPT !.age = IF @ > RetentionDays THEN @ ELSE @ + 1]
  <2>1. \A f \in files : Aged(f).key = f.key /\ Aged(f).copy = f.copy
    BY DEF Desk!Files
  <2>2. Desk!Older(files) = {Aged(f) : f \in files}
    BY DEF Desk!Older
  <2> HIDE DEF Aged
  <2> QED
    BY <2>1, <2>2 DEF FilesUnder
<1> QED
  BY <1>2, <1>3, <1>4

\* The same of this minute's file put in a folder, or left in it torn.
LEMMA UnderPlaced ==
  ASSUME NEW k, NEW files, FilesUnder(files, k), NEW new, FilesUnder(new, k)
  PROVE  FilesUnder((files \ Desk!Named(files)) \cup new, k)
  BY DEF FilesUnder

LEMMA UnderFolders ==
  ASSUME DeskTypes, OneKey
  PROVE  /\ FilesUnder(local, db.key) /\ FilesUnder(onedrive, db.key) /\ FilesUnder(custom, db.key)
         /\ local \subseteq Desk!Files /\ onedrive \subseteq Desk!Files
         /\ custom \subseteq Desk!Files
         /\ FilesUnder(Desk!Torn(Desk!Named(local)), db.key)
         /\ FilesUnder(Desk!Settle(Desk!Named(local)), db.key)
         /\ FilesUnder((local \ Desk!Named(local)) \cup Desk!Torn(Desk!Named(local)), db.key)
<1>1. FilesUnder(local, db.key) /\ FilesUnder(onedrive, db.key) /\ FilesUnder(custom, db.key)
  BY DEF OneKey
<1>2. local \subseteq Desk!Files /\ onedrive \subseteq Desk!Files /\ custom \subseteq Desk!Files
  BY DEF DeskTypes, DeskFiles, Cloud, Folder
<1>3. Desk!Named(local) \in SUBSET local
  BY DEF Desk!Named
<1>4. /\ FilesUnder(Desk!Torn(Desk!Named(local)), db.key)
      /\ FilesUnder(Desk!Settle(Desk!Named(local)), db.key)
  BY <1>1, <1>2, <1>3, UnderLeft
<1>5. FilesUnder((local \ Desk!Named(local)) \cup Desk!Torn(Desk!Named(local)), db.key)
  BY <1>1, <1>4, UnderPlaced
<1> QED
  BY <1>1, <1>2, <1>4, <1>5

LEMMA NoJobUnder == \A k : JobUnder(Desk!NoJob, k)
  BY DEF JobUnder, Desk!NoJob, Keyed

LEMMA OneKeyTick ==
  ASSUME DeskTypes, OneKey, Desk!Tick, plan' = plan
  PROVE  OneKey'
<1>1. UNCHANGED <<db, keys, env, task>>
  BY DEF Desk!Tick
<1>2. FilesUnder(local', db.key) /\ FilesUnder(onedrive', db.key) /\ FilesUnder(custom', db.key)
  BY UnderFolders, UnderLeft DEF Desk!Tick, Desk!folders
<1> QED
  BY <1>1, <1>2 DEF OneKey, Desk!At

LEMMA OneKeyJobs ==
  ASSUME Desk!Parameters, DeskTypes, OneKey, NEW p \in Processes, plan' = plan,
         plan = "first" => p = q1,
         ~Desk!Misread(p),
         Desk!CreateNow(p) \/ Desk!Wake(p) \/ Desk!Snapshot(p) \/ Desk!Restore(p)
            \/ Desk!ReadKey(p, FALSE) \/ (Desk!ReadKey(p, TRUE) /\ db.state # "whole")
  PROVE  OneKey'
<1>1. task[p] \in Desk!Jobs /\ JobUnder(task[p], db.key)
  BY DeskJob DEF OneKey
<1>2. UNCHANGED <<db, keys, env, local, onedrive, custom>>
  BY DEF Desk!CreateNow, Desk!Wake, Desk!Snapshot, Desk!ReadKey, Desk!Restore, Desk!StartRestore,
     Desk!folders
<1>3. \A q \in Processes \ {p} : task'[q] = task[q]
  BY DEF Desk!CreateNow, Desk!Wake, Desk!Snapshot, Desk!ReadKey, Desk!Restore, Desk!StartRestore,
     DeskTypes, DeskJobs
<1>4. JobUnder(task'[p], db.key)
  <2>1. CASE Desk!CreateNow(p) \/ Desk!Wake(p)
    <3>1. task'[p].at = "key" \/ task'[p] = task[p]
      BY <1>1, <2>1 DEF Desk!CreateNow, Desk!Wake, DeskTypes, DeskJobs, Desk!Jobs
    <3> QED
      BY <1>1, <3>1 DEF JobUnder, Keyed
  <2>2. CASE Desk!Snapshot(p)
    <3> DEFINE copy == [db EXCEPT !.state = IF db.state = "whole" THEN "whole" ELSE "broken"]
    <3>1. task[p].at = "snapshot" /\ task'[p] = [task[p] EXCEPT !.at = "open", !.copy = copy]
      BY <2>2 DEF Desk!Snapshot, Desk!At, DeskTypes, DeskJobs
    <3>2. copy.key = db.key /\ (db.state = "whole" => copy.state = "whole")
      BY DEF DeskTypes, DeskKeys, Desk!Databases
    <3> HIDE DEF copy
    <3>3. task'[p].at = "open" /\ task'[p].key = task[p].key /\ task'[p].copy = copy
      BY <1>1, <3>1 DEF Desk!Jobs
    <3>4. db.state = "whole"
      BY <3>1, <3>3 DEF Desk!Misread, Desk!At
    <3> QED
      BY <1>1, <3>1, <3>2, <3>3, <3>4 DEF JobUnder, Keyed
  <2>3. ASSUME NEW fails \in BOOLEAN, Desk!ReadKey(p, fails), fails => db.state # "whole"
        PROVE  JobUnder(task'[p], db.key)
    <3> DEFINE key == Desk!KeyFound(p, fails)
    <3>1. key \in {Desk!NoKey, db.key} /\ (~fails => key = db.key)
      BY DEF Desk!KeyFound, OneKey
    <3> HIDE DEF key
    <3>2. /\ task[p].at \in {"key", "restore"}
          /\ task'[p] = [task[p] EXCEPT
                           !.key = key,
                           !.at = IF key = Desk!NoKey
                                  THEN IF task[p].at = "restore" THEN "regenerate"
                                       ELSE "generate"
                                  ELSE IF task[p].at = "restore" THEN "replace" ELSE "snapshot"]
      BY <2>3 DEF Desk!ReadKey, Desk!At, DeskTypes, DeskJobs, key
    <3>3. /\ task'[p].key = key /\ task'[p].copy = task[p].copy
          /\ task'[p].at = IF key = Desk!NoKey
                           THEN IF task[p].at = "restore" THEN "regenerate"
                                ELSE "generate"
                           ELSE IF task[p].at = "restore" THEN "replace" ELSE "snapshot"
      BY <1>1, <3>2 DEF Desk!Jobs
    <3>4. key = db.key
      <4>1. CASE fails /\ key = Desk!NoKey
        BY <2>3, <3>2, <3>3, <4>1 DEF Desk!Misread
      <4> QED
        BY <3>1, <4>1
    <3> QED
      BY <1>1, <3>2, <3>3, <3>4 DEF JobUnder, Keyed
  <2>4. CASE Desk!Restore(p)
    <3>1. PICK f \in local \cup onedrive \cup custom : Desk!StartRestore(p, f)
      BY <2>4 DEF Desk!Restore
    <3>2. f \in Desk!Files /\ f.key = db.key /\ f.copy.key = db.key /\ f.copy.state = "whole"
      BY UnderFolders DEF FilesUnder
    <3>3. db.key # Desk!NoKey
      BY <3>2, DeskNumbers DEF Desk!Files
    <3>4. task'[p].at = "restore" /\ task'[p].copy = f.copy
      BY <3>1 DEF Desk!StartRestore, Desk!NoJob, DeskTypes, DeskJobs
    <3> QED
      BY <3>2, <3>3, <3>4 DEF JobUnder, Keyed
  <2> QED
    BY <2>1, <2>2, <2>3, <2>4
<1> QED
  BY <1>2, <1>3, <1>4, UnderFolders, OneKeyStep

\* The first key: there is no file yet, nor another job.
LEMMA OneKeyGenerate ==
  ASSUME Desk!Parameters, DeskTypes, OneKey, OneKeyPlan, NEW p \in Processes, plan' = plan,
         plan = "first" => p = q1,
         Desk!GenerateKey(p, FALSE) \/ (Desk!GenerateKey(p, TRUE) /\ db.state # "whole")
  PROVE  OneKey'
<1>1. task[p] \in Desk!Jobs /\ JobUnder(task[p], db.key) /\ task[p].at = "generate"
  <2>1. task[p] \in Desk!Jobs /\ JobUnder(task[p], db.key)
    BY DeskJob DEF OneKey
  <2> QED
    BY <2>1 DEF Desk!GenerateKey, JobUnder
<1>2. /\ db.key = Desk!NoKey /\ db.state = "whole" /\ plan = "first" /\ p = q1
      /\ Desk!GenerateKey(p, FALSE)
  BY <1>1 DEF JobUnder, OneKey, OneKeyPlan
<1>3. local = {} /\ onedrive = {} /\ custom = {}
  <2>1. \A f \in local \cup onedrive \cup custom : f \in Desk!Files /\ f.key = Desk!NoKey
    BY <1>2, UnderFolders DEF FilesUnder
  <2>2. \A f \in Desk!Files : f.key # Desk!NoKey
    BY DeskNumbers DEF Desk!Files
  <2> QED
    BY <2>1, <2>2
<1>4. keys' = db'.key /\ db'.state = db.state /\ UNCHANGED <<local, onedrive, custom>>
  BY <1>2 DEF Desk!GenerateKey, Desk!folders, DeskTypes, DeskKeys, Desk!Databases
<1>5. \A q \in Processes : env'[q] \in {Desk!NoKey, db'.key}
  BY <1>2, <1>4 DEF Desk!GenerateKey, DeskTypes, DeskKeys, OneKey
<1>6. \A q \in Processes \ {q1} : task'[q].at = "idle"
  BY <1>2 DEF Desk!GenerateKey, OneKey, Desk!At, DeskTypes, DeskJobs
<1>7. JobUnder(task'[p], db'.key)
  <2>1. task'[p] = [task[p] EXCEPT !.key = keys', !.at = "snapshot"]
    BY <1>1 DEF Desk!GenerateKey, DeskTypes, DeskJobs
  <2>2. task'[p].key = keys' /\ task'[p].at = "snapshot"
    BY <1>1, <2>1 DEF Desk!Jobs
  <2> QED
    BY <1>4, <2>2 DEF JobUnder, Keyed
<1>8. \A q \in Processes : JobUnder(task'[q], db'.key)
  BY <1>2, <1>6, <1>7 DEF JobUnder, Keyed
<1> QED
  BY <1>2, <1>3, <1>4, <1>5, <1>6, <1>8 DEF OneKey, FilesUnder, Desk!At

LEMMA OneKeyFiles ==
  ASSUME DeskTypes, OneKey, NEW p \in Processes, plan' = plan, plan = "first" => p = q1,
         Desk!OpenFile(p) \/ Desk!WriteFile(p) \/ Desk!CopyToCloud(p)
  PROVE  OneKey'
<1>1. task[p] \in Desk!Jobs /\ JobUnder(task[p], db.key)
  BY DeskJob DEF OneKey
<1>2. UNCHANGED <<db, keys, env>>
  BY DEF Desk!OpenFile, Desk!WriteFile, Desk!CopyToCloud
<1>3. PICK label \in {"write", "copy", "cleanup"} : Desk!Goto(p, label)
  BY DEF Desk!OpenFile, Desk!WriteFile, Desk!CopyToCloud
<1>4. \A q \in Processes \ {p} : task'[q] = task[q]
  BY <1>3 DEF Desk!Goto, DeskTypes, DeskJobs
<1>5. JobUnder(task'[p], db.key)
  <2>1. task'[p] = [task[p] EXCEPT !.at = label]
    BY <1>3 DEF Desk!Goto, DeskTypes, DeskJobs
  <2>2. task'[p].at = label /\ task'[p].key = task[p].key /\ task'[p].copy = task[p].copy
    BY <1>1, <2>1 DEF Desk!Jobs
  <2>3. CASE Desk!OpenFile(p)
    <3>1. task[p].at = "open" /\ label = "write"
      BY <1>1, <2>2, <2>3 DEF Desk!OpenFile, Desk!At, Desk!Goto, DeskTypes, DeskJobs, Desk!Jobs
    <3> QED
      BY <1>1, <2>2, <3>1 DEF JobUnder, Keyed
  <2>4. CASE Desk!WriteFile(p) \/ Desk!CopyToCloud(p)
    <3>1. task[p].at \in {"write", "copy"} /\ label \in {"copy", "cleanup"}
      BY <1>1, <2>2, <2>4 DEF Desk!WriteFile, Desk!CopyToCloud, Desk!At, Desk!Goto, DeskTypes,
         DeskJobs, Desk!Jobs
    <3> QED
      BY <1>1, <2>2, <3>1 DEF JobUnder, Keyed
  <2> QED
    BY <2>3, <2>4
<1>6. FilesUnder(local', db.key) /\ FilesUnder(onedrive', db.key) /\ FilesUnder(custom', db.key)
  <2>1. CASE Desk!OpenFile(p) \/ Desk!WriteFile(p)
    <3>1. task[p].at \in {"open", "write"}
      BY <2>1 DEF Desk!OpenFile, Desk!WriteFile, Desk!At
    <3>2. PICK state :
             local' = (local \ Desk!Named(local)) \cup {Desk!FileOf(p, state)}
      BY <2>1 DEF Desk!OpenFile, Desk!WriteFile
    <3>3. FilesUnder(local', db.key)
      BY <3>1, <3>2, UnderFileOf, UnderFolders, UnderPlaced
    <3> QED
      BY <2>1, <3>3, UnderFolders DEF Desk!OpenFile, Desk!WriteFile
  <2>2. CASE Desk!CopyToCloud(p)
    <3>1. local' = local /\ Desk!Place(Desk!Settle(Desk!Named(local)))
      BY <2>2 DEF Desk!CopyToCloud
    <3> QED
      BY <3>1, UnderFolders, UnderPlaced DEF Desk!Place
  <2> QED
    BY <2>1, <2>2
<1> QED
  BY <1>2, <1>4, <1>5, <1>6, OneKeyStep

\* A restore opens the ledger for a copy under its key, and ends or is broken off
\* with that key in it.
LEMMA OneKeyLedger ==
  ASSUME DeskTypes, OneKey, NEW p \in Processes,
         Desk!OpenLedger(p) \/ Desk!OverwriteLedger(p) \/ Desk!StepFails(p) \/ Desk!Stop(p)
  PROVE  db'.key = db.key /\ (db.key = Desk!NoKey => db'.state = db.state)
<1> USE DEF Desk!Databases
<1>1. /\ db \in Desk!Databases
      /\ task[p].copy \in Desk!Databases /\ JobUnder(task[p], db.key)
  BY DeskJob DEF DeskTypes, DeskKeys, OneKey
<1>2. CASE task[p].at \in {"replace", "overwrite"}
  <2>1. task[p].copy.key = db.key /\ db.key # Desk!NoKey
    BY <1>1, <1>2 DEF JobUnder
  <2>2. \A found \in {db, task[p].copy} : \A state :
           [found EXCEPT !.state = state].key = db.key
    BY <1>1, <2>1
  <2>3. db' = db \/ \E found \in {db, task[p].copy} : \E state :
                       db' = [found EXCEPT !.state = state]
    <3>1. CASE Desk!OpenLedger(p)
      BY <3>1 DEF Desk!OpenLedger
    <3>2. CASE Desk!OverwriteLedger(p)
      BY <3>2 DEF Desk!OverwriteLedger
    <3>3. CASE Desk!StepFails(p) \/ Desk!Stop(p)
      BY <3>3 DEF Desk!StepFails, Desk!Stop, Desk!BrokenOff
    <3> QED
      BY <3>1, <3>2, <3>3
  <2> QED
    BY <2>1, <2>2, <2>3
<1>3. CASE task[p].at \notin {"replace", "overwrite"}
  <2>1. db' = db
    BY <1>3 DEF Desk!OpenLedger, Desk!OverwriteLedger, Desk!StepFails, Desk!Stop, Desk!BrokenOff,
       Desk!At
  <2> QED
    BY <2>1
<1> QED
  BY <1>2, <1>3

LEMMA OneKeyEnds ==
  ASSUME DeskTypes, OneKey, NEW p \in Processes, plan' = plan, plan = "first" => p = q1,
         \/ Desk!Cleanup(p) \/ Desk!StepFails(p) \/ Desk!Stop(p)
         \/ Desk!OpenLedger(p) \/ Desk!OverwriteLedger(p)
  PROVE  OneKey'
<1>1. /\ keys' = keys
      /\ \/ task' = [task EXCEPT ![p] = Desk!NoJob]
         \/ task[p].at = "replace" /\ task' = [task EXCEPT ![p].at = "overwrite"]
  BY DEF Desk!Cleanup, Desk!StepFails, Desk!OpenLedger, Desk!OverwriteLedger, Desk!Stop,
     Desk!Release, Desk!Goto, Desk!At
<1>2. JobUnder(task'[p], db.key) /\ \A q \in Processes \ {p} : task'[q] = task[q]
  <2>1. JobUnder(task[p], db.key)
    BY DEF OneKey
  <2> QED
    BY <1>1, <2>1, NoJobUnder DEF DeskTypes, DeskJobs, Desk!Jobs, JobUnder, Keyed
<1>3. \A q \in Processes : env'[q] \in {env[q], Desk!NoKey}
  BY DEF Desk!Cleanup, Desk!StepFails, Desk!OpenLedger, Desk!OverwriteLedger, Desk!Stop,
     DeskTypes, DeskKeys
<1>4. db'.key = db.key /\ (db.key = Desk!NoKey => db'.state = db.state)
  BY OneKeyLedger DEF Desk!Cleanup
<1>5. FilesUnder(local', db.key) /\ FilesUnder(onedrive', db.key) /\ FilesUnder(custom', db.key)
  <2>1. CASE Desk!Cleanup(p)
    BY <2>1, UnderFolders DEF Desk!Cleanup, Desk!Kept, FilesUnder
  <2>2. CASE Desk!StepFails(p)
    <3>1. CASE UNCHANGED <<onedrive, custom>>
      BY <2>2, <3>1, UnderFolders DEF Desk!StepFails
    <3>2. CASE Desk!Place(Desk!Torn(Desk!Named(local)))
      BY <2>2, <3>2, UnderFolders, UnderPlaced DEF Desk!StepFails, Desk!Place
    <3> QED
      BY <2>2, <3>1, <3>2 DEF Desk!StepFails
  <2>3. CASE Desk!OpenLedger(p) \/ Desk!OverwriteLedger(p)
    BY <2>3, UnderFolders DEF Desk!OpenLedger, Desk!OverwriteLedger, Desk!folders
  <2>4. CASE Desk!Stop(p)
    BY <2>4, UnderFolders DEF Desk!Stop
  <2> QED
    BY <2>1, <2>2, <2>3, <2>4
<1> QED
  BY <1>1, <1>2, <1>3, <1>4, <1>5, OneKeyStep

LEMMA OneKeySame ==
  ASSUME DeskTypes, OneKey, plan' = plan,
         UNCHANGED Desk!vars \/ Desk!SetBackupLocation \/ \E p \in Processes : Desk!Start(p)
  PROVE  OneKey'
<1>1. UNCHANGED <<keys, env, task, local, onedrive, custom>>
  BY DEF Desk!vars, Desk!folders, Desk!threads, Desk!SetBackupLocation, Desk!Start
<1>2. db'.key = db.key /\ db'.state = db.state
  BY DEF Desk!vars, Desk!SetBackupLocation, Desk!Start, DeskTypes, DeskKeys, Desk!Databases
<1> QED
  BY <1>1, <1>2 DEF OneKey, Desk!At

LEMMA DeskMCStep == [Desk!MCNext]_Desk!MCvars => [Desk!Next]_Desk!vars /\ plan' = plan
  BY DEF Desk!MCNext, Desk!MCvars, Desk!Act, Desk!Next

\* What was misread stays misread.
LEMMA MisreadStays ==
  ASSUME misread \in BOOLEAN, [Desk!MCNext]_Desk!MCvars
  PROVE  /\ misread' \in BOOLEAN
         /\ ~misread' => ~misread /\ (Desk!MCNext => \A p \in Processes : ~Desk!Misread(p))
<1> DEFINE missed == \E p \in Processes : Desk!Misread(p)
<1>1. missed \in BOOLEAN
  OBVIOUS
<1>2. CASE Desk!MCNext
  <2>1. misread' = (misread \/ missed)
    BY <1>2 DEF Desk!MCNext
  <2> HIDE DEF missed
  <2>2. misread' \in BOOLEAN /\ (~misread' => ~misread /\ ~missed)
    BY <1>1, <2>1
  <2> QED
    BY <1>2, <2>2 DEF missed
<1>3. CASE UNCHANGED Desk!MCvars /\ ~Desk!MCNext
  BY <1>3 DEF Desk!MCvars
<1> QED
  BY <1>2, <1>3

LEMMA OneKeyNext ==
  ASSUME Desk!Parameters, DeskTypes, OneKeyPlan, OneKey, [Desk!MCNext]_Desk!MCvars,
         misread \in BOOLEAN, ~misread'
  PROVE  OneKey'
<1>1. plan' = plan
  BY DeskMCStep
<1>2. CASE UNCHANGED Desk!MCvars
  BY <1>1, <1>2, OneKeySame DEF Desk!MCvars
<1>3. CASE Desk!Tick
  BY <1>1, <1>3, OneKeyTick
<1>4. ASSUME NEW p \in Processes, plan = "first" => p = q1, ~Desk!Misread(p),
             Desk!Start(p) \/ Desk!Wake(p) \/ Desk!BackupStep(p) \/ Desk!MisreadStep(p)
      PROVE  OneKey'
  BY <1>1, <1>4, OneKeySame, OneKeyJobs, OneKeyGenerate, OneKeyFiles, OneKeyEnds
  DEF Desk!BackupStep, Desk!MisreadStep
<1>5. ASSUME NEW p \in Processes, plan = "first" => p = q1, ~Desk!Misread(p), Desk!Act(p)
      PROVE  OneKey'
  BY <1>1, <1>5, OneKeySame, OneKeyJobs, OneKeyEnds DEF Desk!Act, Desk!Fault, OneKeyPlan
<1> QED
  BY <1>2, <1>3, <1>4, <1>5, MisreadStays DEF Desk!MCNext, Desk!Pair, OneKeyPlan

\* One process from its first backup, or any number that find a key stored:
\* through restarts, failures and restores, every whole file holds a whole
\* ledger under the key that ledger has, until a process takes a backup of, or
\* misses the key in, a ledger that a restore is copying over or was broken off
\* over (backup_service.py, _get_or_create_encryption_key, restore_backup).
THEOREM BackupsStayReadable ==
  ASSUME Desk!Parameters
  PROVE  Desk!MCSpec => []Desk!FilesReadable
<1> DEFINE Inv == DeskTypes /\ misread \in BOOLEAN /\ (OneKeyPlan /\ ~misread => OneKey)
<1>1. Desk!MCInit => Inv
  BY DeskInit, OneKeyInit DEF Desk!MCInit
<1>2. Inv /\ [Desk!MCNext]_Desk!MCvars => Inv'
  BY DeskMCStep, DeskNext, OneKeyNext, MisreadStays DEF OneKeyPlan
<1>3. Inv => Desk!FilesReadable
  BY DEF OneKey, OneKeyPlan, FilesUnder, Desk!FilesReadable
<1> HIDE DEF Inv
<1> QED
  BY <1>1, <1>2, <1>3, PTL DEF Desk!MCSpec
=============================================================================
