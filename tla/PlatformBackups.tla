---------------------------- MODULE PlatformBackups ---------------------------
(* Backups of platform.db and of every active tenant's ledger, their         *)
(* manifests and retention, and the restore scripts                          *)
(* (nexal_platform/backup). A run copies one database after another while    *)
(* the servers register firms and write ledgers; a full restore replaces one *)
(* after another.                                                            *)
(*                                                                           *)
(* A ledger is abstracted to the number of edits it holds, a checksum and a  *)
(* zip test to whether the backup file is still there.                       *)
EXTENDS Integers, Sequences, FiniteSets

CONSTANTS
    Backers,      \* processes that run scripts/backup_all.py
    Firms,        \* platform firm ids, 1..n in the order they are created
    Schedules,    \* retention tiers: "daily", "weekly", "monthly"
    Keep,         \* per schedule, the age in days up to which files are kept
    MaxRuns,      \* bound on completed runs
    MaxEdits      \* bound on the edits of a ledger

ASSUME BackupAssumption ==
    /\ IsFiniteSet(Backers)
    /\ Firms \subseteq Nat \ {0}
    /\ Schedules \subseteq {"daily", "weekly", "monthly"}
    /\ Keep \in [Schedules -> Nat]
    /\ MaxRuns \in Nat /\ MaxEdits \in Nat

\* The state of a ledger file that is not there, and of a manifest entry that
\* is missing or failed; an entry that succeeded is the state it copied.
Missing == -1
Absent == -2
Failed == -3

\* The platform database: its rows, and the copy a run keeps of them.
NoCopy == [status |-> [f \in Firms |-> "none"], spaces |-> {}]

NoJob == [at |-> "idle", schedule |-> "none", todo |-> {}, platform |-> FALSE,
          copy |-> NoCopy, tenants |-> [f \in Firms |-> Absent]]
NoRestore == [at |-> "idle", what |-> "none", run |-> 0, todo |-> {}]

VARIABLES
    status,    \* platform.db: the status of each firm, "none" before and after
    spaces,    \* platform.db: the firms that have a workspace
    created,   \* how many firms were ever created; ids are not used again
    data,      \* each tenant's ledger file
    job,       \* each backup process's run in progress
    runs,      \* the manifests written, with what is left of their files
    restore    \* the restore script in progress

registry == <<status, spaces, created>>
vars == <<registry, data, job, runs, restore>>

TypeOK ==
    /\ status \in [Firms -> {"none", "active", "suspended"}]
    /\ spaces \subseteq {f \in Firms : status[f] # "none"}
    /\ created \in {0} \cup Firms
    /\ data \in [Firms -> Missing..MaxEdits]
    /\ Len(runs) <= MaxRuns
    /\ \A i \in 1..Len(runs) :
          /\ runs[i].success => runs[i].platform /\ Failed \notin {runs[i].tenants[f] : f \in Firms}
          /\ runs[i].kept \in BOOLEAN
          /\ runs[i].age \in 0..(Keep[runs[i].schedule] + 1)
    /\ restore.run \in 0..Len(runs)

-----------------------------------------------------------------------------
(* What the servers do meanwhile (TenantRegistry).                          *)

CreateFirm ==
    /\ created + 1 \in Firms
    /\ created' = created + 1
    /\ status' = [status EXCEPT ![created + 1] = "active"]
    /\ UNCHANGED <<spaces, data, job, runs, restore>>

CreateWorkspace(f) ==
    /\ status[f] # "none"
    /\ f \notin spaces
    /\ spaces' = spaces \cup {f}
    /\ data' = [data EXCEPT ![f] = IF @ = Missing THEN 0 ELSE @]
    /\ UNCHANGED <<status, created, job, runs, restore>>

UpdateFirmStatus(f) ==
    /\ status[f] # "none"
    /\ status' = [status EXCEPT ![f] = IF @ = "active" THEN "suspended" ELSE "active"]
    /\ UNCHANGED <<spaces, created, data, job, runs, restore>>

\* A posting in the ledger of a firm that is served.
Edit(f) ==
    /\ f \in spaces
    /\ status[f] = "active"
    /\ data[f] \in 0..(MaxEdits - 1)
    /\ data' = [data EXCEPT ![f] = @ + 1]
    /\ UNCHANGED <<registry, job, runs, restore>>

Server ==
    \/ CreateFirm
    \/ \E f \in Firms : CreateWorkspace(f) \/ UpdateFirmStatus(f) \/ Edit(f)

-----------------------------------------------------------------------------
(* BackupService.run_backup.                                                *)

At(b, label) == job[b].at = label

\* A completed run ends, so that a run begun needs room for its manifest.
StartBackup(b, schedule) ==
    /\ At(b, "idle")
    /\ Len(runs) + Cardinality({c \in Backers : ~At(c, "idle")}) < MaxRuns
    /\ job' = [job EXCEPT ![b] = [NoJob EXCEPT !.at = "platform", !.schedule = schedule]]
    /\ UNCHANGED <<registry, data, runs, restore>>

\* backup_platform: the snapshot, its package or its checksum may fail.
BackupPlatform(b) ==
    /\ At(b, "platform")
    /\ \/ job' = [job EXCEPT ![b].at = "list", ![b].platform = TRUE,
                             ![b].copy = [status |-> status, spaces |-> spaces]]
       \/ job' = [job EXCEPT ![b].at = "list"]
    /\ UNCHANGED <<registry, data, runs, restore>>

\* Mutant: suspended firms are listed too.
ListFirms_All(b) ==
    /\ At(b, "list")
    /\ job' = [job EXCEPT ![b].at = "tenants", ![b].todo = {f \in Firms : status[f] # "none"}]
    /\ UNCHANGED <<registry, data, runs, restore>>

\* backup_tenants lists the firms of the live registry.
ListFirms(b) ==
    /\ At(b, "list")
    /\ job' = [job EXCEPT ![b].at = "tenants",
                          ![b].todo = {f \in Firms : status[f] = "active"}]
    /\ UNCHANGED <<registry, data, runs, restore>>

\* One tenant after another, in the order they were created. A firm without a
\* workspace or a file is a failed entry.
BackupTenant(b) ==
    /\ At(b, "tenants")
    /\ job[b].todo # {}
    /\ LET f == CHOOSE f \in job[b].todo : \A g \in job[b].todo : f <= g
       IN  \E entry \in {Failed} \cup (IF f \in spaces THEN {data[f]} \ {Missing} ELSE {}) :
              job' = [job EXCEPT ![b].todo = @ \ {f}, ![b].tenants[f] = entry]
    /\ UNCHANGED <<registry, data, runs, restore>>

\* Mutant: the failure of a tenant does not count.
WriteManifest_Lenient(b) ==
    /\ At(b, "tenants")
    /\ job[b].todo = {}
    /\ runs' = Append(runs,
          [schedule |-> job[b].schedule, platform |-> job[b].platform,
           copy |-> job[b].copy, tenants |-> job[b].tenants, age |-> 0, kept |-> TRUE,
           success |-> job[b].platform])
    /\ job' = [job EXCEPT ![b] = [NoJob EXCEPT !.at = "retention",
                                               !.schedule = job[b].schedule]]
    /\ UNCHANGED <<registry, data, restore>>

\* The manifest is a success when every entry is.
WriteManifest(b) ==
    /\ At(b, "tenants")
    /\ job[b].todo = {}
    /\ runs' = Append(runs,
          [schedule |-> job[b].schedule, platform |-> job[b].platform,
           copy |-> job[b].copy, tenants |-> job[b].tenants, age |-> 0, kept |-> TRUE,
           success |-> job[b].platform /\ \A f \in Firms : job[b].tenants[f] # Failed])
    /\ job' = [job EXCEPT ![b] = [NoJob EXCEPT !.at = "retention",
                                               !.schedule = job[b].schedule]]
    /\ UNCHANGED <<registry, data, restore>>

\* Mutant: the cutoff of one schedule is applied to the files of all.
ApplyRetention_AllSchedules(b) ==
    /\ At(b, "retention")
    /\ runs' = [i \in DOMAIN runs |->
          IF runs[i].age > Keep[job[b].schedule] THEN [runs[i] EXCEPT !.kept = FALSE] ELSE runs[i]]
    /\ job' = [job EXCEPT ![b] = NoJob]
    /\ UNCHANGED <<registry, data, restore>>

\* apply_retention removes the schedule's files older than the cutoff, whether
\* or not the runs since then succeeded. Manifests stay.
ApplyRetention(b) ==
    /\ At(b, "retention")
    /\ runs' = [i \in DOMAIN runs |->
          IF runs[i].schedule = job[b].schedule /\ runs[i].age > Keep[job[b].schedule]
          THEN [runs[i] EXCEPT !.kept = FALSE] ELSE runs[i]]
    /\ job' = [job EXCEPT ![b] = NoJob]
    /\ UNCHANGED <<registry, data, restore>>

\* The process ends before its manifest is written, or before retention.
BackupDies(b) ==
    /\ ~At(b, "idle")
    /\ job' = [job EXCEPT ![b] = NoJob]
    /\ UNCHANGED <<registry, data, runs, restore>>

\* A day passes; no run takes as long as that.
NewDay ==
    /\ \A b \in Backers : At(b, "idle")
    /\ runs' = [i \in DOMAIN runs |->
          [runs[i] EXCEPT !.age = IF @ > Keep[runs[i].schedule] THEN @ ELSE @ + 1]]
    /\ UNCHANGED <<registry, data, job, restore>>

Backup(b) ==
    \/ \E schedule \in Schedules : StartBackup(b, schedule)
    \/ BackupPlatform(b) \/ ListFirms(b) \/ BackupTenant(b)
    \/ WriteManifest(b) \/ ApplyRetention(b) \/ BackupDies(b)

\* latest_manifest takes the last file name: by schedule first, and within one
\* by the random run id.
NameOrder(schedule) == CASE schedule = "weekly" -> 3 [] schedule = "monthly" -> 2 [] OTHER -> 1

LatestManifest ==
    {i \in DOMAIN runs :
        \A j \in DOMAIN runs : NameOrder(runs[j].schedule) <= NameOrder(runs[i].schedule)}

-----------------------------------------------------------------------------
(* RestoreService.                                                          *)

\* The entry must have succeeded and its file must be there.
Valid(i, entry) == entry \notin {Absent, Failed} /\ runs[i].kept

Resting == restore = NoRestore

\* restore_full.py, restore_platform.py, or restore_tenant.py for a firm.
StartRestore(i, what, todo) ==
    /\ Resting
    /\ restore' = [at |-> IF what = "tenant" THEN "tenants" ELSE "platform",
                   what |-> what, run |-> i, todo |-> todo]
    /\ UNCHANGED <<registry, data, job, runs>>

\* Mutant: the tenants whose backup failed are taken too.
RestoreOf_FailedToo(i) ==
    \/ StartRestore(i, "full", {f \in Firms : runs[i].tenants[f] # Absent})
    \/ StartRestore(i, "platform", {})
    \/ \E f \in Firms : StartRestore(i, "tenant", {f})

\* A full restore takes the manifest's successful tenants one by one.
RestoreOf(i) ==
    \/ StartRestore(i, "full", {f \in Firms : runs[i].tenants[f] >= 0})
    \/ StartRestore(i, "platform", {})
    \/ \E f \in Firms : StartRestore(i, "tenant", {f})

\* restore_platform replaces platform.db; a copy of the old one is kept.
RestorePlatform ==
    /\ restore.at = "platform"
    /\ LET run == runs[restore.run]
       IN  /\ run.platform /\ run.kept
           /\ status' = run.copy.status
           /\ spaces' = run.copy.spaces
    /\ restore' = [restore EXCEPT !.at = "tenants"]
    /\ UNCHANGED <<created, data, job, runs>>

NextTenant == CHOOSE f \in restore.todo : \A g \in restore.todo : f <= g

\* Mutant: a ledger that is there is kept.
RestoreTenant_MissingOnly ==
    /\ restore.at = "tenants"
    /\ restore.todo # {}
    /\ LET f == NextTenant
           entry == runs[restore.run].tenants[f]
       IN  /\ Valid(restore.run, entry) /\ f \in spaces
           /\ data' = [data EXCEPT ![f] = IF @ = Missing THEN entry ELSE @]
           /\ restore' = [restore EXCEPT !.todo = @ \ {f}]
    /\ UNCHANGED <<registry, job, runs>>

\* restore_tenant looks the workspace up in the registry as it is now.
RestoreTenant ==
    /\ restore.at = "tenants"
    /\ restore.todo # {}
    /\ LET f == NextTenant
           entry == runs[restore.run].tenants[f]
       IN  /\ Valid(restore.run, entry) /\ f \in spaces
           /\ data' = [data EXCEPT ![f] = entry]
           /\ restore' = [restore EXCEPT !.todo = @ \ {f}]
    /\ UNCHANGED <<registry, job, runs>>

\* Where the code raises RestoreError or KeyError the script ends; what it has
\* replaced so far stays.
RestoreStops ==
    /\ \/ restore.at = "platform" /\ ~(runs[restore.run].platform /\ runs[restore.run].kept)
       \/ /\ restore.at = "tenants"
          /\ restore.todo # {}
          /\ \/ ~Valid(restore.run, runs[restore.run].tenants[NextTenant])
             \/ NextTenant \notin spaces
    /\ restore' = NoRestore
    /\ UNCHANGED <<registry, data, job, runs>>

RestoreEnds ==
    /\ restore.at = "tenants"
    /\ restore.todo = {}
    /\ restore' = NoRestore
    /\ UNCHANGED <<registry, data, job, runs>>

RestoreDies ==
    /\ ~Resting
    /\ restore' = NoRestore
    /\ UNCHANGED <<registry, data, job, runs>>

Restore ==
    \/ \E i \in DOMAIN runs : RestoreOf(i)
    \/ RestorePlatform \/ RestoreTenant \/ RestoreStops \/ RestoreEnds \/ RestoreDies

-----------------------------------------------------------------------------
\* A platform with no firm, or with every firm registered and its ledger there.
Fresh ==
    /\ status = [f \in Firms |-> "none"]
    /\ spaces = {}
    /\ created = 0
    /\ data = [f \in Firms |-> Missing]

Settled ==
    /\ status = [f \in Firms |-> "active"]
    /\ spaces = Firms
    /\ created \in Firms /\ \A f \in Firms : f <= created
    /\ data = [f \in Firms |-> 0]

Init ==
    /\ Fresh \/ Settled
    /\ job = [b \in Backers |-> NoJob]
    /\ runs = <<>>
    /\ restore = NoRestore

Next ==
    \/ Server
    \/ \E b \in Backers : Backup(b)
    \/ Restore
    \/ NewDay

Spec == Init /\ [][Next]_vars

-----------------------------------------------------------------------------
\* The newest manifest of a schedule has all its files: retention takes only
\* files past their age, and only when a newer run of the schedule has ended
\* (service.py, apply_retention).
LastRunWhole ==
    \A i \in DOMAIN runs :
        ~runs[i].kept => \E j \in DOMAIN runs : j > i /\ runs[j].schedule = runs[i].schedule

\* A full restore of files that are all there stops half-way only if the
\* manifest names a firm that the run's own copy of platform.db has no workspace
\* for: one registered while the run was under way (restore.py, restore_full).
HalfRestoreCauses ==
    [][restore.what = "full" /\ restore.at = "tenants" /\ RestoreStops =>
          \/ ~runs[restore.run].kept
          \/ NextTenant \notin runs[restore.run].copy.spaces]_vars
=============================================================================
