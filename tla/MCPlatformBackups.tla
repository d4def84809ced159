--------------------------- MODULE MCPlatformBackups ---------------------------
(* Small instances of PlatformBackups for TLC. A behaviour runs backups and  *)
(* restores one at a time, the servers working in between ("window"); or it  *)
(* interleaves them all, with one run ("serving"); or it takes backups and   *)
(* restores of a settled platform over the days ("calendar").                *)
EXTENDS PlatformBackups, TLC

CONSTANTS b1, b2

VARIABLE schedule

MCvars == <<vars, schedule>>

MCInit ==
    /\ Init
    /\ schedule \in {"window", "serving", "calendar"}
    /\ IF schedule = "calendar" THEN Settled ELSE Fresh

Alone == schedule \in {"window", "calendar"}
BackupsIdle == \A b \in Backers : At(b, "idle")

\* Bound: runs begun, where each is a run of daily files but in the calendar.
RoomFor == [window |-> 2, serving |-> 1, calendar |-> MaxRuns]

Begins(b) == At(b, "idle") /\ ~At(b, "idle")'

BackupStep(b) ==
    /\ Backup(b)
    /\ Alone => Resting /\ \A c \in Backers \ {b} : At(c, "idle")
    /\ Begins(b) =>
          /\ Len(runs) + Cardinality({c \in Backers : ~At(c, "idle")}) < RoomFor[schedule]
          /\ job'[b].schedule = "daily" \/ schedule = "calendar"

MCNext ==
    /\ UNCHANGED schedule
    /\ \/ Server /\ schedule # "calendar" /\ (Alone => BackupsIdle /\ Resting)
       \/ \E b \in Backers : BackupStep(b)
       \/ Restore /\ (Alone => BackupsIdle)
       \/ NewDay /\ schedule = "calendar"

MCSpec == MCInit /\ [][MCNext]_MCvars

Symmetry == Permutations({b1, b2})

\* Daily files are kept for the day, weekly ones for one more.
KeepDays == [s \in {"daily", "weekly"} |-> IF s = "daily" THEN 0 ELSE 1]

-----------------------------------------------------------------------------
\* What the manifests promise: the newest of a schedule still has its files,
\* and a successful run without anything else under way holds a copy of every
\* ledger that its copy of platform.db has as active (service.py, run_backup
\* and apply_retention).
ManifestsSound ==
    /\ LastRunWhole
    /\ Alone =>
          \A i \in DOMAIN runs : runs[i].success =>
              {f \in Firms : runs[i].tenants[f] >= 0} =
                  {f \in runs[i].copy.spaces : runs[i].copy.status[f] = "active"}

\* A full restore from a successful run that ends leaves the registry and every
\* ledger of the run as they were copied, after any number of restores that
\* stopped or died half-way.
RestoreWhole ==
    [][Alone /\ RestoreEnds /\ restore.what = "full" =>
          LET run == runs[restore.run]
          IN  /\ status = run.copy.status /\ spaces = run.copy.spaces
              /\ \A f \in Firms :
                    run.tenants[f] >= 0 => data[f] = run.tenants[f]]_MCvars
=============================================================================
