--------------------------- MODULE MCDesktopBackups ---------------------------
(* Small instances of DesktopBackups for TLC. A behaviour has one process    *)
(* that takes its first backup, with failures, restarts and restores         *)
(* ("first"); or two processes on a ledger that has its key ("shared"); or   *)
(* one process that stays up and nothing fails ("night"); or two whose reads *)
(* and writes of the settings fail as well, and legacy files ("faulty").     *)
EXTENDS DesktopBackups

CONSTANTS q1, q2,
    MaxActs     \* bound on what the admin does, fails or stops with one
                \* process, one less with two; nothing after a misreading

VARIABLES schedule, acts,
    misread     \* whether a backup was ever taken of, or a key missed in, a
                \* ledger that a copy is being written over or half covers

MCvars == <<vars, schedule, acts, misread>>

MCInit ==
    /\ Init
    /\ acts = 0 /\ misread = FALSE
    /\ schedule \in {"first", "shared", "night", "faulty"}
    /\ keys = IF schedule \in {"shared", "night"} THEN 1 ELSE 0

Pair == schedule \in {"shared", "faulty"}
Bound == IF Pair THEN MaxActs - 1 ELSE MaxActs

\* The steps counted in acts.
Act(p) ==
    \/ CreateNow(p)
    \/ Restore(p)
    \/ Fault(p)
    \/ SetBackupLocation /\ schedule = "first"
    \/ (RestoreLegacy(p) \/ ConfigFault(p)) /\ schedule = "faulty"

\* A step that misreads the ledger.
Misread(p) ==
    /\ db.state # "whole"
    /\ \/ At(p, "snapshot") /\ job'[p].at = "open"
       \/ /\ job[p].at \in {"key", "restore"}
          /\ job'[p].at \in {"generate", "regenerate"}

MCNext ==
    /\ UNCHANGED schedule
    /\ \/ Tick /\ UNCHANGED acts
       \/ \E p \in Processes :
             /\ Pair \/ p = q1
             /\ \/ (Start(p) \/ Wake(p) \/ BackupStep(p) \/ MisreadStep(p)) /\ UNCHANGED acts
                \/ schedule = "night" /\ CreateNow(p) /\ UNCHANGED acts
                \/ schedule # "night" /\ acts < Bound /\ ~misread /\ Act(p) /\ acts' = acts + 1
    /\ misread' = (misread \/ \E p \in Processes : Misread(p))

MCSpec == MCInit /\ [][MCNext]_MCvars /\ Fairness

-----------------------------------------------------------------------------
\* One process from its first backup, or any number that find a key stored:
\* through restarts, failures and restores, every whole file holds a whole
\* ledger under the key that ledger has, until a process takes a backup of, or
\* misses the key in, a ledger that a restore is copying over or was broken off
\* over (backup_service.py, _get_or_create_encryption_key, restore_backup).
FilesReadable ==
    schedule \in {"first", "shared"} /\ ~misread =>
        \A f \in local \cup onedrive \cup custom :
            f.state = "whole" => f.key = db.key /\ f.copy.state = "whole"

\* A process that stays up has a whole file of the day, day after day, though
\* the admin takes backups too (backup_scheduler.py, start_backup_scheduler).
NightlyBackup ==
    schedule = "night" =>
        (<>[](q1 \in up) => []<>(\E f \in local : f.age = 0 /\ f.state = "whole"))
=============================================================================
