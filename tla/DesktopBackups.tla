---------------------------- MODULE DesktopBackups ----------------------------
(* The encrypted backups of one ledger file (backup_service.py), the thread  *)
(* that takes one every night (backup_scheduler.py), and the admin's pages   *)
(* that take and restore them. Every server process runs a scheduler of its  *)
(* own, has its own BACKUP_LOCK and its own environment; they share the      *)
(* database and the folders.                                                 *)
(*                                                                           *)
(* The ledger is abstracted to the two settings the backups depend on, the   *)
(* encryption key and whether a custom folder is set, and to whether a copy  *)
(* is being written over it. Time goes in slots of five minutes. A backup or *)
(* a restore ends in the slot it began in, and what is done in one slot is   *)
(* done in one minute, the one in a file's name.                             *)
EXTENDS Integers, FiniteSets

CONSTANTS
    Processes,      \* server processes
    DayLen,         \* slots in a day, from midnight
    Night,          \* the slots from 03:00 to 03:10
    Hour,           \* slots in an hour
    RetentionDays,  \* RETENTION_DAYS
    MaxKeys         \* bound on the keys ever generated

\* A night within the day, and a key to generate at least.
Parameters ==
    /\ DayLen \in Nat \ {0} /\ Night \subseteq 0..(DayLen - 1)
    /\ Hour \in Nat /\ RetentionDays \in Nat /\ MaxKeys \in Nat \ {0}

ASSUME DesktopAssumption == Parameters

NoKey == 0

\* A ledger that is being overwritten, or was left half-written, may or may not
\* show what it holds.
Databases == [key : 0..MaxKeys, custom : BOOLEAN, state : {"writing", "whole", "broken"}]
Empty == [key |-> NoKey, custom |-> FALSE, state |-> "whole"]

\* A backup file: its name (days ago, slot), the key it is encrypted with and
\* the copy of the database in it.
Files == [age : 0..(RetentionDays + 1), slot : 0..(DayLen - 1), key : 1..MaxKeys,
          copy : Databases, state : {"writing", "whole", "broken"}]

\* What a process does under its BACKUP_LOCK: for whom, the key it read, the
\* copy it took or was given, and the key that opens the file it was given.
Jobs == [at : {"idle", "key", "generate", "snapshot", "open", "write", "copy", "cleanup",
               "restore", "regenerate", "replace", "overwrite"},
         by : {"nobody", "scheduler", "admin"},
         key : 0..MaxKeys, copy : Databases, opens : 0..MaxKeys]
NoJob == [at |-> "idle", by |-> "nobody", key |-> NoKey, copy |-> Empty, opens |-> NoKey]

VARIABLES
    slot,      \* the time of day
    db,        \* the ledger in place and its system_config
    keys,      \* how many keys were generated
    up,        \* the processes that run
    env,       \* BACKUP_ENCRYPTION_KEY in each process's environment
    local,     \* the files of the local folder,
    onedrive,  \*   of the OneDrive folder
    custom,    \*   and of the custom folder
    job,       \* what each process does
    wait,      \* slots until each scheduler thread wakes
    lastRun    \* whether each thread's _last_run_date is today

folders == <<local, onedrive, custom>>
threads == <<wait, lastRun>>
vars == <<slot, db, keys, up, env, folders, job, threads>>

\* No folder has two files of one name, and a cloud folder has no open file.
TypeOK ==
    /\ slot \in 0..(DayLen - 1)
    /\ db \in Databases /\ keys \in 0..MaxKeys
    /\ up \subseteq Processes
    /\ env \in [Processes -> 0..MaxKeys]
    /\ local \cup onedrive \cup custom \subseteq Files
    /\ \A folder \in {local, onedrive, custom} : \A f, g \in folder :
          f.age = g.age /\ f.slot = g.slot /\ f.age <= RetentionDays => f = g
    /\ \A f \in onedrive \cup custom : f.state # "writing"
    /\ job \in [Processes -> Jobs]
    /\ wait \in [Processes -> 0..(Hour + 1)] /\ lastRun \in [Processes -> BOOLEAN]

At(p, label) == job[p].at = label
Goto(p, label) == job' = [job EXCEPT ![p].at = label]

\* The lock is released; the scheduler sleeps for an hour and a round.
Release(p) ==
    /\ job' = [job EXCEPT ![p] = NoJob]
    /\ wait' = IF job[p].by = "scheduler" THEN [wait EXCEPT ![p] = Hour + 1] ELSE wait
    /\ UNCHANGED lastRun

-----------------------------------------------------------------------------
(* backup_scheduler.py.                                                     *)

Due(p) == p \in up /\ wait[p] = 0 /\ job[p].by # "scheduler"

\* The thread looks at the clock every five minutes, and at 03:00. A run that
\* finds the lock taken, or fails, counts as the night's run.
Wake(p) ==
    /\ Due(p)
    /\ IF slot \in Night /\ ~lastRun[p]
       THEN /\ lastRun' = [lastRun EXCEPT ![p] = TRUE]
            /\ IF At(p, "idle")
               THEN /\ job' = [job EXCEPT ![p].at = "key", ![p].by = "scheduler"]
                    /\ UNCHANGED wait
               ELSE wait' = [wait EXCEPT ![p] = Hour + 1] /\ UNCHANGED job
       ELSE /\ wait' = [wait EXCEPT ![p] = IF slot \in Night THEN Hour + 1 ELSE 1]
            /\ UNCHANGED <<job, lastRun>>
    /\ UNCHANGED <<slot, db, keys, up, env, folders>>

\* At midnight every file is a day older.
Older(folder) == {[f EXCEPT !.age = IF @ > RetentionDays THEN @ ELSE @ + 1] : f \in folder}

\* Mutant: a thread that has run once never runs again.
Today_Forgotten(done) == done

\* A new date: what was run was run the day before.
Today(done) == [p \in Processes |-> FALSE]

\* Five minutes pass: the threads that were due have run.
Tick ==
    /\ \A p \in Processes : At(p, "idle") /\ ~Due(p)
    /\ slot' = (slot + 1) % DayLen
    /\ wait' = [p \in Processes |-> IF wait[p] = 0 THEN 0 ELSE wait[p] - 1]
    /\ IF slot' = 0
       THEN /\ lastRun' = Today(lastRun)
            /\ local' = Older(local) /\ onedrive' = Older(onedrive) /\ custom' = Older(custom)
       ELSE UNCHANGED <<lastRun, folders>>
    /\ UNCHANGED <<db, keys, up, env, job>>

-----------------------------------------------------------------------------
(* create_backup.                                                           *)

\* backup_create_now, where no platform is configured.
CreateNow(p) ==
    /\ p \in up /\ At(p, "idle")
    /\ job' = [job EXCEPT ![p].at = "key", ![p].by = "admin"]
    /\ UNCHANGED <<slot, db, keys, up, env, folders, threads>>

\* _get_or_create_encryption_key: the environment, else the database; reading
\* that fails finds none.
KeyFound(p, readFails) == IF env[p] # NoKey \/ readFails THEN env[p] ELSE db.key

ReadKey(p, readFails) ==
    /\ job[p].at \in {"key", "restore"}
    /\ LET key == KeyFound(p, readFails)
           restore == At(p, "restore")
       IN  job' = [job EXCEPT
                     ![p].key = key,
                     ![p].at = IF key = NoKey
                               THEN IF restore THEN "regenerate" ELSE "generate"
                               ELSE IF restore THEN "replace" ELSE "snapshot"]
    /\ UNCHANGED <<slot, db, keys, up, env, folders, threads>>

\* Mutant: the key is put into the environment only.
GenerateKey_EnvOnly(p, writeFails) ==
    /\ job[p].at \in {"generate", "regenerate"}
    /\ keys < MaxKeys
    /\ keys' = keys + 1
    /\ env' = [env EXCEPT ![p] = keys']
    /\ job' = [job EXCEPT ![p].key = keys',
                          ![p].at = IF @ = "generate" THEN "snapshot" ELSE "replace"]
    /\ UNCHANGED <<slot, db, up, folders, threads>>

\* Where no key was found one is generated. _set_config swallows its failure;
\* the environment has the key either way.
GenerateKey(p, writeFails) ==
    /\ job[p].at \in {"generate", "regenerate"}
    /\ keys < MaxKeys
    /\ keys' = keys + 1
    /\ db' = IF writeFails THEN db ELSE [db EXCEPT !.key = keys']
    /\ env' = [env EXCEPT ![p] = keys']
    /\ job' = [job EXCEPT ![p].key = keys',
                          ![p].at = IF @ = "generate" THEN "snapshot" ELSE "replace"]
    /\ UNCHANGED <<slot, up, folders, threads>>

\* _create_db_snapshot falls back on a plain copy, of a half-written ledger too.
Snapshot(p) ==
    /\ At(p, "snapshot")
    /\ LET state == IF db.state = "whole" THEN "whole" ELSE "broken"
       IN  job' = [job EXCEPT ![p].at = "open", ![p].copy = [db EXCEPT !.state = state]]
    /\ UNCHANGED <<slot, db, keys, up, env, folders, threads>>

\* The file of this minute's name.
Named(folder) == {f \in folder : f.age = 0 /\ f.slot = slot}
FileOf(p, state) == [age |-> 0, slot |-> slot, key |-> job[p].key,
                     copy |-> job[p].copy, state |-> state]

\* Opening empties the file of that name; a second writer does not wait.
OpenFile(p) ==
    /\ At(p, "open")
    /\ LET shared == \E f \in Named(local) : f.state = "writing"
       IN  local' = (local \ Named(local)) \cup {FileOf(p, IF shared THEN "broken" ELSE "writing")}
    /\ Goto(p, "write")
    /\ UNCHANGED <<slot, db, keys, up, env, onedrive, custom, threads>>

\* The only writer leaves a whole file; two, the file of the later or parts of
\* both.
WriteFile(p) ==
    /\ At(p, "write")
    /\ \E state \in IF \E f \in Named(local) : f.state = "writing"
                    THEN {"whole"} ELSE {"whole", "broken"} :
          local' = (local \ Named(local)) \cup {FileOf(p, state)}
    /\ Goto(p, "copy")
    /\ UNCHANGED <<slot, db, keys, up, env, onedrive, custom, threads>>

\* A file of which only a part was written or copied.
Torn(files) == {[f EXCEPT !.state = "broken"] : f \in files}

\* Mutant: the copy is made of the file that is still open.
Settle_Open(files) == files

Settle(files) == {f \in files : f.state # "writing"} \cup Torn({f \in files : f.state = "writing"})

\* get_active_cloud_backup_dir: the custom folder if one is found set, else
\* OneDrive. The copy takes the file as it is by then; one that fails leaves a
\* part.
Place(files) ==
    \/ /\ db.custom
       /\ custom' = (custom \ Named(custom)) \cup files /\ UNCHANGED onedrive
    \/ /\ ~db.custom \/ db.state # "whole"
       /\ onedrive' = (onedrive \ Named(onedrive)) \cup files /\ UNCHANGED custom

CopyToCloud(p) ==
    /\ At(p, "copy")
    /\ Place(Settle(Named(local)))
    /\ Goto(p, "cleanup")
    /\ UNCHANGED <<slot, db, keys, up, env, local, threads>>

\* cleanup_old_backups: the local folder and OneDrive, not the custom folder.
Kept(folder) ==
    {f \in folder : f.age < RetentionDays \/ (f.age = RetentionDays /\ f.slot >= slot)}

Cleanup(p) ==
    /\ At(p, "cleanup")
    /\ local' = Kept(local) /\ onedrive' = Kept(onedrive)
    /\ Release(p)
    /\ UNCHANGED <<slot, db, keys, up, env, custom>>

\* The ledger after a copy over it was broken off in p.
BrokenOff(p) == IF At(p, "overwrite") THEN [db EXCEPT !.state = "broken"] ELSE db

\* A step fails (a full disk, a folder that is gone): what was written of a
\* file stays in its folder, or over the ledger, and no old file is deleted.
StepFails(p) ==
    /\ job[p].at \in {"snapshot", "open", "write", "copy", "replace", "overwrite"}
    /\ db' = BrokenOff(p)
    /\ local' = IF At(p, "write") THEN (local \ Named(local)) \cup Torn(Named(local)) ELSE local
    /\ IF At(p, "copy") THEN Place(Torn(Named(local))) ELSE UNCHANGED <<onedrive, custom>>
    /\ Release(p)
    /\ UNCHANGED <<slot, keys, up, env>>

-----------------------------------------------------------------------------
(* The admin's other pages.                                                 *)

\* set_backup_location sets or clears the custom folder.
SetBackupLocation ==
    /\ up # {}
    /\ db' = [db EXCEPT !.custom = ~@]
    /\ UNCHANGED <<slot, keys, up, env, folders, job, threads>>

\* restore_backup of a file of any folder, under the key in force.
StartRestore(p, f) ==
    /\ p \in up /\ At(p, "idle")
    /\ f.state # "writing"
    /\ job' = [job EXCEPT ![p] = [NoJob EXCEPT !.at = "restore", !.by = "admin", !.copy = f.copy,
                                      !.opens = IF f.state = "whole" THEN f.key ELSE NoKey]]
    /\ UNCHANGED <<slot, db, keys, up, env, folders, threads>>

\* A legacy .zip is not encrypted; the ledger in it has no key.
RestoreLegacy(p) ==
    /\ p \in up /\ At(p, "idle")
    /\ job' = [job EXCEPT ![p] = [NoJob EXCEPT !.at = "replace", !.by = "admin", !.copy = Empty]]
    /\ UNCHANGED <<slot, db, keys, up, env, folders, threads>>

\* Another process copies over the ledger too.
Overlapped(p) == \E q \in Processes \ {p} : At(q, "overwrite")

\* The wrong key or a broken file ends it; else the ledger is opened for the
\* copy, which empties it.
OpenLedger(p) ==
    /\ At(p, "replace")
    /\ IF job[p].opens = job[p].key
       THEN /\ db' = [job[p].copy EXCEPT !.state = IF Overlapped(p) THEN "broken" ELSE "writing"]
            /\ Goto(p, "overwrite")
            /\ UNCHANGED threads
       ELSE Release(p) /\ UNCHANGED db
    /\ UNCHANGED <<slot, keys, up, env, folders>>

\* The copy is written, over what others wrote meanwhile or under it. Of two
\* copies the last to end leaves one of them, or parts of both.
OverwriteLedger(p) ==
    /\ At(p, "overwrite")
    /\ \E found \in {db, job[p].copy} :
       \E state \in IF Overlapped(p) THEN {"broken"}
                    ELSE IF db.state = "writing" THEN {job[p].copy.state}
                    ELSE {job[p].copy.state, "broken"} :
          db' = [found EXCEPT !.state = state]
    /\ Release(p)
    /\ UNCHANGED <<slot, keys, up, env, folders>>

-----------------------------------------------------------------------------
\* A process ends where it is, and its environment with it.
Stop(p) ==
    /\ p \in up
    /\ up' = up \ {p}
    /\ env' = [env EXCEPT ![p] = NoKey]
    /\ db' = BrokenOff(p)
    /\ local' = IF At(p, "write") THEN (local \ Named(local)) \cup Torn(Named(local)) ELSE local
    /\ job' = [job EXCEPT ![p] = NoJob]
    /\ wait' = [wait EXCEPT ![p] = 0] /\ lastRun' = [lastRun EXCEPT ![p] = FALSE]
    /\ UNCHANGED <<slot, keys, onedrive, custom>>

\* start_backup_scheduler: the first look at the clock is five minutes away, or
\* at 03:00.
Start(p) ==
    /\ p \notin up
    /\ up' = up \cup {p}
    /\ wait' = [wait EXCEPT ![p] = 1]
    /\ UNCHANGED <<slot, db, keys, env, folders, job, lastRun>>

Init ==
    /\ slot \in 0..(DayLen - 1)
    /\ keys \in {0, 1}
    /\ db = [Empty EXCEPT !.key = keys]
    /\ up = {} /\ env = [p \in Processes |-> NoKey]
    /\ local = {} /\ onedrive = {} /\ custom = {}
    /\ job = [p \in Processes |-> NoJob]
    /\ wait = [p \in Processes |-> 0] /\ lastRun = [p \in Processes |-> FALSE]

BackupStep(p) ==
    \/ ReadKey(p, FALSE) \/ GenerateKey(p, FALSE)
    \/ Snapshot(p) \/ OpenFile(p) \/ WriteFile(p) \/ CopyToCloud(p) \/ Cleanup(p)
    \/ OpenLedger(p) \/ OverwriteLedger(p)

\* A setting is looked for, or stored, in a ledger that is not whole.
MisreadStep(p) == db.state # "whole" /\ (ReadKey(p, TRUE) \/ GenerateKey(p, TRUE))

Restore(p) == \E f \in local \cup onedrive \cup custom : StartRestore(p, f)
Fault(p) == StepFails(p) \/ Stop(p)
ConfigFault(p) == ReadKey(p, TRUE) \/ GenerateKey(p, TRUE)

Next ==
    \/ Tick \/ SetBackupLocation
    \/ \E p \in Processes :
          \/ Start(p) \/ Wake(p) \/ CreateNow(p) \/ BackupStep(p) \/ Restore(p)
          \/ RestoreLegacy(p) \/ MisreadStep(p) \/ Fault(p) \/ ConfigFault(p)

\* Time passes, a thread that is due runs, and a backup under way goes on.
Fairness ==
    /\ WF_vars(Tick)
    /\ \A p \in Processes : WF_vars(Wake(p)) /\ WF_vars(BackupStep(p))

Spec == Init /\ [][Next]_vars /\ Fairness
=============================================================================
