---------------------------- MODULE TenantRegistry ----------------------------
(* The platform registry (platform.db), the tenants' ledger files, and the   *)
(* server processes that provision, repair, open and write them. A portal    *)
(* launch, an operator's script and a ledger request all take several steps, *)
(* and between two of them another process, or a crash, may come.            *)
(*                                                                           *)
(* A tenant file is abstracted to whether it is there, how much work it      *)
(* holds, and three marks: the template's seed accounts, the configuration   *)
(* key `provisioned_tenant`, and the portal user's row.                      *)
EXTENDS Integers, FiniteSets

CONSTANTS
    Workers,      \* server processes and operators' scripts
    PortalFirms,  \* firms as the portal names them
    FirmIds,      \* platform firm ids, in the order uuid4 issues them: 1..n
    MaxWork,      \* bound: entries of work a file may hold
    LegacyWork    \* entries in the desktop ledger an import brings

ASSUME RegistryAssumption ==
    /\ FirmIds \subseteq Nat \ {0}
    /\ \E n \in FirmIds : FirmIds = 1..n
    /\ "none" \notin PortalFirms
    /\ MaxWork \in Nat
    /\ LegacyWork \in 1..MaxWork

NoFirm == [portal |-> "none", active |-> FALSE]
NoSpace == [path |-> "none", active |-> FALSE]

\* tenants/<firm id>/solicitor_ledger.db, or another path a migration recorded.
Paths == {"canonical", "moved"}

\* "empty" is the 0-byte file sqlite3.connect leaves, "copying" one that
\* shutil.copy2 has not finished; "by" holds the processes that have the file
\* open to copy the template into it.
FileStates == {"missing", "empty", "copying", "whole"}

NoFile == [state |-> "missing", work |-> 0, seeds |-> FALSE,
           marked |-> FALSE, user |-> FALSE, by |-> {}]
EmptyFile == [NoFile EXCEPT !.state = "empty"]
\* shutil.copy2 opens its target for writing, which truncates what is there.
Truncated(file, w) == [NoFile EXCEPT !.state = "copying", !.by = file.by \cup {w}]
TemplateCopy == [NoFile EXCEPT !.state = "whole", !.seeds = TRUE]
\* The imported ledger has accounts of its own, none from the template.
LegacyFile == [NoFile EXCEPT !.state = "whole", !.work = LegacyWork]

\* A process between requests; "how" says which part of the code is creating
\* the file: provisioning, the repair of an orphaned firm, or of a bad file.
Idle == [op |-> "none", at |-> "idle", portal |-> "none", firm |-> 0,
         seen |-> FALSE, ACTIVE |-> FALSE, rounds |-> 0,
         how |-> "none", path |-> "none", copy |-> NoFile]

VARIABLES
    firms,     \* platform.db: firms
    spaces,    \* platform.db: workspaces
    issued,    \* how many firm ids uuid4 has issued
    files,     \* the tenant files, by firm and path
    cache,     \* each process's router cache: the path of its Database object
    sessions,  \* the signed-in sessions: portal firm and ledger firm
    req,       \* each process's request in progress
    entered    \* per firm, the entries of work accepted since the latest import,
               \* with those it brought

vars == <<firms, spaces, issued, files, cache, sessions, req, entered>>
registry == <<firms, spaces, issued>>

TypeOK ==
    /\ firms \in [FirmIds -> [portal : PortalFirms \cup {"none"}, active : BOOLEAN]]
    /\ spaces \in [FirmIds -> [path : Paths \cup {"none"}, active : BOOLEAN]]
    /\ \A f \in FirmIds : spaces[f].path # "none" => firms[f].portal # "none"
    /\ issued \in {0} \cup FirmIds
    /\ \A f \in FirmIds, p \in Paths :
          /\ files[f][p].state \in FileStates
          /\ files[f][p].work \in 0..MaxWork
          /\ files[f][p].state # "whole" => files[f][p].work = 0
          /\ files[f][p].by \subseteq Workers
    /\ cache \in [Workers -> [FirmIds -> Paths \cup {"none"}]]
    /\ sessions \subseteq [portal : PortalFirms, firm : FirmIds]
    /\ \A w \in Workers : req[w].at # "idle" => req[w].op # "none"
    /\ entered \in [FirmIds -> 0..MaxWork]

Registered(f) == firms[f] # NoFirm
HasSpace(f) == spaces[f] # NoSpace

\* Mutant: a suspended firm is not found, and a new one takes its place.
Holders_Active(p) == {f \in FirmIds : firms[f].portal = p /\ firms[f].active}

\* The firm registered for a portal firm; the unique index admits one.
Holders(p) == {f \in FirmIds : firms[f].portal = p}

At(w, label) == req[w].at = label
Goto(w, label) == req' = [req EXCEPT ![w].at = label]
Finish(w) == req' = [req EXCEPT ![w] = Idle]

\* A round of ensure_firm_tenant_ready ends; the last leads to the status checks.
RoundDone(w) ==
    req' = [req EXCEPT ![w].how = "none", ![w].rounds = @ - 1,
                       ![w].at = IF req[w].rounds = 1 THEN "firm" ELSE "ready"]

Firm(w) == req[w].firm

\* Every file a launch or a script makes is at the firm's canonical path.
Canonical(f) == files[f]["canonical"]
SetFile(w, file) == files' = [files EXCEPT ![Firm(w)]["canonical"] = file]

\* sqlite3.connect creates a file that is not there.
Touched(file) == IF file.state = "missing" THEN EmptyFile ELSE file

\* Database(path): creates the schema, and the seed accounts unless the file is
\* marked as provisioned or the caller skips them.
Opened(file, skipSeed) ==
    IF file.state \in {"missing", "empty"}
    THEN [NoFile EXCEPT !.state = "whole", !.seeds = ~skipSeed]
    ELSE [file EXCEPT !.seeds = @ \/ (~skipSeed /\ ~file.marked)]

Openable(file) == file.state # "copying"

-----------------------------------------------------------------------------
(* Provisioning: the first launch of a portal firm.                          *)

\* The step a failure leads to: provision_firm rolls back what it made, every
\* other caller lets the exception end its request.
Fail(w) == IF req[w].how = "provision" THEN Goto(w, "undo") ELSE Finish(w)

\* A launch: ensure_portal_firm_linked looks the portal firm up. The firm row
\* read here is used to the end of the launch. A firm found is made ready here
\* and again by resolve_active_portal_firm.
Launch(w, p) ==
    /\ At(w, "idle")
    /\ LET start == [Idle EXCEPT !.op = "launch", !.portal = p]
       IN  req' = [req EXCEPT ![w] =
               IF Holders(p) = {} THEN [start EXCEPT !.at = "slug"]
               ELSE LET f == CHOOSE f \in Holders(p) : TRUE
                    IN  [start EXCEPT !.at = "ready", !.firm = f,
                                      !.seen = firms[f].active, !.rounds = 2]]
    /\ UNCHANGED <<registry, files, cache, sessions, entered>>

\* The slug is derived from the portal firm, so it is taken exactly when the
\* firm has been registered meanwhile; then the launch looks it up again.
CheckSlug(w) ==
    /\ At(w, "slug")
    /\ Goto(w, IF Holders(req[w].portal) = {} THEN "create" ELSE "again")
    /\ UNCHANGED <<registry, files, cache, sessions, entered>>

LookupAgain(w) ==
    /\ At(w, "again")
    /\ IF Holders(req[w].portal) = {} THEN Finish(w)
       ELSE LET f == CHOOSE f \in Holders(req[w].portal) : TRUE
            IN  req' = [req EXCEPT ![w].at = "ready", ![w].firm = f,
                                   ![w].seen = firms[f].active, ![w].rounds = 2]
    /\ UNCHANGED <<registry, files, cache, sessions, entered>>

\* INSERT INTO firms: the unique portal_firm_id refuses a second one with an
\* IntegrityError, which the caller does not retry.
CreateFirm(w) ==
    /\ At(w, "create")
    /\ IF Holders(req[w].portal) # {} \/ issued + 1 \notin FirmIds
       THEN Finish(w) /\ UNCHANGED <<firms, issued>>
       ELSE /\ issued' = issued + 1
            /\ firms' = [firms EXCEPT ![issued + 1] =
                            [portal |-> req[w].portal, active |-> TRUE]]
            /\ req' = [req EXCEPT ![w].at = "clone", ![w].firm = issued + 1,
                                  ![w].seen = TRUE, ![w].rounds = 1,
                                  ![w].how = "provision"]
    /\ UNCHANGED <<spaces, files, cache, sessions, entered>>

\* clone_template_to_firm_db refuses a file that exists...
CloneTemplate(w) ==
    /\ At(w, "clone")
    /\ IF Canonical(Firm(w)).state = "missing" THEN Goto(w, "copy") ELSE Fail(w)
    /\ UNCHANGED <<registry, files, cache, sessions, entered>>

\* ... and copies the template over whatever there is by then.
CopyTemplate(w) ==
    /\ At(w, "copy")
    /\ SetFile(w, Truncated(Canonical(Firm(w)), w))
    /\ Goto(w, "copying")
    /\ UNCHANGED <<registry, cache, sessions, entered>>

\* The copy ends. In a file another process has finished meanwhile, it writes
\* the template over what is there, or had written all of it before; a file
\* that was unlinked takes the copy with it.
FinishCopy(w) ==
    /\ At(w, "copying")
    /\ LET file == Canonical(Firm(w))
       IN  IF w \in file.by
           THEN \E left \in {TemplateCopy, file} :
                   /\ left.state = "whole"
                   /\ SetFile(w, [left EXCEPT !.by = file.by \ {w}])
           ELSE UNCHANGED files
    /\ Goto(w, "scrub")
    /\ UNCHANGED <<registry, cache, sessions, entered>>

\* scrub_provisioned_tenant_users deletes the template's accounts.
Scrub(w) ==
    /\ At(w, "scrub")
    /\ LET file == Canonical(Firm(w))
       IN  IF file.state = "whole"
           THEN /\ SetFile(w, [file EXCEPT !.seeds = FALSE])
                /\ Goto(w, IF req[w].how = "file" THEN "mark" ELSE "space")
           ELSE SetFile(w, Touched(file)) /\ Fail(w)
    /\ UNCHANGED <<registry, cache, sessions, entered>>

\* INSERT INTO workspaces: one per firm, and the firm must exist.
CreateWorkspace(w) ==
    /\ At(w, "space")
    /\ IF Registered(Firm(w)) /\ ~HasSpace(Firm(w))
       THEN /\ spaces' = [spaces EXCEPT ![Firm(w)] =
                             [path |-> "canonical", active |-> TRUE]]
            /\ Goto(w, "mark")
       ELSE Fail(w) /\ UNCHANGED spaces
    /\ UNCHANGED <<firms, issued, files, cache, sessions, entered>>

\* The tenant database is opened without seeding and marked as provisioned;
\* provisioning goes on to the owner, a repaired orphan is ready, a repaired
\* file's workspace is read again.
MarkProvisioned(w) ==
    /\ At(w, "mark")
    /\ LET file == Canonical(Firm(w))
       IN  IF Openable(file)
           THEN /\ SetFile(w, [Opened(file, TRUE) EXCEPT !.marked = TRUE])
                /\ CASE req[w].how = "provision" ->
                           req' = [req EXCEPT ![w].at = "owner", ![w].how = "none"]
                     [] req[w].how = "orphan" -> RoundDone(w)
                     [] OTHER -> Goto(w, "reread")
           ELSE Fail(w) /\ UNCHANGED files
    /\ UNCHANGED <<registry, cache, sessions, entered>>

\* The owner's row in platform.db refers to the firm; a failure here is outside
\* the rollback. No part of the ledger reads these rows.
CreateOwner(w) ==
    /\ At(w, "owner")
    /\ IF Registered(Firm(w)) THEN Goto(w, "ready") ELSE Finish(w)
    /\ UNCHANGED <<registry, files, cache, sessions, entered>>

\* Mutant: the workspace of the firm is left.
RollbackRows_FirmOnly(w) ==
    /\ At(w, "undo")
    /\ firms' = [firms EXCEPT ![Firm(w)] = NoFirm]
    /\ Goto(w, "unlink")
    /\ UNCHANGED <<spaces, issued, files, cache, sessions, entered>>

\* _rollback_partial_provision: the rows of the firm, and then its file.
RollbackRows(w) ==
    /\ At(w, "undo")
    /\ firms' = [firms EXCEPT ![Firm(w)] = NoFirm]
    /\ spaces' = [spaces EXCEPT ![Firm(w)] = NoSpace]
    /\ Goto(w, "unlink")
    /\ UNCHANGED <<issued, files, cache, sessions, entered>>

RollbackFile(w) ==
    /\ At(w, "unlink")
    /\ SetFile(w, NoFile)
    /\ Finish(w)
    /\ UNCHANGED <<registry, cache, sessions, entered>>

-----------------------------------------------------------------------------
(* ensure_firm_tenant_ready: every launch repairs what it finds broken.     *)

\* tenant_client_count: a missing or unreadable file holds none.
Work(f, p) == IF p = "none" THEN 0 ELSE files[f][p].work

\* An orphaned firm gets a file and a workspace; a workspace whose file holds
\* no work has its path repaired first.
EnsureReady(w) ==
    /\ At(w, "ready")
    /\ IF ~HasSpace(Firm(w))
       THEN req' = [req EXCEPT ![w].at = "fix", ![w].how = "orphan"]
       ELSE Goto(w, IF Work(Firm(w), spaces[Firm(w)].path) < 1 THEN "path" ELSE "reread")
    /\ UNCHANGED <<registry, files, cache, sessions, entered>>

\* repair_firm_tenant_database_path: the canonical file if it holds work, else
\* a copy of the recorded one if that does, else the canonical path unrecorded.
RepairPath(w) ==
    /\ At(w, "path")
    /\ LET f == Firm(w)
           stored == spaces[f].path
       IN  CASE ~HasSpace(f) -> Finish(w) /\ UNCHANGED spaces
             [] HasSpace(f) /\ Work(f, "canonical") >= 1 ->
                   /\ spaces' = [spaces EXCEPT ![f].path = "canonical"]
                   /\ Goto(w, "size")
             [] OTHER ->
                   /\ UNCHANGED spaces
                   /\ IF Work(f, stored) >= 1
                      THEN req' = [req EXCEPT ![w].at = "replace", ![w].copy = files[f][stored]]
                      ELSE Goto(w, "size")
    /\ UNCHANGED <<firms, issued, files, cache, sessions, entered>>

\* The staged copy replaces the canonical file, then the registry follows.
ReplaceCanonical(w) ==
    /\ At(w, "replace")
    /\ SetFile(w, req[w].copy)
    /\ req' = [req EXCEPT ![w].at = "point", ![w].copy = NoFile]
    /\ UNCHANGED <<registry, cache, sessions, entered>>

\* Mutant: the registry keeps the old path.
PointAtCanonical_Unrecorded(w) ==
    /\ At(w, "point")
    /\ IF HasSpace(Firm(w)) THEN Goto(w, "size") ELSE Finish(w)
    /\ UNCHANGED <<registry, files, cache, sessions, entered>>

PointAtCanonical(w) ==
    /\ At(w, "point")
    /\ IF HasSpace(Firm(w))
       THEN /\ spaces' = [spaces EXCEPT ![Firm(w)].path = "canonical"]
            /\ Goto(w, "size")
       ELSE Finish(w) /\ UNCHANGED spaces
    /\ UNCHANGED <<firms, issued, files, cache, sessions, entered>>

\* A file under 512 bytes is made anew; one still being copied may have either
\* size. An operator's repair opens whatever is there.
CheckSize(w) ==
    /\ At(w, "size")
    /\ LET file == Canonical(Firm(w))
       IN  \/ /\ req[w].op = "launch"
              /\ file.state # "whole"
              /\ req' = [req EXCEPT ![w].at = "fix", ![w].how = "file"]
              /\ UNCHANGED files
           \/ /\ req[w].op = "launch"
              /\ file.state \in {"copying", "whole"}
              /\ Goto(w, "reread")
              /\ UNCHANGED files
           \/ /\ req[w].op = "repair"
              /\ IF Openable(file) THEN SetFile(w, Opened(file, TRUE)) ELSE UNCHANGED files
              /\ Finish(w)
    /\ UNCHANGED <<registry, cache, sessions, entered>>

\* _ensure_tenant_database_file keeps a readable ledger as it is.
EnsureFile(w) ==
    /\ At(w, "fix")
    /\ Goto(w, CASE Canonical(Firm(w)).state # "whole" -> "redo"
                 [] req[w].how = "file" -> "mark"
                 [] OTHER -> "space")
    /\ UNCHANGED <<registry, files, cache, sessions, entered>>

\* Anything else it removes, whatever it is by then, and clones the template. A
\* file that goes between os.path.exists and os.remove only ends the launch.
RemoveFile(w) ==
    /\ At(w, "redo")
    /\ SetFile(w, NoFile)
    /\ Goto(w, "clone")
    /\ UNCHANGED <<registry, cache, sessions, entered>>

RereadWorkspace(w) ==
    /\ At(w, "reread")
    /\ IF HasSpace(Firm(w)) THEN RoundDone(w) ELSE Finish(w)
    /\ UNCHANGED <<registry, files, cache, sessions, entered>>

-----------------------------------------------------------------------------
(* resolve_active_portal_firm: the account's status, then the session.      *)

\* update_firm_status_by_portal_firm_id: both rows in one transaction.
SetStatus(f, active) ==
    /\ firms' = [firms EXCEPT ![f].active = active]
    /\ spaces' = IF HasSpace(f) THEN [spaces EXCEPT ![f].active = active] ELSE spaces
    /\ UNCHANGED issued

\* A token that carries ACTIVE re-enables the firm and clears this process's
\* router cache; it fails when the portal firm is no longer registered, and any
\* other token fails here.
Reactivate(w, ACTIVE, next) ==
    IF ACTIVE /\ Holders(req[w].portal) # {}
    THEN /\ SetStatus(CHOOSE f \in Holders(req[w].portal) : TRUE, TRUE)
         /\ cache' = [cache EXCEPT ![w] = [f \in FirmIds |-> "none"]]
         /\ req' = [req EXCEPT ![w].at = next, ![w].ACTIVE = (next = "workspace")]
    ELSE Finish(w) /\ UNCHANGED <<registry, cache>>

\* The status compared is the one the launch read when it began. The token's
\* account_status, ACTIVE or absent, matters from here on.
CheckFirm(w) ==
    /\ At(w, "firm")
    /\ \E ACTIVE \in BOOLEAN :
          IF req[w].seen
          THEN /\ req' = [req EXCEPT ![w].at = "workspace", ![w].ACTIVE = ACTIVE]
               /\ UNCHANGED <<registry, cache>>
          ELSE Reactivate(w, ACTIVE, "workspace")
    /\ UNCHANGED <<files, sessions, entered>>

CheckWorkspace(w) ==
    /\ At(w, "workspace")
    /\ CASE ~HasSpace(Firm(w)) -> Finish(w) /\ UNCHANGED <<registry, cache>>
         [] HasSpace(Firm(w)) /\ spaces[Firm(w)].active ->
               /\ req' = [req EXCEPT ![w].at = "open", ![w].ACTIVE = FALSE]
               /\ UNCHANGED <<registry, cache>>
         [] OTHER -> Reactivate(w, req[w].ACTIVE, "open")
    /\ UNCHANGED <<files, sessions, entered>>

\* TenantRouter.resolve_database_path; "none" where it raises.
Resolved(f) == IF spaces[f].active THEN spaces[f].path ELSE "none"

\* Mutant: a cached Database is served whatever the registry says by now.
Served_Cached(w, f) == IF cache[w][f] # "none" THEN cache[w][f] ELSE Resolved(f)

\* TenantRouter.get_database keeps its cached Database unless the workspace
\* resolves to another path: one that is suspended or gone stays open.
Served(w, f) == IF cache[w][f] # "none" /\ Resolved(f) = "none"
                THEN cache[w][f] ELSE Resolved(f)

\* get_db_for_firm: a Database not in the cache is constructed, with the seed
\* accounts unless the file is marked; a cached one only connects.
Routed(w, f) ==
    LET p == Served(w, f)
    IN  IF cache[w][f] = p THEN Touched(files[f][p]) ELSE Opened(files[f][p], FALSE)

CanRoute(w, f) ==
    LET p == Served(w, f)
    IN  /\ p # "none"
        /\ IF cache[w][f] = p THEN files[f][p].state = "whole" ELSE Openable(files[f][p])

\* The file the attempt leaves, when it fails, is the empty one sqlite makes.
Route(w, f, file) ==
    LET p == Served(w, f)
    IN  /\ files' = IF p = "none" THEN files ELSE [files EXCEPT ![f][p] = file]
        /\ cache' = IF p # "none" /\ CanRoute(w, f)
                    THEN [cache EXCEPT ![w][f] = p] ELSE cache

Unroutable(w, f) ==
    Route(w, f, IF Served(w, f) = "none" THEN NoFile ELSE Touched(files[f][Served(w, f)]))

\* The portal user is resolved or provisioned in the tenant file, and the
\* session is established.
EstablishSession(w) ==
    /\ At(w, "open")
    /\ IF CanRoute(w, Firm(w))
       THEN /\ Route(w, Firm(w), [Routed(w, Firm(w)) EXCEPT !.user = TRUE])
            /\ sessions' = sessions \cup {[portal |-> req[w].portal, firm |-> Firm(w)]}
       ELSE Unroutable(w, Firm(w)) /\ UNCHANGED sessions
    /\ Finish(w)
    /\ UNCHANGED <<registry, entered>>

-----------------------------------------------------------------------------
(* A signed-in user's request.                                              *)

\* validate_sso_session_binding: the session's user must be in the database the
\* router serves; otherwise the session is cleared.
Request(w, s) ==
    /\ At(w, "idle")
    /\ LET f == s.firm
       IN  IF CanRoute(w, f) /\ Routed(w, f).user
           THEN /\ Route(w, f, Routed(w, f))
                /\ req' = [req EXCEPT ![w] = [Idle EXCEPT !.op = "request", !.at = "write",
                                                          !.portal = s.portal, !.firm = f,
                                                          !.path = Served(w, f)]]
                /\ UNCHANGED sessions
           ELSE /\ IF CanRoute(w, f) THEN Route(w, f, Routed(w, f)) ELSE Unroutable(w, f)
                /\ sessions' = sessions \ {s}
                /\ UNCHANGED req
    /\ UNCHANGED <<registry, entered>>

\* The handler writes through the Database it was given.
Write(w) ==
    /\ At(w, "write")
    /\ LET f == Firm(w)
           p == req[w].path
           file == files[f][p]
       IN  IF file.state = "whole" /\ file.work < MaxWork /\ entered[f] < MaxWork
           THEN /\ files' = [files EXCEPT ![f][p].work = @ + 1]
                /\ entered' = [entered EXCEPT ![f] = @ + 1]
           ELSE files' = [files EXCEPT ![f][p] = Touched(file)] /\ UNCHANGED entered
    /\ Finish(w)
    /\ UNCHANGED <<registry, cache, sessions>>

-----------------------------------------------------------------------------
(* The operators' routes and scripts.                                       *)

\* api_ops_firm_account_status: the portal suspends or resumes a firm. It does
\* not clear the router cache of any process.
FirmAccountStatus(p) ==
    /\ \E f \in Holders(p), active \in BOOLEAN : SetStatus(f, active)
    /\ UNCHANGED <<files, cache, sessions, req, entered>>

\* ensure_tenant_ready_for_sso, run by repair_serene_sso.py in a process of its
\* own: the path is repaired as above while the servers run.
StartRepair(w, f) ==
    /\ At(w, "idle")
    /\ Registered(f)
    /\ req' = [req EXCEPT ![w] = [Idle EXCEPT !.op = "repair", !.at = "path",
                                              !.firm = f, !.portal = firms[f].portal]]
    /\ UNCHANGED <<registry, files, cache, sessions, entered>>

\* migrate_legacy_into_existing_tenant records the canonical path, in a dry run
\* too; the rest of a dry run works on a temporary copy. An existing file is
\* opened for the snapshot before.
StartImport(w, f, dryRun) ==
    /\ At(w, "idle")
    /\ Registered(f)
    /\ HasSpace(f)
    /\ spaces' = [spaces EXCEPT ![f].path = "canonical"]
    /\ files' = IF Canonical(f).state = "empty"
                THEN [files EXCEPT ![f]["canonical"] = Opened(@, TRUE)] ELSE files
    /\ req' = IF dryRun \/ ~Openable(Canonical(f)) THEN req
              ELSE [req EXCEPT ![w] = [Idle EXCEPT !.op = "import", !.at = "backup",
                                                   !.firm = f, !.portal = firms[f].portal]]
    /\ UNCHANGED <<firms, issued, cache, sessions, entered>>

\* _backup_tenant_db copies the canonical file, if there is one, and no other.
BackupTenant(w) ==
    /\ At(w, "backup")
    /\ req' = [req EXCEPT ![w].at = "import",
                          ![w].copy = [Canonical(Firm(w)) EXCEPT !.by = {}]]
    /\ UNCHANGED <<registry, files, cache, sessions, entered>>

\* The staged copy of the legacy ledger replaces the canonical file.
ReplaceByLegacy(w) ==
    /\ At(w, "import")
    /\ SetFile(w, LegacyFile)
    /\ entered' = [entered EXCEPT ![Firm(w)] = LegacyWork]
    /\ req' = [req EXCEPT ![w].at = "metadata", ![w].copy = NoFile]
    /\ UNCHANGED <<registry, cache, sessions>>

\* _apply_tenant_metadata.
ApplyMetadata(w) ==
    /\ At(w, "metadata")
    /\ LET file == Canonical(Firm(w))
       IN  IF Openable(file)
           THEN SetFile(w, [Opened(file, TRUE) EXCEPT !.marked = TRUE])
           ELSE UNCHANGED files
    /\ Finish(w)
    /\ UNCHANGED <<registry, cache, sessions, entered>>

-----------------------------------------------------------------------------
(* Faults.                                                                  *)

\* A copy breaks off and leaves the file as it is.
LeaveCopy(w) ==
    files' = IF At(w, "copying")
             THEN [files EXCEPT ![Firm(w)]["canonical"].by = @ \ {w}] ELSE files

ProvisionSteps == {"clone", "copy", "copying", "scrub", "space", "mark"}

\* Mutant: a failed repair rolls the firm back as well.
ProvisionStepFails_Repairs(w) ==
    /\ req[w].at \in ProvisionSteps
    /\ LeaveCopy(w)
    /\ Goto(w, "undo")
    /\ UNCHANGED <<registry, cache, sessions, entered>>

\* A step of provisioning raises (a full disk, a locked platform.db): rollback.
ProvisionStepFails(w) ==
    /\ req[w].how = "provision"
    /\ req[w].at \in ProvisionSteps
    /\ LeaveCopy(w)
    /\ Goto(w, "undo")
    /\ UNCHANGED <<registry, cache, sessions, entered>>

\* A process ends at any moment and is started again: its request and its
\* router cache are gone.
Crash(w) ==
    /\ ~At(w, "idle") \/ \E f \in FirmIds : cache[w][f] # "none"
    /\ LeaveCopy(w)
    /\ req' = [req EXCEPT ![w] = Idle]
    /\ cache' = [cache EXCEPT ![w] = [f \in FirmIds |-> "none"]]
    /\ UNCHANGED <<registry, sessions, entered>>

-----------------------------------------------------------------------------
\* A platform with no firm, or one with a firm whose ledger a migration left at
\* a path of its own.
Fresh ==
    /\ firms = [f \in FirmIds |-> NoFirm]
    /\ spaces = [f \in FirmIds |-> NoSpace]
    /\ issued = 0
    /\ files = [f \in FirmIds |-> [p \in Paths |-> NoFile]]
    /\ entered = [f \in FirmIds |-> 0]

Migrated(p) ==
    /\ firms = [f \in FirmIds |->
                   IF f = 1 THEN [portal |-> p, active |-> TRUE] ELSE NoFirm]
    /\ spaces = [f \in FirmIds |->
                   IF f = 1 THEN [path |-> "moved", active |-> TRUE] ELSE NoSpace]
    /\ issued = 1
    /\ files = [f \in FirmIds |-> [q \in Paths |->
                   IF f = 1 /\ q = "moved"
                   THEN [LegacyFile EXCEPT !.marked = TRUE, !.user = TRUE]
                   ELSE NoFile]]
    /\ entered = [f \in FirmIds |-> IF f = 1 THEN LegacyWork ELSE 0]

Init ==
    /\ Fresh \/ \E p \in PortalFirms : Migrated(p)
    /\ cache = [w \in Workers |-> [f \in FirmIds |-> "none"]]
    /\ sessions = {}
    /\ req = [w \in Workers |-> Idle]

LaunchStep(w) ==
    \/ \E p \in PortalFirms : Launch(w, p)
    \/ CheckSlug(w) \/ LookupAgain(w) \/ CreateFirm(w)
    \/ CloneTemplate(w) \/ CopyTemplate(w) \/ FinishCopy(w) \/ Scrub(w)
    \/ CreateWorkspace(w) \/ MarkProvisioned(w) \/ CreateOwner(w)
    \/ RollbackRows(w) \/ RollbackFile(w)
    \/ EnsureReady(w) \/ RepairPath(w) \/ ReplaceCanonical(w)
    \/ PointAtCanonical(w) \/ CheckSize(w)
    \/ EnsureFile(w) \/ RemoveFile(w) \/ RereadWorkspace(w) \/ CheckFirm(w) \/ CheckWorkspace(w)
    \/ EstablishSession(w)

RequestStep(w) == (\E s \in sessions : Request(w, s)) \/ Write(w)

ScriptStep(w) ==
    \/ \E f \in FirmIds : StartRepair(w, f)
    \/ \E f \in FirmIds : StartImport(w, f, FALSE)
    \/ BackupTenant(w)
    \/ ReplaceByLegacy(w)
    \/ ApplyMetadata(w)

DryRun(w) == \E f \in FirmIds : StartImport(w, f, TRUE)

Fault(w) == ProvisionStepFails(w) \/ Crash(w)

Next ==
    \/ \E w \in Workers : LaunchStep(w) \/ RequestStep(w) \/ ScriptStep(w) \/ DryRun(w) \/ Fault(w)
    \/ \E p \in PortalFirms : FirmAccountStatus(p)

Spec == Init /\ [][Next]_vars
=============================================================================
