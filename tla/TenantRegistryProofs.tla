-------------------------- MODULE TenantRegistryProofs --------------------------
(***************************************************************************)
(* Proofs about TenantRegistry, for any number of processes, portal firms, *)
(* firm ids and entries of work.                                           *)
(*                                                                         *)
(* However launches, scripts, requests and crashes interleave, the tables  *)
(* keep their types. A ledger file loses work only to the causes that      *)
(* LossCauses lists, and one at a time to an import only. Requests served  *)
(* one at a time, with crashes between any two steps, keep one firm for    *)
(* each portal firm (OneAtATime is inductive), and a ledger that was       *)
(* opened goes on being served from the file its work landed in (Sound is  *)
(* inductive).                                                             *)
(***************************************************************************)
EXTENDS MCTenantRegistry, TLAPS

(* The columns of the registry, the tenant files and the requests, however *)
(* launches, scripts, requests and crashes interleave.                     *)

FirmRow == [portal : PortalFirms \cup {"none"}, active : BOOLEAN]
SpaceRow == [path : Paths \cup {"none"}, active : BOOLEAN]
FileRow == [state : FileStates, work : 0..MaxWork, seeds : BOOLEAN,
            marked : BOOLEAN, user : BOOLEAN, by : SUBSET Workers]

\* A file that cannot be read holds no work.
TenantFile == {file \in FileRow : file.state # "whole" => file.work = 0}

\* Where a request has no firm yet, makes one, repairs or opens it, or replaces
\* its ledger.
Unplaced == {"idle", "slug", "again", "create"}
Making == {"clone", "copy", "copying", "scrub", "space", "mark", "undo", "unlink"}
Opening == {"owner", "ready", "path", "size", "reread", "firm", "workspace", "open", "write"}
Mending == {"replace", "point", "fix", "redo", "backup", "import", "metadata"}
Labels == Unplaced \cup Making \cup Opening \cup Mending

Rounds == Int

RequestRow == [op : {"none", "launch", "request", "repair", "import"}, at : Labels,
               portal : PortalFirms \cup {"none"}, firm : {0} \cup FirmIds,
               seen : BOOLEAN, ACTIVE : BOOLEAN, rounds : Rounds,
               how : {"none", "provision", "orphan", "file"},
               path : Paths \cup {"none"}, copy : TenantFile]

\* A request is of a portal firm; past the look-up it has found or made a firm,
\* and a write has a Database.
Placed(r) ==
    /\ r \in RequestRow
    /\ r.at # "idle" => r.op # "none" /\ r.portal \in PortalFirms
    /\ r.at \notin Unplaced => r.firm \in FirmIds
    /\ r.at = "write" => r.path \in Paths

RegistryTables ==
    /\ firms \in [FirmIds -> FirmRow]
    /\ spaces \in [FirmIds -> SpaceRow]
    /\ issued \in {0} \cup FirmIds

FileTables == files \in [FirmIds -> [Paths -> TenantFile]]

CacheTables == cache \in [Workers -> [FirmIds -> Paths \cup {"none"}]]

SessionTables == sessions \subseteq [portal : PortalFirms, firm : FirmIds]

WorkTables == entered \in [FirmIds -> 0..MaxWork]

\* Rows are deleted whole, and a workspace no later than its firm.
RowsWhole ==
    \A f \in FirmIds :
        /\ firms[f].portal = "none" => firms[f] = NoFirm
        /\ spaces[f].path = "none" => spaces[f] = NoSpace
        /\ spaces[f].path # "none" => firms[f].portal # "none"

Requests == req \in [Workers -> RequestRow] /\ \A w \in Workers : Placed(req[w])

Types ==
    /\ RegistryTables /\ RowsWhole
    /\ FileTables
    /\ CacheTables
    /\ SessionTables
    /\ WorkTables
    /\ Requests

-----------------------------------------------------------------------------
(* The values the steps put into the tables.                               *)

LEMMA RoundNumbers == {0, 1, 2} \subseteq Rounds /\ \A n \in Rounds : n - 1 \in Rounds
  BY DEF Rounds

LEMMA FileValues ==
  ASSUME RegistryAssumption
  PROVE  /\ NoFile \in TenantFile /\ EmptyFile \in TenantFile /\ TemplateCopy \in TenantFile
         /\ LegacyFile \in TenantFile
         /\ \A w \in Workers, file \in TenantFile : Truncated(file, w) \in TenantFile
<1>1. 0 \in 0..MaxWork /\ LegacyWork \in 0..MaxWork
  BY DEF RegistryAssumption
<1> QED
  BY <1>1 DEF NoFile, EmptyFile, TemplateCopy, LegacyFile, Truncated, TenantFile, FileRow,
               FileStates

LEMMA OpenedFile ==
  ASSUME RegistryAssumption, NEW file \in TenantFile, NEW skipSeed \in BOOLEAN
  PROVE  /\ Opened(file, skipSeed) \in TenantFile
         /\ Opened(file, skipSeed).work = file.work
         /\ Openable(file) => Opened(file, skipSeed).state = "whole"
<1>1. CASE file.state \in {"missing", "empty"}
  <2> DEFINE b == ~skipSeed
  <2>1. Opened(file, skipSeed) = [NoFile EXCEPT !.state = "whole", !.seeds = b]
    BY <1>1 DEF Opened
  <2>2. b \in BOOLEAN
    OBVIOUS
  <2> HIDE DEF b
  <2>3. 0 \in 0..MaxWork
    BY DEF RegistryAssumption
  <2> QED
    BY <1>1, <2>1, <2>2, <2>3 DEF NoFile, TenantFile, FileRow, FileStates
<1>2. CASE file.state \notin {"missing", "empty"}
  <2> DEFINE b == file.seeds \/ (~skipSeed /\ ~file.marked)
  <2>1. Opened(file, skipSeed) = [file EXCEPT !.seeds = b]
    BY <1>2 DEF Opened
  <2>2. b \in BOOLEAN
    OBVIOUS
  <2> HIDE DEF b
  <2> QED
    BY <1>2, <2>1, <2>2 DEF TenantFile, FileRow, FileStates, Openable
<1> QED
  BY <1>1, <1>2

LEMMA TouchedFile ==
  ASSUME RegistryAssumption, NEW file \in TenantFile
  PROVE  /\ Touched(file) \in TenantFile
         /\ Touched(file).work = file.work
         /\ file.state # "missing" => Touched(file) = file
BY FileValues DEF Touched, TenantFile, EmptyFile, NoFile

LEMMA CanonicalSet ==
  ASSUME FileTables, NEW w \in Workers, req[w].firm \in FirmIds,
         NEW file \in TenantFile, SetFile(w, file)
  PROVE  /\ FileTables'
         /\ files'[req[w].firm]["canonical"] = file
         /\ \A g \in FirmIds, q \in Paths :
               g # req[w].firm \/ q # "canonical" => files'[g][q] = files[g][q]
<1> DEFINE f == req[w].firm
           p == "canonical"
<1>1. f \in FirmIds /\ p \in Paths
  BY DEF Paths
<1>2. files' = [files EXCEPT ![f][p] = file]
  BY DEF SetFile, Firm
<1> HIDE DEF f, p
<1>3. /\ FileTables'
      /\ files'[f][p] = file
      /\ \A g \in FirmIds, q \in Paths : g # f \/ q # p => files'[g][q] = files[g][q]
  BY <1>1, <1>2 DEF FileTables
<1> QED
  BY <1>3 DEF f, p

LEMMA CanonicalFile ==
  ASSUME FileTables, NEW f \in FirmIds
  PROVE  Canonical(f) \in TenantFile /\ Canonical(f) = files[f]["canonical"]
BY DEF Canonical, FileTables, Paths

\* The rows that are there have a portal firm and a path.
LEMMA RowsThere ==
  ASSUME RegistryTables, RowsWhole, NEW f \in FirmIds
  PROVE  /\ Registered(f) <=> firms[f].portal # "none"
         /\ HasSpace(f) <=> spaces[f].path # "none"
         /\ HasSpace(f) => Registered(f)
BY DEF Registered, HasSpace, RowsWhole, NoFirm, NoSpace, RegistryTables, FirmRow, SpaceRow

LEMMA HoldersAre ==
  ASSUME RegistryAssumption, NEW p \in PortalFirms, Holders(p) # {}
  PROVE  LET f == CHOOSE f \in Holders(p) : TRUE
         IN  f \in FirmIds /\ firms[f].portal = p
BY DEF Holders

-----------------------------------------------------------------------------
(* The steps.                                                              *)

LEMMA IdlePlaced ==
  ASSUME RegistryAssumption
  PROVE  Placed(Idle)
<1>1. Idle \in RequestRow
  BY FileValues, RoundNumbers DEF Idle, RequestRow, Labels, Unplaced
<1> QED
  BY <1>1 DEF Idle, Placed, Unplaced

\* A request becomes r.
LEMMA Becoming ==
  ASSUME Requests, NEW w \in Workers, NEW r, Placed(r), req' = [req EXCEPT ![w] = r]
  PROVE  Requests' /\ req'[w] = r /\ \A v \in Workers \ {w} : req'[v] = req[v]
BY DEF Requests, Placed

LEMMA Finishing ==
  ASSUME RegistryAssumption, Requests, NEW w \in Workers, Finish(w)
  PROVE  Requests' /\ req'[w] = Idle /\ \A v \in Workers \ {w} : req'[v] = req[v]
BY IdlePlaced, Becoming DEF Finish

\* A request goes to another step than a write.
LEMMA Going ==
  ASSUME Requests, NEW w \in Workers, NEW label \in Labels,
         req[w].at # "idle", label # "write",
         label \notin Unplaced => req[w].firm \in FirmIds, Goto(w, label)
  PROVE  /\ Requests'
         /\ req'[w] = [req[w] EXCEPT !.at = label]
         /\ \A v \in Workers \ {w} : req'[v] = req[v]
<1> DEFINE r == [req[w] EXCEPT !.at = label]
<1>1. Placed(req[w]) /\ req[w] \in RequestRow
  BY DEF Requests
<1>2. /\ r \in RequestRow /\ r.at = label
      /\ r.op = req[w].op /\ r.portal = req[w].portal /\ r.firm = req[w].firm
  BY <1>1 DEF RequestRow
<1>3. Placed(r)
  BY <1>1, <1>2 DEF Placed
<1>4. req' = [req EXCEPT ![w] = r]
  BY DEF Goto
<1> HIDE DEF r
<1>5. Requests' /\ req'[w] = r /\ \A v \in Workers \ {w} : req'[v] = req[v]
  BY <1>3, <1>4, Becoming
<1> QED
  BY <1>5 DEF r

LEMMA Failing ==
  ASSUME RegistryAssumption, Requests, NEW w \in Workers, req[w].at \notin Unplaced, Fail(w)
  PROVE  /\ Requests'
         /\ \/ req'[w] = Idle
            \/ req[w].how = "provision" /\ req'[w] = [req[w] EXCEPT !.at = "undo"]
         /\ \A v \in Workers \ {w} : req'[v] = req[v]
<1>1. "undo" \in Labels /\ "undo" # "write" /\ req[w].at # "idle" /\ req[w].firm \in FirmIds
  BY DEF Labels, Making, Unplaced, Requests, Placed
<1>2. CASE req[w].how = "provision"
  BY <1>1, <1>2, Going DEF Fail
<1>3. CASE req[w].how # "provision"
  BY <1>3, Finishing DEF Fail
<1> QED
  BY <1>2, <1>3

\* A round of the repair ends.
LEMMA Rounding ==
  ASSUME Requests, NEW w \in Workers, req[w].at \notin Unplaced, RoundDone(w)
  PROVE  /\ Requests'
         /\ \E label \in {"firm", "ready"}, n \in Rounds :
               req'[w] = [req[w] EXCEPT !.how = "none", !.rounds = n, !.at = label]
         /\ \A v \in Workers \ {w} : req'[v] = req[v]
<1> DEFINE label == IF req[w].rounds = 1 THEN "firm" ELSE "ready"
           n == req[w].rounds - 1
           r == [req[w] EXCEPT !.how = "none", !.rounds = n, !.at = label]
<1>1. Placed(req[w]) /\ req[w] \in RequestRow
  BY DEF Requests
<1>2. label \in {"firm", "ready"} /\ n \in Rounds
  BY <1>1, RoundNumbers DEF RequestRow
<1>3. req' = [req EXCEPT ![w] = r]
  BY DEF RoundDone, Requests
<1> HIDE DEF label, n
<1>4. /\ r \in RequestRow /\ r.at = label
      /\ r.op = req[w].op /\ r.portal = req[w].portal /\ r.firm = req[w].firm
  BY <1>1, <1>2 DEF RequestRow, Labels, Opening
<1>5. Placed(r)
  BY <1>1, <1>2, <1>4 DEF Placed, Unplaced
<1> HIDE DEF r
<1>6. Requests' /\ req'[w] = r /\ \A v \in Workers \ {w} : req'[v] = req[v]
  BY <1>3, <1>5, Becoming
<1> QED
  BY <1>2, <1>6 DEF r

-----------------------------------------------------------------------------
(* The types are kept by every step.                                        *)

LEMMA TypesInit == RegistryAssumption /\ Init => Types
<1> SUFFICES ASSUME RegistryAssumption, Init PROVE Types
  OBVIOUS
<1>1. 1 \in FirmIds /\ 0 \in 0..MaxWork /\ LegacyWork \in 0..MaxWork
  BY DEF RegistryAssumption
<1>2. Requests
  BY IdlePlaced DEF Init, Requests, Placed
<1>3. CASE Fresh
  <2>1. RegistryTables /\ RowsWhole
    BY <1>3 DEF Fresh, RegistryTables, RowsWhole, FirmRow, SpaceRow, NoFirm, NoSpace
  <2>2. FileTables
    BY <1>3, FileValues DEF Fresh, FileTables
  <2>3. CacheTables /\ SessionTables /\ WorkTables
    BY <1>1, <1>3 DEF Init, Fresh, CacheTables, SessionTables, WorkTables
  <2> QED
    BY <1>2, <2>1, <2>2, <2>3 DEF Types
<1>4. ASSUME NEW p \in PortalFirms, Migrated(p) PROVE Types
  <2>1. RegistryTables /\ RowsWhole
    <3>1. p # "none"
      BY DEF RegistryAssumption
    <3> QED
      BY <1>1, <1>4, <3>1 DEF Migrated, RegistryTables, RowsWhole, FirmRow, SpaceRow, NoFirm,
                              NoSpace, Paths
  <2>2. FileTables
    <3> DEFINE file == [LegacyFile EXCEPT !.marked = TRUE, !.user = TRUE]
    <3>1. file \in TenantFile
      BY FileValues DEF TenantFile, FileRow
    <3> HIDE DEF file
    <3>2. files = [f \in FirmIds |-> [q \in Paths |->
                     IF f = 1 /\ q = "moved" THEN file ELSE NoFile]]
      BY <1>4 DEF Migrated, file
    <3> QED
      BY <3>1, <3>2, FileValues DEF FileTables
  <2>3. CacheTables /\ SessionTables /\ WorkTables
    BY <1>1, <1>4 DEF Init, Migrated, CacheTables, SessionTables, WorkTables
  <2> QED
    BY <1>2, <2>1, <2>2, <2>3 DEF Types
<1> QED
  BY <1>3, <1>4 DEF Init

\* A step that changes only a request, or requests and files.
LEMMA RequestOnly ==
  ASSUME Types, UNCHANGED <<registry, cache, sessions, entered>>, FileTables', Requests'
  PROVE  Types'
BY DEF Types, registry, RegistryTables, RowsWhole, CacheTables, SessionTables, WorkTables

LEMMA FilesKept == FileTables /\ UNCHANGED files => FileTables'
  BY DEF FileTables

LEMMA TypesLaunch ==
  ASSUME RegistryAssumption, Types, NEW w \in Workers, NEW p \in PortalFirms, Launch(w, p)
  PROVE  Types'
<1> DEFINE f == CHOOSE f \in Holders(p) : TRUE
           r == IF Holders(p) = {} THEN [Idle EXCEPT !.op = "launch", !.portal = p, !.at = "slug"]
                ELSE [Idle EXCEPT !.op = "launch", !.portal = p, !.at = "ready", !.firm = f,
                                  !.seen = firms[f].active, !.rounds = 2]
<1>1. req' = [req EXCEPT ![w] = r]
  BY DEF Launch
<1>2. Idle \in RequestRow
  BY IdlePlaced DEF Placed
<1>3. Placed(r)
  <2>1. CASE Holders(p) = {}
    BY <1>2, <2>1 DEF Placed, RequestRow, Labels, Unplaced
  <2>2. CASE Holders(p) # {}
    <3>1. f \in FirmIds /\ firms[f].active \in BOOLEAN
      BY <2>2, HoldersAre DEF Types, RegistryTables, FirmRow
    <3> DEFINE b == firms[f].active
    <3>0. b \in BOOLEAN
      BY <3>1
    <3> HIDE DEF f, b
    <3>2. r = [Idle EXCEPT !.op = "launch", !.portal = p, !.at = "ready", !.firm = f,
                           !.seen = b, !.rounds = 2]
      BY <2>2 DEF b
    <3> HIDE DEF r
    <3>3. /\ r \in RequestRow /\ r.at = "ready" /\ r.op = "launch" /\ r.portal = p
          /\ r.firm = f
      BY <1>2, <3>0, <3>1, <3>2, RoundNumbers DEF RequestRow, Labels, Opening
    <3> QED
      BY <3>1, <3>3 DEF Placed
  <2> QED
    BY <2>1, <2>2
<1> HIDE DEF r
<1> QED
  BY <1>1, <1>3, Becoming, RequestOnly, FilesKept DEF Launch, Types

LEMMA Placing ==
  ASSUME Types, NEW w \in Workers
  PROVE  /\ Placed(req[w]) /\ req[w] \in RequestRow
         /\ req[w].at \notin Unplaced => Firm(w) \in FirmIds
BY DEF Types, Requests, Placed, Firm

\* The look-ups and checks that change nothing but where the request is.
LEMMA TypesLooks ==
  ASSUME RegistryAssumption, Types, NEW w \in Workers,
         \/ CheckSlug(w) \/ CloneTemplate(w) \/ CreateOwner(w) \/ EnsureFile(w)
  PROVE  Types'
<1>1. /\ req[w].at \notin {"idle", "write"} /\ UNCHANGED <<registry, files, cache, sessions, entered>>
      /\ \/ Finish(w)
         \/ \E label \in {"create", "again"} : Goto(w, label)
         \/ /\ req[w].at \notin Unplaced
            /\ Fail(w) \/ \E label \in {"ready", "redo", "mark", "space", "copy"} : Goto(w, label)
  BY DEF CheckSlug, CloneTemplate, CreateOwner, EnsureFile, At, Unplaced
<1>2. ASSUME NEW label \in {"create", "again"}, Goto(w, label) PROVE Requests'
  BY <1>1, <1>2, Going DEF Types, Labels, Unplaced
<1>3. ASSUME NEW label \in {"ready", "redo", "mark", "space", "copy"}, Goto(w, label),
             req[w].at \notin Unplaced
      PROVE  Requests'
  BY <1>1, <1>3, Going, Placing DEF Types, Labels, Opening, Mending, Making, Firm
<1>4. Requests'
  BY <1>1, <1>2, <1>3, Finishing, Failing DEF Types
<1> QED
  BY <1>1, <1>4, RequestOnly, FilesKept DEF Types

LEMMA TypesEnsureReady ==
  ASSUME RegistryAssumption, Types, NEW w \in Workers, EnsureReady(w)
  PROVE  Types'
<1>1. req[w].at = "ready" /\ UNCHANGED <<registry, files, cache, sessions, entered>>
  BY DEF EnsureReady, At
<1>2. Placed(req[w]) /\ Firm(w) \in FirmIds
  BY <1>1, Placing DEF Unplaced
<1>3. CASE HasSpace(Firm(w))
  BY <1>1, <1>2, <1>3, Going, RequestOnly, FilesKept
     DEF EnsureReady, Types, Labels, Opening, Firm, Unplaced
<1>4. CASE ~HasSpace(Firm(w))
  <2> DEFINE r == [req[w] EXCEPT !.at = "fix", !.how = "orphan"]
  <2>1. req' = [req EXCEPT ![w] = r]
    BY <1>4 DEF EnsureReady, Types, Requests
  <2>2. Placed(r)
    BY <1>1, <1>2 DEF Placed, RequestRow, Labels, Mending, Unplaced, Firm
  <2> HIDE DEF r
  <2> QED
    BY <1>1, <2>1, <2>2, Becoming, RequestOnly, FilesKept DEF Types
<1> QED
  BY <1>3, <1>4

LEMMA TypesReread ==
  ASSUME RegistryAssumption, Types, NEW w \in Workers, RereadWorkspace(w)
  PROVE  Types'
<1>1. req[w].at = "reread" /\ UNCHANGED <<registry, files, cache, sessions, entered>>
  BY DEF RereadWorkspace, At
<1>2. Requests'
  BY <1>1, Rounding, Finishing DEF RereadWorkspace, Types, Unplaced
<1> QED
  BY <1>1, <1>2, RequestOnly, FilesKept DEF Types

LEMMA TypesLookupAgain ==
  ASSUME RegistryAssumption, Types, NEW w \in Workers, LookupAgain(w)
  PROVE  Types'
<1> DEFINE p == req[w].portal
           f == CHOOSE f \in Holders(p) : TRUE
           b == firms[f].active
           r == [req[w] EXCEPT !.at = "ready", !.firm = f, !.seen = b, !.rounds = 2]
<1>1. req[w].at = "again" /\ UNCHANGED <<registry, files, cache, sessions, entered>>
  BY DEF LookupAgain, At
<1>2. Placed(req[w]) /\ req[w] \in RequestRow /\ p \in PortalFirms
  BY <1>1, Placing DEF Placed
<1>3. CASE Holders(p) = {}
  BY <1>1, <1>3, Finishing, RequestOnly, FilesKept DEF LookupAgain, Types
<1>4. CASE Holders(p) # {}
  <2>1. f \in FirmIds
    BY <1>2, <1>4, HoldersAre
  <2>2. b \in BOOLEAN
    BY <2>1 DEF Types, RegistryTables, FirmRow
  <2>3. req' = [req EXCEPT ![w] = r]
    BY <1>4 DEF LookupAgain, Types, Requests
  <2> HIDE DEF p, f, b
  <2>4. r \in RequestRow /\ r.at = "ready" /\ r.op = req[w].op /\ r.firm = f
        /\ r.portal = req[w].portal
    BY <1>2, <2>1, <2>2, RoundNumbers DEF RequestRow, Labels, Opening
  <2> HIDE DEF r
  <2>5. Placed(r)
    BY <1>1, <1>2, <2>1, <2>4 DEF Placed
  <2> QED
    BY <1>1, <2>3, <2>5, Becoming, RequestOnly, FilesKept DEF Types
<1> QED
  BY <1>3, <1>4

LEMMA TypesStartRepair ==
  ASSUME RegistryAssumption, Types, NEW w \in Workers, NEW f \in FirmIds, StartRepair(w, f)
  PROVE  Types'
<1> DEFINE p == firms[f].portal
           r == [Idle EXCEPT !.op = "repair", !.at = "path", !.firm = f, !.portal = p]
<1>1. req' = [req EXCEPT ![w] = r] /\ UNCHANGED <<registry, files, cache, sessions, entered>>
  BY DEF StartRepair
<1>2. p \in PortalFirms
  BY RowsThere DEF StartRepair, Types, RegistryTables, FirmRow
<1>3. Idle \in RequestRow
  BY IdlePlaced DEF Placed
<1> HIDE DEF p
<1>4. Placed(r)
  BY <1>2, <1>3 DEF Placed, RequestRow, Labels, Opening
<1> HIDE DEF r
<1> QED
  BY <1>1, <1>4, Becoming, RequestOnly, FilesKept DEF Types

\* The canonical file is set, and the request goes on or ends.
LEMMA TypesSet ==
  ASSUME RegistryAssumption, Types, NEW w \in Workers, req[w].at \notin Unplaced,
         NEW file \in TenantFile, SetFile(w, file) \/ UNCHANGED files,
         UNCHANGED <<registry, cache, sessions, entered>>,
         \/ Finish(w) \/ Fail(w) \/ RoundDone(w)
         \/ \E label \in {"clone", "copying", "scrub", "mark", "space", "reread"} : Goto(w, label)
  PROVE  Types'
<1>1. Firm(w) \in FirmIds /\ req[w].at # "idle" 
  BY Placing DEF Unplaced
<1>2. FileTables'
  BY <1>1, CanonicalSet, FilesKept DEF Types, Firm
<1>3. ASSUME NEW label \in {"clone", "copying", "scrub", "mark", "space", "reread"},
             Goto(w, label)
      PROVE  Requests'
  BY <1>1, <1>3, Going DEF Types, Labels, Opening, Mending, Making, Firm
<1>4. Requests'
  BY <1>1, <1>3, Finishing, Failing, Rounding DEF Types
<1> QED
  BY <1>2, <1>4, RequestOnly

\* An open of the tenant database that marks it.
LEMMA MarkedFile ==
  ASSUME RegistryAssumption, NEW file \in TenantFile
  PROVE  [Opened(file, TRUE) EXCEPT !.marked = TRUE] \in TenantFile
<1>1. Opened(file, TRUE) \in TenantFile
  BY OpenedFile
<1> QED
  BY <1>1 DEF TenantFile, FileRow

LEMMA ScrubbedFile ==
  ASSUME NEW file \in TenantFile
  PROVE  [file EXCEPT !.seeds = FALSE] \in TenantFile
BY DEF TenantFile, FileRow

\* A copy that ends or breaks off.
LEMMA LeftFile ==
  ASSUME NEW file \in TenantFile, NEW w
  PROVE  /\ [file EXCEPT !.by = @ \ {w}] \in TenantFile
         /\ [file EXCEPT !.by = @ \ {w}].work = file.work
         /\ [file EXCEPT !.by = @ \ {w}].state = file.state
         /\ \A left \in TenantFile :
               /\ [left EXCEPT !.by = file.by \ {w}] \in TenantFile
               /\ [left EXCEPT !.by = file.by \ {w}].state = left.state
BY DEF TenantFile, FileRow

LEMMA TypesCopies ==
  ASSUME RegistryAssumption, Types, NEW w \in Workers,
         CopyTemplate(w) \/ FinishCopy(w) \/ RollbackFile(w) \/ RemoveFile(w)
  PROVE  Types'
<1> DEFINE file == Canonical(Firm(w))
           ends == {[left EXCEPT !.by = file.by \ {w}] : left \in {TemplateCopy, file}}
<1>1. req[w].at \notin Unplaced /\ UNCHANGED <<registry, cache, sessions, entered>>
  BY DEF CopyTemplate, FinishCopy, RollbackFile, RemoveFile, At, Unplaced
<1>2. file \in TenantFile
  BY <1>1, Placing, CanonicalFile DEF Types
<1>3. /\ \/ UNCHANGED files
         \/ \E new \in {Truncated(file, w), NoFile} \cup ends : SetFile(w, new)
      /\ \/ Finish(w) \/ Fail(w) \/ \E label \in {"clone", "copying", "scrub"} : Goto(w, label)
  BY DEF CopyTemplate, FinishCopy, RollbackFile, RemoveFile
<1>4. \A new \in {Truncated(file, w), NoFile} \cup ends : new \in TenantFile
  <2>1. Truncated(file, w) \in TenantFile /\ NoFile \in TenantFile /\ TemplateCopy \in TenantFile
    BY <1>2, FileValues
  <2>2. \A left \in {TemplateCopy, file} : [left EXCEPT !.by = file.by \ {w}] \in TenantFile
    <3> HIDE DEF file
    <3> QED
      BY <1>2, <2>1, LeftFile
  <2> HIDE DEF file
  <2> QED
    BY <2>1, <2>2
<1> HIDE DEF file, ends
<1> QED
  BY <1>1, <1>3, <1>4, TypesSet

\* A copy that broke off leaves the file as it is.
LEMMA LeavingCopy ==
  ASSUME Types, NEW w \in Workers, LeaveCopy(w)
  PROVE  /\ FileTables'
         /\ \A f \in FirmIds, p \in Paths :
               /\ files'[f][p].work = files[f][p].work
               /\ files'[f][p].state = files[f][p].state
<1>1. CASE At(w, "copying")
  <2> DEFINE f == Firm(w)
             c == "canonical"
             old == files[f][c]
             new == [old EXCEPT !.by = @ \ {w}]
  <2>1. f \in FirmIds /\ c \in Paths
    BY <1>1, Placing DEF At, Unplaced, Paths
  <2>2. old \in TenantFile
    BY <2>1 DEF Types, FileTables
  <2>3. new \in TenantFile /\ new.work = old.work /\ new.state = old.state
    BY <2>2, LeftFile
  <2>4. files' = [files EXCEPT ![f][c] = new]
    BY <1>1, <2>1 DEF LeaveCopy, Types, FileTables
  <2> HIDE DEF f, c, new
  <2>5. /\ FileTables' /\ files'[f][c] = new
        /\ \A g \in FirmIds, q \in Paths : g # f \/ q # c => files'[g][q] = files[g][q]
    BY <2>1, <2>3, <2>4 DEF Types, FileTables
  <2> QED
    BY <2>3, <2>5
<1>2. CASE ~At(w, "copying")
  BY <1>2 DEF LeaveCopy, Types, FileTables
<1> QED
  BY <1>1, <1>2

LEMMA TypesFails ==
  ASSUME RegistryAssumption, Types, NEW w \in Workers, ProvisionStepFails(w)
  PROVE  Types'
<1>1. /\ req[w].at \notin Unplaced /\ req[w].at # "idle"
      /\ UNCHANGED <<registry, cache, sessions, entered>> /\ LeaveCopy(w) /\ Goto(w, "undo")
  BY DEF ProvisionStepFails, ProvisionSteps, Unplaced
<1>2. Requests'
  BY <1>1, Going, Placing DEF Types, Labels, Making, Firm
<1> QED
  BY <1>1, <1>2, LeavingCopy, RequestOnly

LEMMA TypesScrub ==
  ASSUME RegistryAssumption, Types, NEW w \in Workers, Scrub(w)
  PROVE  Types'
<1> DEFINE file == Canonical(Firm(w))
<1>1. req[w].at \notin Unplaced /\ UNCHANGED <<registry, cache, sessions, entered>>
  BY DEF Scrub, At, Unplaced
<1>2. file \in TenantFile
  BY <1>1, Placing, CanonicalFile DEF Types
<1>3. /\ [file EXCEPT !.seeds = FALSE] \in TenantFile /\ Touched(file) \in TenantFile
  BY <1>2, ScrubbedFile, TouchedFile
<1>4. \/ SetFile(w, [file EXCEPT !.seeds = FALSE]) /\ \E label \in {"mark", "space"} : Goto(w, label)
      \/ SetFile(w, Touched(file)) /\ Fail(w)
  BY DEF Scrub
<1> HIDE DEF file
<1> QED
  BY <1>1, <1>3, <1>4, TypesSet

LEMMA TypesMark ==
  ASSUME RegistryAssumption, Types, NEW w \in Workers, MarkProvisioned(w)
  PROVE  Types'
<1> DEFINE file == Canonical(Firm(w))
           new == [Opened(file, TRUE) EXCEPT !.marked = TRUE]
           owner == [req[w] EXCEPT !.at = "owner", !.how = "none"]
<1>1. /\ req[w].at \notin Unplaced /\ req[w].at = "mark"
      /\ UNCHANGED <<registry, cache, sessions, entered>>
  BY DEF MarkProvisioned, At, Unplaced
<1>2. Placed(req[w]) /\ Firm(w) \in FirmIds /\ file \in TenantFile
  BY <1>1, Placing, CanonicalFile DEF Types
<1>3. new \in TenantFile
  BY <1>2, MarkedFile
<1>4. \/ /\ SetFile(w, new)
         /\ req' = [req EXCEPT ![w].at = "owner", ![w].how = "none"]
      \/ SetFile(w, new) /\ (RoundDone(w) \/ Goto(w, "reread"))
      \/ UNCHANGED files /\ Fail(w)
  BY DEF MarkProvisioned
<1>5. Placed(owner)
  BY <1>1, <1>2 DEF Placed, RequestRow, Labels, Opening, Unplaced, Firm
<1> HIDE DEF file, new
<1>6. CASE SetFile(w, new) /\ req' = [req EXCEPT ![w].at = "owner", ![w].how = "none"]
  <2>1. req' = [req EXCEPT ![w] = owner]
    BY <1>6 DEF Types, Requests
  <2> HIDE DEF owner
  <2>2. Requests'
    BY <1>5, <2>1, Becoming DEF Types
  <2>3. FileTables'
    BY <1>2, <1>3, <1>6, CanonicalSet DEF Types, Firm
  <2> QED
    BY <1>1, <2>2, <2>3, RequestOnly
<1> QED
  BY <1>1, <1>3, <1>4, <1>6, TypesSet

LEMMA TypesReplace ==
  ASSUME RegistryAssumption, Types, NEW w \in Workers, ReplaceCanonical(w)
  PROVE  Types'
<1> DEFINE file == req[w].copy
           r == [req[w] EXCEPT !.at = "point", !.copy = NoFile]
<1>1. /\ req[w].at = "replace" /\ UNCHANGED <<registry, cache, sessions, entered>>
      /\ SetFile(w, file)
  BY DEF ReplaceCanonical, At
<1>2. Placed(req[w]) /\ Firm(w) \in FirmIds /\ file \in TenantFile
  BY <1>1, Placing DEF Unplaced, RequestRow
<1>3. req' = [req EXCEPT ![w] = r]
  BY DEF ReplaceCanonical, Types, Requests
<1>4. Placed(r)
  BY <1>1, <1>2, FileValues DEF Placed, RequestRow, Labels, Mending, Unplaced, Firm
<1>5. FileTables'
  BY <1>1, <1>2, CanonicalSet DEF Types, Firm
<1> HIDE DEF r
<1> QED
  BY <1>1, <1>3, <1>4, <1>5, Becoming, RequestOnly DEF Types

LEMMA TypesSize ==
  ASSUME RegistryAssumption, Types, NEW w \in Workers, CheckSize(w)
  PROVE  Types'
<1> DEFINE file == Canonical(Firm(w))
           r == [req[w] EXCEPT !.at = "fix", !.how = "file"]
<1>1. /\ req[w].at = "size" /\ req[w].at \notin Unplaced
      /\ UNCHANGED <<registry, cache, sessions, entered>>
  BY DEF CheckSize, At, Unplaced
<1>2. Placed(req[w]) /\ Firm(w) \in FirmIds /\ file \in TenantFile
  BY <1>1, Placing, CanonicalFile DEF Types
<1>3. CASE UNCHANGED files /\ req' = [req EXCEPT ![w].at = "fix", ![w].how = "file"]
  <2>1. req' = [req EXCEPT ![w] = r]
    BY <1>3 DEF Types, Requests
  <2>2. Placed(r)
    BY <1>1, <1>2 DEF Placed, RequestRow, Labels, Mending, Unplaced, Firm
  <2> HIDE DEF r
  <2> QED
    BY <1>1, <1>3, <2>1, <2>2, Becoming, RequestOnly, FilesKept DEF Types
<1>4. Opened(file, TRUE) \in TenantFile
  BY <1>2, OpenedFile
<1>5. \/ UNCHANGED files /\ req' = [req EXCEPT ![w].at = "fix", ![w].how = "file"]
      \/ UNCHANGED files /\ Goto(w, "reread")
      \/ (SetFile(w, Opened(file, TRUE)) \/ UNCHANGED files) /\ Finish(w)
  BY DEF CheckSize
<1> HIDE DEF file
<1> QED
  BY <1>1, <1>3, <1>4, <1>5, TypesSet

\* A request takes a copy of a file, or lets it go, and goes on.
LEMMA Taking ==
  ASSUME Types, NEW w \in Workers, req[w].at \notin Unplaced,
         NEW label \in {"import", "metadata"}, NEW file \in TenantFile,
         req' = [req EXCEPT ![w].at = label, ![w].copy = file]
  PROVE  /\ Requests'
         /\ req'[w] = [req[w] EXCEPT !.at = label, !.copy = file]
         /\ \A v \in Workers \ {w} : req'[v] = req[v]
<1> DEFINE r == [req[w] EXCEPT !.at = label, !.copy = file]
<1>1. Placed(req[w]) /\ Firm(w) \in FirmIds
  BY Placing
<1>2. req' = [req EXCEPT ![w] = r]
  BY DEF Types, Requests
<1>3. Placed(r)
  BY <1>1 DEF Placed, RequestRow, Labels, Mending, Unplaced, Firm
<1> HIDE DEF r
<1>4. Requests' /\ req'[w] = r /\ \A v \in Workers \ {w} : req'[v] = req[v]
  BY <1>2, <1>3, Becoming DEF Types
<1> QED
  BY <1>4 DEF r

LEMMA TypesBackup ==
  ASSUME RegistryAssumption, Types, NEW w \in Workers, BackupTenant(w)
  PROVE  Types'
<1> DEFINE file == [Canonical(Firm(w)) EXCEPT !.by = {}]
<1>1. /\ req[w].at \notin Unplaced /\ UNCHANGED <<registry, files, cache, sessions, entered>>
      /\ req' = [req EXCEPT ![w].at = "import", ![w].copy = file]
  BY DEF BackupTenant, At, Unplaced
<1>2. file \in TenantFile
  BY <1>1, Placing, CanonicalFile DEF Types, TenantFile, FileRow
<1> HIDE DEF file
<1> QED
  BY <1>1, <1>2, Taking, RequestOnly, FilesKept DEF Types

LEMMA TypesImport ==
  ASSUME RegistryAssumption, Types, NEW w \in Workers, ReplaceByLegacy(w)
  PROVE  Types'
<1>1. /\ req[w].at \notin Unplaced /\ UNCHANGED <<registry, cache, sessions>>
      /\ SetFile(w, LegacyFile)
      /\ req' = [req EXCEPT ![w].at = "metadata", ![w].copy = NoFile]
      /\ entered' = [entered EXCEPT ![Firm(w)] = LegacyWork]
  BY DEF ReplaceByLegacy, At, Unplaced
<1>2. Firm(w) \in FirmIds /\ LegacyWork \in 0..MaxWork
  BY <1>1, Placing DEF RegistryAssumption
<1>3. FileTables' /\ Requests'
  BY <1>1, <1>2, FileValues, CanonicalSet, Taking DEF Types, Firm
<1>4. WorkTables'
  BY <1>1, <1>2 DEF WorkTables, Types
<1> QED
  BY <1>1, <1>3, <1>4 DEF Types, registry, RegistryTables, RowsWhole, CacheTables, SessionTables

LEMMA TypesMetadata ==
  ASSUME RegistryAssumption, Types, NEW w \in Workers, ApplyMetadata(w)
  PROVE  Types'
<1> DEFINE file == Canonical(Firm(w))
           new == [Opened(file, TRUE) EXCEPT !.marked = TRUE]
<1>1. /\ req[w].at \notin Unplaced /\ UNCHANGED <<registry, cache, sessions, entered>>
      /\ SetFile(w, new) \/ UNCHANGED files
      /\ Finish(w)
  BY DEF ApplyMetadata, At, Unplaced
<1>2. file \in TenantFile
  BY <1>1, Placing, CanonicalFile DEF Types
<1>3. new \in TenantFile
  BY <1>2, MarkedFile
<1> HIDE DEF new
<1> QED
  BY <1>1, <1>3, TypesSet

\* The registry, or one process's cache with it, changes, and the requests.
LEMMA RegistryOnly ==
  ASSUME Types, UNCHANGED <<files, sessions, entered>>, RegistryTables', RowsWhole', CacheTables',
         Requests'
  PROVE  Types'
BY DEF Types, FileTables, SessionTables, WorkTables

LEMMA CacheKept == CacheTables /\ UNCHANGED cache => CacheTables'
  BY DEF CacheTables

LEMMA RegistryKept == RegistryTables /\ RowsWhole /\ UNCHANGED registry => RegistryTables' /\ RowsWhole'
  BY DEF registry, RegistryTables, RowsWhole

LEMMA TypesCreateFirm ==
  ASSUME RegistryAssumption, Types, NEW w \in Workers, CreateFirm(w)
  PROVE  Types'
<1> DEFINE id == issued + 1
           p == req[w].portal
           r == [req[w] EXCEPT !.at = "clone", !.firm = id, !.seen = TRUE, !.rounds = 1,
                               !.how = "provision"]
<1>1. req[w].at = "create" /\ UNCHANGED <<spaces, files, cache, sessions, entered>>
  BY DEF CreateFirm, At
<1>2. Placed(req[w]) /\ req[w] \in RequestRow /\ p \in PortalFirms
  BY <1>1, Placing DEF Placed
<1>3. CASE Holders(p) # {} \/ id \notin FirmIds
  BY <1>1, <1>3, Finishing, RegistryOnly, RegistryKept, CacheKept DEF CreateFirm, Types, registry
<1>4. CASE ~(Holders(p) # {} \/ id \notin FirmIds)
  <2>1. /\ issued' = id /\ id \in FirmIds
        /\ firms' = [firms EXCEPT ![id] = [portal |-> p, active |-> TRUE]]
        /\ req' = [req EXCEPT ![w] = r]
    BY <1>4 DEF CreateFirm, Types, Requests
  <2> HIDE DEF id, p
  <2>2. r \in RequestRow /\ r.at = "clone" /\ r.op = req[w].op /\ r.portal = req[w].portal
        /\ r.firm = id
    BY <1>2, <2>1, RoundNumbers DEF RequestRow, Labels, Making
  <2> HIDE DEF r
  <2>3. Placed(r)
    BY <1>1, <1>2, <2>1, <2>2 DEF Placed, p
  <2>4. p # "none"
    BY <1>2 DEF RegistryAssumption
  <2>5. RegistryTables'
    BY <1>1, <1>2, <2>1 DEF Types, RegistryTables, FirmRow
  <2>6. RowsWhole'
    BY <1>1, <2>1, <2>4 DEF Types, RegistryTables, RowsWhole
  <2> QED
    BY <1>1, <2>1, <2>3, <2>5, <2>6, Becoming, RegistryOnly, CacheKept DEF Types
<1> QED
  BY <1>3, <1>4

LEMMA TypesCreateWorkspace ==
  ASSUME RegistryAssumption, Types, NEW w \in Workers, CreateWorkspace(w)
  PROVE  Types'
<1> DEFINE f == Firm(w)
<1>1. /\ req[w].at = "space" /\ req[w].at \notin Unplaced
      /\ UNCHANGED <<firms, issued, files, cache, sessions, entered>>
  BY DEF CreateWorkspace, At, Unplaced
<1>2. f \in FirmIds
  BY <1>1, Placing
<1>3. CASE Registered(f) /\ ~HasSpace(f)
  <2>1. spaces' = [spaces EXCEPT ![f] = [path |-> "canonical", active |-> TRUE]] /\ Goto(w, "mark")
    BY <1>3 DEF CreateWorkspace
  <2>2. firms[f].portal # "none"
    BY <1>2, <1>3, RowsThere DEF Types
  <2>3. Requests'
    BY <1>1, <1>2, <2>1, Going DEF Types, Labels, Making, Firm
  <2> HIDE DEF f
  <2>4. RegistryTables' /\ RowsWhole'
    BY <1>1, <1>2, <2>1, <2>2 DEF Types, RegistryTables, RowsWhole, SpaceRow, Paths
  <2> QED
    BY <1>1, <2>3, <2>4, RegistryOnly, CacheKept DEF Types
<1>4. CASE ~(Registered(f) /\ ~HasSpace(f))
  BY <1>1, <1>4, Failing, RequestOnly, FilesKept DEF CreateWorkspace, Types, registry
<1> QED
  BY <1>3, <1>4

LEMMA TypesRollbackRows ==
  ASSUME RegistryAssumption, Types, NEW w \in Workers, RollbackRows(w)
  PROVE  Types'
<1> DEFINE f == Firm(w)
<1>1. /\ req[w].at = "undo" /\ req[w].at \notin Unplaced
      /\ UNCHANGED <<issued, files, cache, sessions, entered>>
      /\ firms' = [firms EXCEPT ![f] = NoFirm]
      /\ spaces' = [spaces EXCEPT ![f] = NoSpace]
      /\ Goto(w, "unlink")
  BY DEF RollbackRows, At, Unplaced
<1>2. f \in FirmIds
  BY <1>1, Placing
<1>3. Requests'
  BY <1>1, <1>2, Going DEF Types, Labels, Making, Firm
<1> HIDE DEF f
<1>4. RegistryTables' /\ RowsWhole'
  BY <1>1, <1>2 DEF Types, RegistryTables, RowsWhole, FirmRow, SpaceRow, NoFirm, NoSpace
<1> QED
  BY <1>1, <1>3, <1>4, RegistryOnly, CacheKept DEF Types

\* The registry records the canonical path of a workspace.
LEMMA Repointed ==
  ASSUME Types, NEW f \in FirmIds, HasSpace(f), UNCHANGED <<firms, issued>>,
         spaces' = [spaces EXCEPT ![f].path = "canonical"]
  PROVE  /\ RegistryTables' /\ RowsWhole'
         /\ spaces'[f].path = "canonical" /\ spaces'[f].active = spaces[f].active
         /\ \A g \in FirmIds \ {f} : spaces'[g] = spaces[g]
<1>1. firms[f].portal # "none"
  BY RowsThere DEF Types
<1> QED
  BY <1>1 DEF Types, RegistryTables, RowsWhole, SpaceRow, Paths

LEMMA TypesRepairPath ==
  ASSUME RegistryAssumption, Types, NEW w \in Workers, RepairPath(w)
  PROVE  Types'
<1> DEFINE f == Firm(w)
           file == files[f][spaces[f].path]
           r == [req[w] EXCEPT !.at = "replace", !.copy = file]
<1>1. /\ req[w].at = "path" /\ req[w].at \notin Unplaced
      /\ UNCHANGED <<firms, issued, files, cache, sessions, entered>>
  BY DEF RepairPath, At, Unplaced
<1>2. Placed(req[w]) /\ f \in FirmIds
  BY <1>1, Placing
<1>3. CASE UNCHANGED spaces /\ (Finish(w) \/ Goto(w, "size"))
  <2>1. Requests'
    BY <1>1, <1>2, <1>3, Finishing, Going DEF Types, Labels, Opening, Firm
  <2> QED
    BY <1>1, <1>3, <2>1, RequestOnly, FilesKept DEF Types, registry
<1>4. CASE HasSpace(f) /\ spaces' = [spaces EXCEPT ![f].path = "canonical"] /\ Goto(w, "size")
  <2>1. Requests'
    BY <1>1, <1>2, <1>4, Going DEF Types, Labels, Opening, Firm
  <2> HIDE DEF f
  <2>2. RegistryTables' /\ RowsWhole'
    BY <1>1, <1>2, <1>4, Repointed
  <2> QED
    BY <1>1, <2>1, <2>2, RegistryOnly, CacheKept DEF Types
<1>5. CASE HasSpace(f) /\ UNCHANGED spaces /\ req' = [req EXCEPT ![w].at = "replace", ![w].copy = file]
  <2>1. spaces[f].path \in Paths
    BY <1>2, <1>5, RowsThere DEF Types, RegistryTables, SpaceRow
  <2>2. file \in TenantFile
    BY <1>2, <2>1 DEF Types, FileTables
  <2>3. req' = [req EXCEPT ![w] = r]
    BY <1>5 DEF Types, Requests
  <2> HIDE DEF file
  <2>4. Placed(r)
    BY <1>1, <1>2, <2>2 DEF Placed, RequestRow, Labels, Mending, Unplaced, Firm
  <2> HIDE DEF r
  <2> QED
    BY <1>1, <1>5, <2>3, <2>4, Becoming, RequestOnly, FilesKept DEF Types, registry
<1> QED
  BY <1>3, <1>4, <1>5 DEF RepairPath

LEMMA TypesPoint ==
  ASSUME RegistryAssumption, Types, NEW w \in Workers, PointAtCanonical(w)
  PROVE  Types'
<1> DEFINE f == Firm(w)
<1>1. /\ req[w].at = "point" /\ req[w].at \notin Unplaced
      /\ UNCHANGED <<firms, issued, files, cache, sessions, entered>>
  BY DEF PointAtCanonical, At, Unplaced
<1>2. f \in FirmIds
  BY <1>1, Placing
<1>3. CASE HasSpace(f)
  <2>1. spaces' = [spaces EXCEPT ![f].path = "canonical"] /\ Goto(w, "size")
    BY <1>3 DEF PointAtCanonical
  <2>2. Requests'
    BY <1>1, <1>2, <2>1, Going DEF Types, Labels, Opening, Firm
  <2> HIDE DEF f
  <2>3. RegistryTables' /\ RowsWhole'
    BY <1>1, <1>2, <1>3, <2>1, Repointed
  <2> QED
    BY <1>1, <2>2, <2>3, RegistryOnly, CacheKept DEF Types
<1>4. CASE ~HasSpace(f)
  BY <1>1, <1>4, Finishing, RequestOnly, FilesKept DEF PointAtCanonical, Types, registry
<1> QED
  BY <1>3, <1>4

\* A status set leaves the rows of all firms and workspaces where they are.
LEMMA StatusSet ==
  ASSUME Types, NEW f \in FirmIds, NEW active \in BOOLEAN, firms[f].portal # "none",
         SetStatus(f, active)
  PROVE  /\ RegistryTables' /\ RowsWhole' /\ UNCHANGED issued
         /\ \A g \in FirmIds : firms'[g].portal = firms[g].portal /\ spaces'[g].path = spaces[g].path
         /\ \A g \in FirmIds : spaces'[g].active # spaces[g].active => g = f /\ spaces'[g].active = active
<1>1. /\ firms' = [firms EXCEPT ![f].active = active] /\ UNCHANGED issued
      /\ spaces' = IF HasSpace(f) THEN [spaces EXCEPT ![f].active = active] ELSE spaces
  BY DEF SetStatus
<1>2. HasSpace(f) => spaces[f].path # "none"
  BY RowsThere DEF Types
<1> QED
  BY <1>1, <1>2 DEF Types, RegistryTables, RowsWhole, FirmRow, SpaceRow

\* The request is for the same firm, and of the same file.
Same(w) ==
    /\ req'[w].firm = req[w].firm /\ req'[w].portal = req[w].portal
    /\ req'[w].path = req[w].path

OthersStay(w) == \A v \in Workers \ {w} : req'[v] = req[v]

LEMMA Reactivated ==
  ASSUME RegistryAssumption, Types, NEW w \in Workers, NEW ACTIVE \in BOOLEAN,
         NEW next \in {"workspace", "open"}, req[w].at \in {"firm", "workspace"},
         Reactivate(w, ACTIVE, next)
  PROVE  /\ RegistryTables' /\ RowsWhole' /\ CacheTables' /\ Requests' /\ UNCHANGED issued
         /\ \A g \in FirmIds : /\ firms'[g].portal = firms[g].portal
                               /\ spaces'[g].path = spaces[g].path
                               /\ spaces'[g].active # spaces[g].active => spaces'[g].active
         /\ \A v \in Workers, g \in FirmIds : cache'[v][g] \in {cache[v][g], "none"}
         /\ OthersStay(w)
         /\ \/ req'[w] = Idle
            \/ Same(w) /\ req'[w].at = next /\ req'[w].how = req[w].how
<1> DEFINE p == req[w].portal
           f == CHOOSE f \in Holders(p) : TRUE
           none == [g \in FirmIds |-> "none"]
<1>1. Placed(req[w]) /\ req[w] \in RequestRow /\ p \in PortalFirms /\ Firm(w) \in FirmIds
  BY Placing DEF Placed, Unplaced
<1>2. CASE ACTIVE /\ Holders(p) # {}
  <2> DEFINE b == next = "workspace"
             r == [req[w] EXCEPT !.at = next, !.ACTIVE = b]
  <2>1. /\ SetStatus(f, TRUE)
        /\ cache' = [cache EXCEPT ![w] = none]
        /\ req' = [req EXCEPT ![w] = r]
    BY <1>2 DEF Reactivate, Types, Requests
  <2>2. b \in BOOLEAN
    OBVIOUS
  <2> HIDE DEF b
  <2>3. f \in FirmIds /\ firms[f].portal # "none"
    BY <1>1, <1>2, HoldersAre DEF RegistryAssumption
  <2> HIDE DEF f
  <2>4. Placed(r)
    BY <1>1, <2>2, ZenonT(30) DEF Placed, RequestRow, Labels, Opening, Unplaced, Firm
  <2>8. /\ r.at = next /\ r.how = req[w].how /\ r.firm = req[w].firm
        /\ r.portal = req[w].portal /\ r.path = req[w].path
    BY <1>1, <2>2 DEF RequestRow
  <2> HIDE DEF r
  <2>5. Requests' /\ req'[w] = r /\ \A v \in Workers \ {w} : req'[v] = req[v]
    BY <2>1, <2>4, Becoming DEF Types
  <2>6. /\ RegistryTables' /\ RowsWhole' /\ UNCHANGED issued
        /\ \A g \in FirmIds : /\ firms'[g].portal = firms[g].portal
                              /\ spaces'[g].path = spaces[g].path
                              /\ spaces'[g].active # spaces[g].active => spaces'[g].active
    BY <2>1, <2>3, StatusSet
  <2>7. CacheTables' /\ \A v \in Workers, g \in FirmIds : cache'[v][g] \in {cache[v][g], "none"}
    BY <2>1 DEF Types, CacheTables
  <2> QED
    BY <2>5, <2>6, <2>7, <2>8 DEF Same, OthersStay
<1>3. CASE ~(ACTIVE /\ Holders(p) # {})
  <2>1. Finish(w) /\ UNCHANGED <<firms, spaces, issued, cache>>
    BY <1>3 DEF Reactivate, registry
  <2> QED
    BY <2>1, Finishing, RegistryKept, CacheKept DEF Types, registry, OthersStay
<1> QED
  BY <1>2, <1>3

LEMMA TypesCheckFirm ==
  ASSUME RegistryAssumption, Types, NEW w \in Workers, CheckFirm(w)
  PROVE  Types'
<1>1. req[w].at = "firm" /\ UNCHANGED <<files, sessions, entered>>
  BY DEF CheckFirm, At
<1>2. PICK ACTIVE \in BOOLEAN :
         IF req[w].seen
         THEN /\ req' = [req EXCEPT ![w].at = "workspace", ![w].ACTIVE = ACTIVE]
              /\ UNCHANGED <<registry, cache>>
         ELSE Reactivate(w, ACTIVE, "workspace")
  BY DEF CheckFirm
<1>3. CASE req[w].seen
  <2> DEFINE r == [req[w] EXCEPT !.at = "workspace", !.ACTIVE = ACTIVE]
  <2>1. req' = [req EXCEPT ![w] = r] /\ UNCHANGED <<registry, cache>>
    BY <1>2, <1>3 DEF Types, Requests
  <2>2. Placed(req[w])
    BY Placing
  <2>3. Placed(r)
    BY <1>1, <2>2 DEF Placed, RequestRow, Labels, Opening, Unplaced, Firm
  <2> HIDE DEF r
  <2> QED
    BY <1>1, <2>1, <2>3, Becoming, RequestOnly, FilesKept DEF Types
<1>4. CASE ~req[w].seen
  BY <1>1, <1>2, <1>4, Reactivated, RegistryOnly
<1> QED
  BY <1>3, <1>4

LEMMA TypesCheckWorkspace ==
  ASSUME RegistryAssumption, Types, NEW w \in Workers, CheckWorkspace(w)
  PROVE  Types'
<1>1. req[w].at = "workspace" /\ UNCHANGED <<files, sessions, entered>>
  BY DEF CheckWorkspace, At
<1>2. Placed(req[w]) /\ req[w] \in RequestRow
  BY Placing
<1>3. \/ Finish(w) /\ UNCHANGED <<registry, cache>>
      \/ /\ req' = [req EXCEPT ![w].at = "open", ![w].ACTIVE = FALSE]
         /\ UNCHANGED <<registry, cache>>
      \/ Reactivate(w, req[w].ACTIVE, "open")
  BY DEF CheckWorkspace
<1>4. CASE Finish(w) /\ UNCHANGED <<registry, cache>>
  BY <1>1, <1>4, Finishing, RequestOnly, FilesKept DEF Types
<1>5. CASE req' = [req EXCEPT ![w].at = "open", ![w].ACTIVE = FALSE] /\ UNCHANGED <<registry, cache>>
  <2> DEFINE r == [req[w] EXCEPT !.at = "open", !.ACTIVE = FALSE]
  <2>1. req' = [req EXCEPT ![w] = r]
    BY <1>5 DEF Types, Requests
  <2>2. Placed(r)
    BY <1>1, <1>2 DEF Placed, RequestRow, Labels, Opening, Unplaced, Firm
  <2> HIDE DEF r
  <2> QED
    BY <1>1, <1>5, <2>1, <2>2, Becoming, RequestOnly, FilesKept DEF Types
<1>6. CASE Reactivate(w, req[w].ACTIVE, "open")
  <2>1. req[w].ACTIVE \in BOOLEAN
    BY <1>2 DEF RequestRow
  <2> QED
    BY <1>1, <1>6, <2>1, Reactivated, RegistryOnly
<1> QED
  BY <1>3, <1>4, <1>5, <1>6

LEMMA TypesStatus ==
  ASSUME RegistryAssumption, Types, NEW p \in PortalFirms, FirmAccountStatus(p)
  PROVE  Types'
<1>1. PICK f \in Holders(p), active \in BOOLEAN : SetStatus(f, active)
  BY DEF FirmAccountStatus
<1>2. f \in FirmIds /\ firms[f].portal # "none" /\ UNCHANGED <<files, cache, sessions, req, entered>>
  BY DEF Holders, RegistryAssumption, FirmAccountStatus
<1>3. RegistryTables' /\ RowsWhole'
  BY <1>1, <1>2, StatusSet
<1> QED
  BY <1>2, <1>3, RegistryOnly, CacheKept DEF Types, Requests

LEMMA TypesStartImport ==
  ASSUME RegistryAssumption, Types, NEW w \in Workers, NEW f \in FirmIds, NEW dryRun \in BOOLEAN,
         StartImport(w, f, dryRun)
  PROVE  Types'
<1> DEFINE file == Canonical(f)
           p == firms[f].portal
           r == [Idle EXCEPT !.op = "import", !.at = "backup", !.firm = f, !.portal = p]
<1>1. /\ Registered(f) /\ HasSpace(f) /\ UNCHANGED <<firms, issued, cache, sessions, entered>>
      /\ spaces' = [spaces EXCEPT ![f].path = "canonical"]
      /\ files' = IF file.state = "empty"
                  THEN [files EXCEPT ![f]["canonical"] = Opened(@, TRUE)] ELSE files
      /\ req' = req \/ req' = [req EXCEPT ![w] = r]
  BY DEF StartImport
<1>2. RegistryTables' /\ RowsWhole'
  BY <1>1, Repointed
<1>3. FileTables'
  <2> DEFINE new == Opened(files[f]["canonical"], TRUE)
  <2>1. new \in TenantFile /\ "canonical" \in Paths
    BY CanonicalFile, OpenedFile DEF Types, Paths
  <2>2. files' = files \/ files' = [files EXCEPT ![f]["canonical"] = new]
    BY <1>1
  <2> HIDE DEF new
  <2> QED
    BY <2>1, <2>2 DEF Types, FileTables
<1>4. Requests'
  <2>1. p \in PortalFirms
    BY <1>1, RowsThere DEF Types, RegistryTables, FirmRow
  <2>2. Idle \in RequestRow
    BY IdlePlaced DEF Placed
  <2> HIDE DEF p
  <2>3. Placed(r)
    BY <2>1, <2>2, ZenonT(30) DEF Placed, RequestRow, Labels, Mending
  <2> HIDE DEF r
  <2> QED
    BY <1>1, <2>3, Becoming DEF Types, Requests
<1> QED
  BY <1>1, <1>2, <1>3, <1>4, CacheKept DEF Types, SessionTables, WorkTables

\* The path the router serves is the cached one or the registry's.
LEMMA ServedPath ==
  ASSUME Types, NEW w \in Workers, NEW f \in FirmIds
  PROVE  /\ Served(w, f) \in Paths \cup {"none"}
         /\ Served(w, f) # "none" => Served(w, f) \in {cache[w][f], spaces[f].path}
         /\ spaces[f].active /\ spaces[f].path # "none" => Served(w, f) = spaces[f].path
BY DEF Served, Resolved, Types, CacheTables, RegistryTables, SpaceRow

\* Routing touches the file of the path served, and the one cache entry.
LEMMA Routing ==
  ASSUME Types, NEW w \in Workers, NEW f \in FirmIds, NEW file,
         Served(w, f) # "none" => file \in TenantFile, Route(w, f, file)
  PROVE  /\ FileTables' /\ CacheTables'
         /\ Served(w, f) # "none" => files'[f][Served(w, f)] = file
         /\ \A g \in FirmIds, q \in Paths :
               g # f \/ q # Served(w, f) => files'[g][q] = files[g][q]
         /\ \A v \in Workers, g \in FirmIds :
               cache'[v][g] # cache[v][g] => v = w /\ g = f /\ CanRoute(w, f)
<1> DEFINE p == Served(w, f)
<1>1. /\ files' = IF p = "none" THEN files ELSE [files EXCEPT ![f][p] = file]
      /\ cache' = IF p # "none" /\ CanRoute(w, f) THEN [cache EXCEPT ![w][f] = p] ELSE cache
  BY DEF Route
<1>2. p \in Paths \cup {"none"}
  BY ServedPath
<1>3. "none" \notin Paths
  BY DEF Paths
<1> HIDE DEF p
<1>4. FileTables'
  BY <1>1, <1>2 DEF Types, FileTables, p
<1>5. /\ p # "none" => files'[f][p] = file
      /\ \A g \in FirmIds, q \in Paths : g # f \/ q # p => files'[g][q] = files[g][q]
  BY <1>1, <1>2, <1>3 DEF Types, FileTables
<1>6. CacheTables'
  BY <1>1, <1>2 DEF Types, CacheTables
<1>7. \A v \in Workers, g \in FirmIds :
         cache'[v][g] # cache[v][g] => v = w /\ g = f /\ CanRoute(w, f)
  BY <1>1, <1>2 DEF Types, CacheTables
<1> QED
  BY <1>4, <1>5, <1>6, <1>7 DEF p

\* What is routed is a file with the work it had, and the marks it had or more.
LEMMA RoutedFile ==
  ASSUME RegistryAssumption, Types, NEW w \in Workers, NEW f \in FirmIds, Served(w, f) # "none"
  PROVE  /\ files[f][Served(w, f)] \in TenantFile
         /\ Routed(w, f) \in TenantFile
         /\ Routed(w, f).work = files[f][Served(w, f)].work
         /\ CanRoute(w, f) => Routed(w, f).state = "whole"
         /\ Touched(files[f][Served(w, f)]) \in TenantFile
         /\ Touched(files[f][Served(w, f)]).work = files[f][Served(w, f)].work
<1> DEFINE file == files[f][Served(w, f)]
<1>1. file \in TenantFile
  BY ServedPath DEF Types, FileTables
<1>2. /\ Routed(w, f) \in {Touched(file), Opened(file, FALSE)}
      /\ cache[w][f] = Served(w, f) => Routed(w, f) = Touched(file)
      /\ cache[w][f] # Served(w, f) => Routed(w, f) = Opened(file, FALSE)
      /\ CanRoute(w, f) => IF cache[w][f] = Served(w, f) THEN file.state = "whole" ELSE Openable(file)
  BY DEF Routed, CanRoute
<1> HIDE DEF file
<1>3. /\ Touched(file) \in TenantFile /\ Touched(file).work = file.work
      /\ file.state # "missing" => Touched(file) = file
      /\ Opened(file, FALSE) \in TenantFile /\ Opened(file, FALSE).work = file.work
      /\ Openable(file) => Opened(file, FALSE).state = "whole"
  BY <1>1, TouchedFile, OpenedFile
<1>4. Routed(w, f) \in TenantFile /\ Routed(w, f).work = file.work
  BY <1>2, <1>3
<1>5. CanRoute(w, f) => Routed(w, f).state = "whole"
  BY <1>2, <1>3
<1> QED
  BY <1>1, <1>3, <1>4, <1>5 DEF file

LEMMA RoutedUser ==
  ASSUME NEW file \in TenantFile
  PROVE  /\ [file EXCEPT !.user = TRUE] \in TenantFile
         /\ [file EXCEPT !.user = TRUE].work = file.work
         /\ [file EXCEPT !.user = TRUE].state = file.state
         /\ [file EXCEPT !.user = TRUE].seeds = file.seeds
         /\ [file EXCEPT !.user = TRUE].marked = file.marked
BY DEF TenantFile, FileRow

\* The file an attempt that fails leaves.
Left(w, f) == IF Served(w, f) = "none" THEN NoFile ELSE Touched(files[f][Served(w, f)])

LEMMA TypesEstablish ==
  ASSUME RegistryAssumption, Types, NEW w \in Workers, EstablishSession(w)
  PROVE  Types'
<1> DEFINE f == Firm(w)
           new == [Routed(w, f) EXCEPT !.user = TRUE]
<1>1. /\ req[w].at = "open" /\ Finish(w) /\ UNCHANGED <<registry, entered>>
      /\ \/ /\ CanRoute(w, f) /\ Route(w, f, new)
            /\ sessions' = sessions \cup {[portal |-> req[w].portal, firm |-> f]}
         \/ Route(w, f, Left(w, f)) /\ UNCHANGED sessions
  BY DEF EstablishSession, Unroutable, Left, At
<1>2. f \in FirmIds /\ req[w].portal \in PortalFirms
  BY <1>1, Placing DEF Unplaced, Placed
<1>3. Served(w, f) # "none" => new \in TenantFile /\ Left(w, f) \in TenantFile
  BY <1>2, RoutedFile, RoutedUser DEF Left
<1> HIDE DEF new
<1>4. FileTables' /\ CacheTables'
  BY <1>1, <1>2, <1>3, Routing
<1>5. SessionTables'
  BY <1>1, <1>2 DEF Types, SessionTables
<1>6. Requests'
  BY <1>1, Finishing DEF Types
<1>7. WorkTables'
  BY <1>1 DEF Types, WorkTables
<1> QED
  BY <1>1, <1>4, <1>5, <1>6, <1>7, RegistryKept DEF Types

LEMMA TypesRequest ==
  ASSUME RegistryAssumption, Types, NEW w \in Workers, NEW s \in sessions, Request(w, s)
  PROVE  Types'
<1> DEFINE f == s.firm
           p == Served(w, f)
           r == [Idle EXCEPT !.op = "request", !.at = "write", !.portal = s.portal, !.firm = f,
                             !.path = p]
<1>1. /\ UNCHANGED <<registry, entered>>
      /\ sessions' \subseteq sessions
      /\ Route(w, f, Routed(w, f)) \/ Route(w, f, Left(w, f))
      /\ UNCHANGED req \/ (CanRoute(w, f) /\ req' = [req EXCEPT ![w] = r])
  BY DEF Request, Unroutable, Left
<1>2. f \in FirmIds /\ s.portal \in PortalFirms
  BY DEF Types, SessionTables
<1>3. p \in Paths \cup {"none"} /\ (CanRoute(w, f) => p # "none")
  BY <1>2, ServedPath DEF CanRoute
<1>4. Served(w, f) # "none" => Routed(w, f) \in TenantFile /\ Left(w, f) \in TenantFile
  BY <1>2, RoutedFile DEF Left
<1>5. FileTables' /\ CacheTables'
  BY <1>1, <1>2, <1>4, Routing
<1>6. Requests'
  <2>1. Idle \in RequestRow
    BY IdlePlaced DEF Placed
  <2> HIDE DEF p, f
  <2>2. /\ r \in RequestRow
        /\ r.op = "request" /\ r.at = "write" /\ r.portal = s.portal /\ r.firm = f /\ r.path = p
    BY <1>2, <1>3, <2>1 DEF RequestRow, Labels, Opening
  <2>3. CanRoute(w, f) => Placed(r)
    BY <1>2, <1>3, <2>2 DEF Placed
  <2> HIDE DEF r
  <2> QED
    BY <1>1, <2>3, Becoming DEF Types, Requests
<1>7. SessionTables' /\ WorkTables'
  BY <1>1 DEF Types, WorkTables, SessionTables
<1> QED
  BY <1>1, <1>5, <1>6, <1>7, RegistryKept DEF Types

LEMMA TypesWrite ==
  ASSUME RegistryAssumption, Types, NEW w \in Workers, Write(w)
  PROVE  Types'
<1> DEFINE f == Firm(w)
           p == req[w].path
           file == files[f][p]
           more == [file EXCEPT !.work = @ + 1]
<1>1. /\ req[w].at = "write" /\ Finish(w) /\ UNCHANGED <<registry, cache, sessions>>
      /\ \/ /\ file.state = "whole" /\ file.work < MaxWork /\ entered[f] < MaxWork
            /\ files' = [files EXCEPT ![f][p].work = @ + 1]
            /\ entered' = [entered EXCEPT ![f] = @ + 1]
         \/ files' = [files EXCEPT ![f][p] = Touched(file)] /\ UNCHANGED entered
  BY DEF Write, At
<1>2. f \in FirmIds /\ p \in Paths /\ file \in TenantFile
  BY <1>1, Placing DEF Unplaced, Placed, Types, FileTables
<1>3. Requests'
  BY <1>1, Finishing DEF Types
<1>4. CASE /\ file.state = "whole" /\ file.work < MaxWork /\ entered[f] < MaxWork
           /\ files' = [files EXCEPT ![f][p].work = @ + 1]
           /\ entered' = [entered EXCEPT ![f] = @ + 1]
  <2>1. more \in TenantFile
    BY <1>2, <1>4, SMTT(30) DEF TenantFile, FileRow, RegistryAssumption
  <2>2. files' = [files EXCEPT ![f][p] = more]
    BY <1>2, <1>4 DEF Types, FileTables
  <2> HIDE DEF more, f, p
  <2>3. FileTables'
    BY <1>2, <2>1, <2>2 DEF Types, FileTables
  <2>4. WorkTables'
    BY <1>2, <1>4 DEF Types, WorkTables, RegistryAssumption
  <2> QED
    BY <1>1, <1>3, <2>3, <2>4, RegistryKept, CacheKept DEF Types, SessionTables
<1>5. CASE files' = [files EXCEPT ![f][p] = Touched(file)] /\ UNCHANGED entered
  <2> DEFINE new == Touched(file)
  <2>1. new \in TenantFile
    BY <1>2, TouchedFile
  <2> HIDE DEF new, f, p
  <2>2. FileTables'
    BY <1>2, <1>5, <2>1 DEF Types, FileTables, new
  <2> QED
    BY <1>1, <1>3, <1>5, <2>2, RequestOnly
<1> QED
  BY <1>1, <1>4, <1>5

LEMMA TypesCrash ==
  ASSUME RegistryAssumption, Types, NEW w \in Workers, Crash(w)
  PROVE  Types'
<1>1. /\ UNCHANGED <<registry, sessions, entered>> /\ LeaveCopy(w) /\ Finish(w)
      /\ cache' = [cache EXCEPT ![w] = [f \in FirmIds |-> "none"]]
  BY DEF Crash, Finish
<1>2. CacheTables' /\ Requests' /\ FileTables'
  BY <1>1, Finishing, LeavingCopy DEF Types, CacheTables
<1> QED
  BY <1>1, <1>2, RegistryKept DEF Types, registry, SessionTables, WorkTables

LEMMA TypesNext == RegistryAssumption /\ Types /\ [Next]_vars => Types'
<1> SUFFICES ASSUME RegistryAssumption, Types, [Next]_vars PROVE Types'
  OBVIOUS
<1>1. ASSUME NEW w \in Workers, LaunchStep(w) PROVE Types'
  BY <1>1, TypesLaunch, TypesLooks, TypesLookupAgain, TypesCreateFirm, TypesCopies, TypesScrub,
     TypesCreateWorkspace, TypesMark, TypesRollbackRows, TypesEnsureReady, TypesRepairPath,
     TypesReplace, TypesPoint, TypesSize, TypesReread, TypesCheckFirm, TypesCheckWorkspace,
     TypesEstablish
     DEF LaunchStep
<1>2. ASSUME NEW w \in Workers, RequestStep(w) PROVE Types'
  BY <1>2, TypesRequest, TypesWrite DEF RequestStep
<1>3. ASSUME NEW w \in Workers, ScriptStep(w) \/ DryRun(w) PROVE Types'
  BY <1>3, TypesStartRepair, TypesStartImport, TypesBackup, TypesImport, TypesMetadata
     DEF ScriptStep, DryRun
<1>4. ASSUME NEW w \in Workers, Fault(w) PROVE Types'
  BY <1>4, TypesFails, TypesCrash DEF Fault
<1>5. CASE UNCHANGED vars
  BY <1>5, FilesKept, CacheKept, RegistryKept
     DEF vars, Types, SessionTables, WorkTables, Requests, registry
<1> QED
  BY <1>1, <1>2, <1>3, <1>4, <1>5, TypesStatus DEF Next

LEMMA TypesOK == RegistryAssumption /\ Types => TypeOK
<1> SUFFICES ASSUME RegistryAssumption, Types PROVE TypeOK
  OBVIOUS
<1>1. /\ firms \in [FirmIds -> [portal : PortalFirms \cup {"none"}, active : BOOLEAN]]
      /\ spaces \in [FirmIds -> [path : Paths \cup {"none"}, active : BOOLEAN]]
      /\ \A f \in FirmIds : spaces[f].path # "none" => firms[f].portal # "none"
      /\ issued \in {0} \cup FirmIds
  BY DEF Types, RegistryTables, RowsWhole, FirmRow, SpaceRow
<1>2. \A f \in FirmIds, p \in Paths :
          /\ files[f][p].state \in FileStates
          /\ files[f][p].work \in 0..MaxWork
          /\ files[f][p].state # "whole" => files[f][p].work = 0
          /\ files[f][p].by \subseteq Workers
  BY DEF Types, FileTables, TenantFile, FileRow
<1> QED
  BY <1>1, <1>2 DEF TypeOK, Types, CacheTables, SessionTables, WorkTables, Requests, Placed

LEMMA TypesAlways == Spec => []Types
<1>1. Init => Types
  BY TypesInit, RegistryAssumption
<1>2. Types /\ [Next]_vars => Types'
  BY TypesNext, RegistryAssumption
<1> QED
  BY <1>1, <1>2, PTL DEF Spec

\* The registry and the tenant files keep to their columns: a workspace has a
\* firm, and a file that is not whole holds no work, whatever launches, scripts,
\* requests and crashes come between two steps of another (platform_db.py,
\* provision.py).
THEOREM TypeCorrect == Spec => []TypeOK
<1>1. Types => TypeOK
  BY TypesOK, RegistryAssumption
<1> QED
  BY <1>1, TypesAlways, PTL

LEMMA RunsAreSteps == [MCNext]_MCvars => [Next]_vars
  BY DEF MCNext, MCvars, Next, Fault

LEMMA RunsTyped == MCSpec => []Types
<1>1. MCInit => Types
  BY TypesInit, RegistryAssumption DEF MCInit
<1>2. Types /\ [MCNext]_MCvars => Types'
  BY TypesNext, RunsAreSteps, RegistryAssumption
<1> QED
  BY <1>1, <1>2, PTL DEF MCSpec

-----------------------------------------------------------------------------
(* What can lose work, however the steps interleave.                       *)

\* No file of a firm has less work after the step, or other work; and the firm
\* keeps its row.
WorkKept(f) == \A p \in Paths : files'[f][p].work >= files[f][p].work
WorkSame(f) == \A p \in Paths : files'[f][p].work = files[f][p].work
RowKept(f) == Registered(f) => Registered(f)'

LEMMA SameKeeps ==
  ASSUME Types, NEW f \in FirmIds, WorkSame(f)
  PROVE  WorkKept(f)
<1>1. \A p \in Paths : files[f][p].work \in Int
  BY DEF Types, FileTables, TenantFile, FileRow
<1> QED
  BY <1>1 DEF WorkKept, WorkSame

LEMMA PortalsKeep ==
  ASSUME Types, Types', \A f \in FirmIds : firms[f].portal # "none" => firms'[f].portal # "none"
  PROVE  \A f \in FirmIds : RowKept(f)
<1>1. \A f \in FirmIds : Registered(f) <=> firms[f].portal # "none"
  BY RowsThere DEF Types
<1>2. \A f \in FirmIds : Registered(f)' <=> firms'[f].portal # "none"
  BY DEF Types, Registered, RowsWhole, NoFirm, RegistryTables, FirmRow
<1> QED
  BY <1>1, <1>2 DEF RowKept

\* Setting a file of the same work.
LEMMA SettingKeeps ==
  ASSUME Types, NEW w \in Workers, Firm(w) \in FirmIds, NEW file \in TenantFile,
         SetFile(w, file), file.work = Canonical(Firm(w)).work
  PROVE  \A f \in FirmIds : WorkSame(f)
<1>1. /\ files'[Firm(w)]["canonical"] = file
      /\ \A g \in FirmIds, q \in Paths :
            g # Firm(w) \/ q # "canonical" => files'[g][q] = files[g][q]
  BY CanonicalSet DEF Types, Firm
<1>2. Canonical(Firm(w)) = files[Firm(w)]["canonical"]
  BY DEF Canonical
<1> QED
  BY <1>1, <1>2 DEF WorkSame

\* Replacing it loses work of that firm only.
LEMMA SettingElsewhere ==
  ASSUME Types, NEW w \in Workers, Firm(w) \in FirmIds, NEW file \in TenantFile, SetFile(w, file)
  PROVE  \A f \in FirmIds \ {Firm(w)} : WorkSame(f)
<1>1. \A g \in FirmIds, q \in Paths : g # Firm(w) => files'[g][q] = files[g][q]
  BY CanonicalSet DEF Types, Firm
<1> QED
  BY <1>1 DEF WorkSame

\* Routing keeps the work of the file it opens.
LEMMA RoutingKeeps ==
  ASSUME Types, NEW w \in Workers, NEW f \in FirmIds, NEW file, Route(w, f, file),
         Served(w, f) # "none" => file \in TenantFile /\ file.work = files[f][Served(w, f)].work
  PROVE  \A g \in FirmIds : WorkSame(g)
<1>1. /\ Served(w, f) # "none" => files'[f][Served(w, f)] = file
      /\ \A g \in FirmIds, q \in Paths :
            g # f \/ q # Served(w, f) => files'[g][q] = files[g][q]
  BY Routing
<1>2. Served(w, f) \in Paths \cup {"none"} /\ "none" \notin Paths
  BY ServedPath DEF Paths
<1> QED
  BY <1>1, <1>2 DEF WorkSame

LEMMA LeavingKeeps ==
  ASSUME Types, NEW w \in Workers, LeaveCopy(w)
  PROVE  \A f \in FirmIds : WorkSame(f)
BY LeavingCopy DEF WorkSame

\* The opens of a tenant file, and the deletion of the template's accounts.
LEMMA OpensKeep ==
  ASSUME RegistryAssumption, Types, NEW w \in Workers,
         Scrub(w) \/ MarkProvisioned(w) \/ CheckSize(w) \/ ApplyMetadata(w)
  PROVE  \A f \in FirmIds : WorkSame(f)
<1> DEFINE file == Canonical(Firm(w))
           scrubbed == [file EXCEPT !.seeds = FALSE]
           opened == Opened(file, TRUE)
           marked == [opened EXCEPT !.marked = TRUE]
<1>1. req[w].at \notin Unplaced
  BY DEF Scrub, MarkProvisioned, CheckSize, ApplyMetadata, At, Unplaced
<1>2. Firm(w) \in FirmIds /\ file \in TenantFile
  BY <1>1, Placing, CanonicalFile DEF Types
<1>3. \/ UNCHANGED files
      \/ \E new \in {scrubbed, Touched(file), opened, marked} : SetFile(w, new)
  BY DEF Scrub, MarkProvisioned, CheckSize, ApplyMetadata
<1>4. opened \in TenantFile /\ opened.work = file.work
  BY <1>2, OpenedFile
<1>5. marked \in TenantFile /\ scrubbed \in TenantFile
  BY <1>2, MarkedFile, ScrubbedFile
<1>6. Touched(file) \in TenantFile /\ Touched(file).work = file.work
  BY <1>2, TouchedFile
<1>7. scrubbed.work = file.work
  BY <1>2 DEF TenantFile, FileRow
<1>8. marked.work = opened.work
  <2> HIDE DEF opened
  <2> QED
    BY <1>4 DEF TenantFile, FileRow
<1> HIDE DEF scrubbed, marked, opened
<1>9. \A new \in {scrubbed, Touched(file), opened, marked} :
         new \in TenantFile /\ new.work = file.work
  BY <1>4, <1>5, <1>6, <1>7, <1>8
<1> QED
  BY <1>2, <1>3, <1>9, SettingKeeps DEF WorkSame

LEMMA ServingKeeps ==
  ASSUME RegistryAssumption, Types, NEW w \in Workers,
         EstablishSession(w) \/ \E s \in sessions : Request(w, s)
  PROVE  \A f \in FirmIds : WorkSame(f)
<1>1. PICK f \in FirmIds :
         \/ Route(w, f, [Routed(w, f) EXCEPT !.user = TRUE])
         \/ Route(w, f, Routed(w, f))
         \/ Route(w, f, Left(w, f))
  <2>1. CASE EstablishSession(w)
    <3>1. Firm(w) \in FirmIds
      BY <2>1, Placing DEF EstablishSession, At, Unplaced
    <3> QED
      BY <2>1, <3>1 DEF EstablishSession, Unroutable, Left
  <2>2. ASSUME NEW s \in sessions, Request(w, s)
        PROVE  Route(w, s.firm, Routed(w, s.firm)) \/ Route(w, s.firm, Left(w, s.firm))
    BY <2>2 DEF Request, Unroutable, Left
  <2>3. \A s \in sessions : s.firm \in FirmIds
    BY DEF Types, SessionTables
  <2> QED
    BY <2>1, <2>2, <2>3
<1> DEFINE new == [Routed(w, f) EXCEPT !.user = TRUE]
<1>2. Served(w, f) # "none" =>
         /\ new \in TenantFile /\ new.work = files[f][Served(w, f)].work
         /\ Routed(w, f) \in TenantFile /\ Routed(w, f).work = files[f][Served(w, f)].work
         /\ Left(w, f) \in TenantFile /\ Left(w, f).work = files[f][Served(w, f)].work
  BY RoutedFile, RoutedUser DEF Left
<1> HIDE DEF new
<1> QED
  BY <1>1, <1>2, RoutingKeeps DEF new

LEMMA WriteKeeps ==
  ASSUME RegistryAssumption, Types, NEW w \in Workers, Write(w)
  PROVE  /\ \A f \in FirmIds : WorkKept(f)
         /\ \A f \in FirmIds : entered'[f] = entered[f] => WorkSame(f)
         /\ \A f \in FirmIds : entered'[f] # entered[f] =>
               /\ f = Firm(w) /\ files[f][req[w].path].state = "whole"
               /\ entered'[f] = entered[f] + 1
               /\ files'[f][req[w].path] = [files[f][req[w].path] EXCEPT !.work = @ + 1]
<1> DEFINE f == Firm(w)
           p == req[w].path
           file == files[f][p]
           more == [file EXCEPT !.work = @ + 1]
<1>1. /\ req[w].at = "write"
      /\ \/ /\ file.state = "whole"
            /\ files' = [files EXCEPT ![f][p].work = @ + 1]
            /\ entered' = [entered EXCEPT ![f] = @ + 1]
         \/ files' = [files EXCEPT ![f][p] = Touched(file)] /\ UNCHANGED entered
  BY DEF Write, At
<1>2. f \in FirmIds /\ p \in Paths /\ file \in TenantFile
  BY <1>1, Placing DEF Unplaced, Placed, Types, FileTables
<1>3. Touched(file) \in TenantFile /\ Touched(file).work = file.work
  BY <1>2, TouchedFile
<1>4. \A g \in FirmIds, q \in Paths : files[g][q].work \in Int
  BY DEF Types, FileTables, TenantFile, FileRow
<1>5. more.work = file.work + 1
  BY <1>2 DEF TenantFile, FileRow
<1>6. CASE /\ file.state = "whole"
           /\ files' = [files EXCEPT ![f][p].work = @ + 1]
           /\ entered' = [entered EXCEPT ![f] = @ + 1]
  <2>1. files' = [files EXCEPT ![f][p] = more]
    BY <1>2, <1>6 DEF Types, FileTables
  <2> HIDE DEF more, f, p
  <2>2. /\ files'[f][p] = more
        /\ \A g \in FirmIds, q \in Paths : g # f \/ q # p => files'[g][q] = files[g][q]
    BY <1>2, <2>1 DEF Types, FileTables
  <2>3. entered'[f] = entered[f] + 1 /\ \A g \in FirmIds \ {f} : entered'[g] = entered[g]
    BY <1>2, <1>6 DEF Types, WorkTables
  <2>4. \A g \in FirmIds : WorkKept(g)
    BY <1>4, <1>5, <2>2 DEF WorkKept
  <2>5. \A g \in FirmIds \ {f} : WorkSame(g)
    BY <2>2 DEF WorkSame
  <2>6. entered'[f] # entered[f]
    BY <1>2, <2>3 DEF Types, WorkTables
  <2> QED
    BY <1>6, <2>2, <2>3, <2>4, <2>5, <2>6 DEF f, p, more
<1>7. CASE files' = [files EXCEPT ![f][p] = Touched(file)] /\ UNCHANGED entered
  <2> DEFINE new == Touched(file)
  <2>1. files' = [files EXCEPT ![f][p] = new] /\ new.work = file.work
    BY <1>3, <1>7
  <2> HIDE DEF new, f, p
  <2>2. /\ files'[f][p] = new
        /\ \A g \in FirmIds, q \in Paths : g # f \/ q # p => files'[g][q] = files[g][q]
    BY <1>2, <2>1 DEF Types, FileTables
  <2>3. \A g \in FirmIds : WorkSame(g)
    BY <2>1, <2>2 DEF WorkSame
  <2> QED
    BY <1>7, <2>3, SameKeeps
<1> QED
  BY <1>1, <1>6, <1>7

LEMMA ImportKeeps ==
  ASSUME RegistryAssumption, Types, NEW w \in Workers, NEW f \in FirmIds, NEW dryRun \in BOOLEAN,
         StartImport(w, f, dryRun)
  PROVE  \A g \in FirmIds : WorkSame(g)
<1> DEFINE new == Opened(files[f]["canonical"], TRUE)
<1>1. files' = files \/ files' = [files EXCEPT ![f]["canonical"] = new]
  BY DEF StartImport
<1>2. new \in TenantFile /\ new.work = files[f]["canonical"].work /\ "canonical" \in Paths
  BY CanonicalFile, OpenedFile DEF Types, Paths
<1> HIDE DEF new
<1> QED
  BY <1>1, <1>2 DEF Types, FileTables, WorkSame

\* A portal firm leaves the registry by a rollback only.
LEMMA PortalsStand ==
  ASSUME RegistryAssumption, Types, NEW w \in Workers, ~At(w, "undo"),
         LaunchStep(w) \/ RequestStep(w) \/ ScriptStep(w) \/ DryRun(w) \/ Fault(w)
  PROVE  \A f \in FirmIds : firms[f].portal # "none" => firms'[f].portal # "none"
<1>1. CASE CheckFirm(w) \/ CheckWorkspace(w)
  <2>1. ASSUME NEW ACTIVE \in BOOLEAN, NEW next \in {"workspace", "open"},
               req[w].at \in {"firm", "workspace"}, Reactivate(w, ACTIVE, next)
        PROVE  \A f \in FirmIds : firms'[f].portal = firms[f].portal
    BY <2>1, Reactivated
  <2>2. req[w].at = "workspace" => req[w].ACTIVE \in BOOLEAN
    BY Placing DEF Placed, RequestRow
  <2>3. \/ UNCHANGED registry
        \/ \E ACTIVE \in BOOLEAN, next \in {"workspace", "open"} :
              req[w].at \in {"firm", "workspace"} /\ Reactivate(w, ACTIVE, next)
    BY <1>1, <2>2 DEF CheckFirm, CheckWorkspace, At
  <2> QED
    BY <2>1, <2>3 DEF registry
<1>2. CASE CreateFirm(w)
  <2>1. req[w].portal # "none"
    BY <1>2, Placing DEF CreateFirm, At, Placed, RegistryAssumption
  <2> DEFINE id == issued + 1
             row == [portal |-> req[w].portal, active |-> TRUE]
  <2>2. firms' = firms \/ (id \in FirmIds /\ firms' = [firms EXCEPT ![id] = row])
    BY <1>2 DEF CreateFirm
  <2>3. row.portal # "none"
    BY <2>1
  <2> HIDE DEF id, row
  <2> QED
    BY <2>2, <2>3 DEF Types, RegistryTables
<1>3. CASE ~(CheckFirm(w) \/ CheckWorkspace(w) \/ CreateFirm(w))
  <2>1. UNCHANGED firms
    BY <1>3 DEF LaunchStep, RequestStep, ScriptStep, DryRun, Fault, Launch, CheckSlug, LookupAgain,
       CloneTemplate, CopyTemplate, FinishCopy, Scrub, CreateWorkspace, MarkProvisioned,
       CreateOwner, RollbackRows, RollbackFile, EnsureReady, RepairPath, ReplaceCanonical,
       PointAtCanonical, CheckSize, EnsureFile, RemoveFile, RereadWorkspace, EstablishSession,
       Request, Write, StartRepair, StartImport, BackupTenant, ReplaceByLegacy, ApplyMetadata,
       ProvisionStepFails, Crash, registry
  <2> QED
    BY <2>1
<1> QED
  BY <1>1, <1>2, <1>3

\* The steps that may lose work.
Losing == {"undo", "unlink", "redo", "copy", "copying", "replace", "import"}

\* The steps that set the canonical file to another.
Setting(w) ==
    \/ CopyTemplate(w) \/ FinishCopy(w) \/ RollbackFile(w) \/ RemoveFile(w)
    \/ ReplaceCanonical(w) \/ ReplaceByLegacy(w)

LEMMA SettingFile ==
  ASSUME RegistryAssumption, Types, NEW w \in Workers, Setting(w)
  PROVE  /\ req[w].at \in Losing /\ req[w].at \notin Unplaced
         /\ Firm(w) \in FirmIds
         /\ UNCHANGED files \/ \E file \in TenantFile : SetFile(w, file)
<1> DEFINE file == Canonical(Firm(w))
           ends == {[left EXCEPT !.by = file.by \ {w}] : left \in {TemplateCopy, file}}
<1>1. req[w].at \in Losing /\ req[w].at \notin Unplaced
  BY DEF Setting, CopyTemplate, FinishCopy, RollbackFile, RemoveFile, ReplaceCanonical,
     ReplaceByLegacy, At, Losing, Unplaced
<1>2. Firm(w) \in FirmIds /\ req[w].copy \in TenantFile /\ file \in TenantFile
  BY <1>1, Placing, CanonicalFile DEF Placed, RequestRow, Types
<1>3. \/ UNCHANGED files
      \/ \E new \in {Truncated(file, w), NoFile, LegacyFile, req[w].copy} \cup ends : SetFile(w, new)
  BY DEF Setting, CopyTemplate, FinishCopy, RollbackFile, RemoveFile, ReplaceCanonical,
     ReplaceByLegacy
<1>4. \A new \in {Truncated(file, w), NoFile, LegacyFile, req[w].copy} \cup ends :
         new \in TenantFile
  <2>1. /\ Truncated(file, w) \in TenantFile /\ NoFile \in TenantFile
        /\ TemplateCopy \in TenantFile /\ LegacyFile \in TenantFile
    BY <1>2, FileValues
  <2>2. \A left \in {TemplateCopy, file} : [left EXCEPT !.by = file.by \ {w}] \in TenantFile
    <3> HIDE DEF file
    <3> QED
      BY <1>2, <2>1, LeftFile
  <2> HIDE DEF file
  <2> QED
    BY <1>2, <2>1, <2>2
<1> HIDE DEF file, ends
<1> QED
  BY <1>1, <1>2, <1>3, <1>4

\* Every other step but a write keeps the work of every file.
LEMMA WorkStands ==
  ASSUME RegistryAssumption, Types, NEW w \in Workers, ~Setting(w), ~Write(w),
         LaunchStep(w) \/ RequestStep(w) \/ ScriptStep(w) \/ DryRun(w) \/ Fault(w)
  PROVE  \A f \in FirmIds : WorkSame(f)
<1>1. CASE Scrub(w) \/ MarkProvisioned(w) \/ CheckSize(w) \/ ApplyMetadata(w)
  BY <1>1, OpensKeep
<1>2. CASE EstablishSession(w) \/ \E s \in sessions : Request(w, s)
  BY <1>2, ServingKeeps
<1>3. CASE \E f \in FirmIds, dryRun \in BOOLEAN : StartImport(w, f, dryRun)
  BY <1>3, ImportKeeps
<1>4. CASE Fault(w)
  BY <1>4, LeavingKeeps DEF Fault, ProvisionStepFails, Crash
<1>5. CASE UNCHANGED files
  BY <1>5 DEF WorkSame
<1> QED
  BY <1>1, <1>2, <1>3, <1>4, <1>5
     DEF Setting, LaunchStep, RequestStep, ScriptStep, DryRun, Launch, CheckSlug, LookupAgain,
       CreateFirm, CloneTemplate, CreateWorkspace, CreateOwner, RollbackRows, EnsureReady,
       RepairPath, PointAtCanonical, EnsureFile, RereadWorkspace, CheckFirm, CheckWorkspace,
       StartRepair, BackupTenant

LEMMA FilesStand ==
  ASSUME RegistryAssumption, Types, NEW w \in Workers,
         LaunchStep(w) \/ RequestStep(w) \/ ScriptStep(w) \/ DryRun(w) \/ Fault(w)
  PROVE  \A f \in FirmIds : WorkKept(f) \/ (Firm(w) = f /\ req[w].at \in Losing)
<1>1. CASE Setting(w)
  BY <1>1, SettingFile, SettingElsewhere, SameKeeps DEF WorkSame
<1>2. CASE Write(w)
  BY <1>2, WriteKeeps
<1>3. CASE ~Setting(w) /\ ~Write(w)
  BY <1>3, WorkStands, SameKeeps
<1> QED
  BY <1>1, <1>2, <1>3

LEMMA RollbackElsewhere ==
  ASSUME RegistryAssumption, Types, NEW w \in Workers, RollbackRows(w)
  PROVE  \A f \in FirmIds \ {Firm(w)} : RowKept(f)
BY Placing DEF RollbackRows, RowKept, Registered, Types, RegistryTables, At, Unplaced

\* A step of a process keeps the work and the row of every firm, or is one of
\* the seven, of that firm.
LEMMA StepLosses ==
  ASSUME RegistryAssumption, Types, Types', NEW w \in Workers,
         LaunchStep(w) \/ RequestStep(w) \/ ScriptStep(w) \/ DryRun(w) \/ Fault(w)
  PROVE  \A f \in FirmIds : (WorkKept(f) /\ RowKept(f)) \/ (Firm(w) = f /\ req[w].at \in Losing)
<1>1. CASE ~At(w, "undo")
  BY <1>1, PortalsStand, PortalsKeep, FilesStand
<1>2. CASE At(w, "undo")
  <2>1. RollbackRows(w) \/ Crash(w)
    BY <1>2 DEF LaunchStep, RequestStep, ScriptStep, DryRun, Fault, Launch, CheckSlug, LookupAgain,
       CreateFirm, CloneTemplate, CopyTemplate, FinishCopy, Scrub, CreateWorkspace,
       MarkProvisioned, CreateOwner, RollbackFile, EnsureReady, RepairPath, ReplaceCanonical,
       PointAtCanonical, CheckSize, EnsureFile, RemoveFile, RereadWorkspace, CheckFirm,
       CheckWorkspace, EstablishSession, Request, Write, StartRepair, StartImport, BackupTenant,
       ReplaceByLegacy, ApplyMetadata, ProvisionStepFails, ProvisionSteps, At
  <2>2. CASE Crash(w)
    BY <2>2, FilesStand DEF Crash, RowKept, registry, Registered
  <2> QED
    BY <1>2, <2>1, <2>2, RollbackElsewhere, FilesStand DEF At, Losing
<1> QED
  BY <1>1, <1>2

LEMMA StatusLosses ==
  ASSUME RegistryAssumption, Types, Types', NEW p \in PortalFirms, FirmAccountStatus(p)
  PROVE  \A f \in FirmIds : WorkKept(f) /\ RowKept(f)
<1>1. PICK f \in Holders(p), active \in BOOLEAN : SetStatus(f, active)
  BY DEF FirmAccountStatus
<1>2. f \in FirmIds /\ firms[f].portal # "none" /\ UNCHANGED files
  BY DEF Holders, RegistryAssumption, FirmAccountStatus
<1>3. \A g \in FirmIds : WorkKept(g)
  BY <1>2, SameKeeps DEF WorkSame
<1> QED
  BY <1>1, <1>2, <1>3, StatusSet, PortalsKeep

-----------------------------------------------------------------------------
(* What a step makes of the request.                                        *)

LEMMA Finished ==
  ASSUME Types, NEW w \in Workers, Finish(w)
  PROVE  OthersStay(w) /\ req'[w] = Idle /\ req'[w].at = "idle" /\ req'[w].how = "none"
BY DEF Types, Requests, Finish, OthersStay, Idle

LEMMA Moved ==
  ASSUME Types, NEW w \in Workers, NEW label, Goto(w, label)
  PROVE  /\ OthersStay(w) /\ Same(w)
         /\ req'[w].at = label /\ req'[w].how = req[w].how /\ req'[w].copy = req[w].copy
BY Placing DEF Types, Requests, Goto, OthersStay, Same, RequestRow

LEMMA Turned ==
  ASSUME Types, NEW w \in Workers, NEW label, NEW how,
         req' = [req EXCEPT ![w].at = label, ![w].how = how]
  PROVE  /\ OthersStay(w) /\ Same(w)
         /\ req'[w].at = label /\ req'[w].how = how
BY Placing DEF Types, Requests, OthersStay, Same, RequestRow

LEMMA Taken ==
  ASSUME Types, NEW w \in Workers, NEW label, NEW copy,
         req' = [req EXCEPT ![w].at = label, ![w].copy = copy]
  PROVE  /\ OthersStay(w) /\ Same(w)
         /\ req'[w].at = label /\ req'[w].how = req[w].how /\ req'[w].copy = copy
BY Placing DEF Types, Requests, OthersStay, Same, RequestRow

LEMMA Rounded ==
  ASSUME Types, NEW w \in Workers, RoundDone(w)
  PROVE  /\ OthersStay(w) /\ Same(w)
         /\ req'[w].at \in {"firm", "ready"} /\ req'[w].how = "none"
BY Placing DEF Types, Requests, RoundDone, OthersStay, Same, RequestRow

LEMMA Failed ==
  ASSUME Types, NEW w \in Workers, Fail(w)
  PROVE  /\ OthersStay(w)
         /\ \/ req[w].how # "provision" /\ req'[w].at = "idle" /\ req'[w].how = "none"
            \/ Same(w) /\ req[w].how = "provision" /\ req'[w].at = "undo" /\ req'[w].how = "provision"
BY Moved, Finished DEF Fail

\* A request replaced, whether it starts or has found its firm.
LEMMA Replaced ==
  ASSUME Types, NEW w \in Workers, NEW r, req' = [req EXCEPT ![w] = r]
  PROVE  OthersStay(w) /\ req'[w] = r
BY DEF Types, Requests, OthersStay

LEMMA Launched ==
  ASSUME RegistryAssumption, Types, NEW w \in Workers, NEW p \in PortalFirms, Launch(w, p)
  PROVE  /\ OthersStay(w) /\ req'[w].how = "none" /\ req'[w].portal = p
         /\ \/ Holders(p) = {} /\ req'[w].at = "slug"
            \/ /\ req'[w].at = "ready" /\ req'[w].firm \in FirmIds
               /\ firms[req'[w].firm].portal = p
<1> DEFINE f == CHOOSE f \in Holders(p) : TRUE
           b == firms[f].active
           empty == [Idle EXCEPT !.op = "launch", !.portal = p, !.at = "slug"]
           found == [Idle EXCEPT !.op = "launch", !.portal = p, !.at = "ready", !.firm = f,
                                 !.seen = b, !.rounds = 2]
<1>1. \/ Holders(p) = {} /\ req' = [req EXCEPT ![w] = empty]
      \/ Holders(p) # {} /\ req' = [req EXCEPT ![w] = found]
  BY DEF Launch
<1>2. Holders(p) # {} => f \in FirmIds /\ firms[f].portal = p
  BY HoldersAre
<1> HIDE DEF f, b
<1>3. /\ empty.at = "slug" /\ empty.how = "none" /\ empty.portal = p
      /\ found.at = "ready" /\ found.how = "none" /\ found.portal = p /\ found.firm = f
  BY DEF Idle
<1> HIDE DEF empty, found
<1> QED
  BY <1>1, <1>2, <1>3, Replaced

LEMMA FoundAgain ==
  ASSUME RegistryAssumption, Types, NEW w \in Workers, LookupAgain(w)
  PROVE  /\ OthersStay(w)
         /\ \/ req'[w].at = "idle" /\ req'[w].how = "none"
            \/ /\ req'[w].at = "ready" /\ req'[w].how = req[w].how
               /\ req'[w].firm \in FirmIds /\ req'[w].portal = req[w].portal
               /\ firms[req'[w].firm].portal = req[w].portal
<1> DEFINE p == req[w].portal
           f == CHOOSE f \in Holders(p) : TRUE
           b == firms[f].active
           r == [req[w] EXCEPT !.at = "ready", !.firm = f, !.seen = b, !.rounds = 2]
<1>1. Placed(req[w]) /\ req[w] \in RequestRow /\ p \in PortalFirms
  BY Placing DEF Placed, LookupAgain, At
<1>2. CASE Holders(p) = {}
  BY <1>2, Finished DEF LookupAgain
<1>3. CASE Holders(p) # {}
  <2>1. f \in FirmIds /\ firms[f].portal = p
    BY <1>1, <1>3, HoldersAre
  <2>2. req' = [req EXCEPT ![w] = r]
    BY <1>3 DEF LookupAgain, Types, Requests
  <2> HIDE DEF f, b
  <2>3. r.at = "ready" /\ r.how = req[w].how /\ r.firm = f /\ r.portal = p
    BY <1>1 DEF RequestRow
  <2> HIDE DEF r
  <2> QED
    BY <2>1, <2>2, <2>3, Replaced
<1> QED
  BY <1>2, <1>3

LEMMA RepairStarted ==
  ASSUME Types, NEW w \in Workers, NEW f \in FirmIds, StartRepair(w, f)
  PROVE  /\ OthersStay(w) /\ req'[w].at = "path" /\ req'[w].how = "none"
         /\ req'[w].firm = f /\ req'[w].portal = firms[f].portal
<1> DEFINE r == [Idle EXCEPT !.op = "repair", !.at = "path", !.firm = f,
                             !.portal = firms[f].portal]
<1>1. req' = [req EXCEPT ![w] = r]
  BY DEF StartRepair
<1>2. r.at = "path" /\ r.how = "none" /\ r.firm = f /\ r.portal = firms[f].portal
  BY DEF Idle
<1> HIDE DEF r
<1> QED
  BY <1>1, <1>2, Replaced

LEMMA ImportStarted ==
  ASSUME Types, NEW w \in Workers, NEW f \in FirmIds, NEW dryRun \in BOOLEAN, StartImport(w, f, dryRun)
  PROVE  /\ OthersStay(w)
         /\ \/ /\ ~dryRun /\ Openable(Canonical(f))
               /\ req'[w].at = "backup" /\ req'[w].how = "none"
               /\ req'[w].firm = f /\ req'[w].portal = firms[f].portal
            \/ (dryRun \/ ~Openable(Canonical(f))) /\ UNCHANGED req
<1> DEFINE r == [Idle EXCEPT !.op = "import", !.at = "backup", !.firm = f,
                             !.portal = firms[f].portal]
<1>1. \/ (dryRun \/ ~Openable(Canonical(f))) /\ UNCHANGED req
      \/ ~dryRun /\ Openable(Canonical(f)) /\ req' = [req EXCEPT ![w] = r]
  BY DEF StartImport
<1>2. r.at = "backup" /\ r.how = "none" /\ r.firm = f /\ r.portal = firms[f].portal
  BY DEF Idle
<1> HIDE DEF r
<1> QED
  BY <1>1, <1>2, Replaced DEF OthersStay

LEMMA WriteStarted ==
  ASSUME Types, NEW w \in Workers, NEW s \in sessions, Request(w, s)
  PROVE  /\ OthersStay(w)
         /\ \/ /\ CanRoute(w, s.firm) /\ UNCHANGED sessions
               /\ Route(w, s.firm, Routed(w, s.firm))
               /\ req'[w].at = "write" /\ req'[w].how = "none"
               /\ req'[w].firm = s.firm /\ req'[w].portal = s.portal
               /\ req'[w].path = Served(w, s.firm)
            \/ UNCHANGED req /\ sessions' = sessions \ {s}
<1> DEFINE f == s.firm
           r == [Idle EXCEPT !.op = "request", !.at = "write", !.portal = s.portal, !.firm = f,
                             !.path = Served(w, f)]
<1>1. \/ /\ CanRoute(w, f) /\ UNCHANGED sessions /\ Route(w, f, Routed(w, f))
         /\ req' = [req EXCEPT ![w] = r]
      \/ UNCHANGED req /\ sessions' = sessions \ {s}
  BY DEF Request
<1>2. /\ r.at = "write" /\ r.how = "none" /\ r.portal = s.portal /\ r.firm = f
      /\ r.path = Served(w, f)
  BY DEF Idle
<1> HIDE DEF r
<1> QED
  BY <1>1, <1>2, Replaced DEF OthersStay

-----------------------------------------------------------------------------
(* One request at a time: whose firm a portal firm, a session and accepted  *)
(* work belong to.                                                          *)

\* A firm nothing refers to: no session, no accepted work, no open Database.
Untouched(f) ==
    /\ entered[f] = 0
    /\ \A s \in sessions : s.firm # f
    /\ \A w \in Workers : cache[w][f] = "none"

Identity ==
    /\ \A f, g \in FirmIds : Registered(f) /\ firms[f].portal = firms[g].portal => f = g
    /\ \A f \in FirmIds : f > issued => ~Registered(f)
    /\ \A f \in FirmIds : ~HasSpace(f) => Untouched(f)
    /\ \A s \in sessions : firms[s.firm].portal = s.portal

\* A provisioning's firm is untouched up to the owner's account; a request is
\* about the firm of its portal firm; a write has the file of the registry,
\* unless the firm is suspended.
AtWork(w) ==
    LET f == req[w].firm
    IN  /\ req[w].at \in {"undo", "unlink"} => req[w].how = "provision"
        /\ req[w].how = "provision" => req[w].at \in Making /\ Untouched(f)
        /\ req[w].at \notin Unplaced \cup {"unlink"} => firms[f].portal = req[w].portal
        /\ req[w].at \in {"backup", "import", "metadata", "write"} => HasSpace(f)
        /\ req[w].at = "write" /\ spaces[f].active => req[w].path = spaces[f].path

OneAtATime == Identity /\ \A w \in Workers : AtWork(w)

LEMMA RowsThen ==
  ASSUME Types', NEW f \in FirmIds
  PROVE  /\ Registered(f)' <=> firms'[f].portal # "none"
         /\ HasSpace(f)' <=> spaces'[f].path # "none"
BY DEF Types, Registered, HasSpace, RowsWhole, NoFirm, NoSpace, RegistryTables, FirmRow, SpaceRow

\* The other processes rest, and go on resting.
LEMMA Resting ==
  ASSUME OneAtATime, NEW w \in Workers, OthersIdle(w), OthersStay(w), Identity', AtWork(w)'
  PROVE  OneAtATime'
<1>1. ASSUME NEW v \in Workers \ {w} PROVE AtWork(v)'
  BY DEF OneAtATime, OthersIdle, OthersStay, AtWork, At, Unplaced, Making
<1> QED
  BY <1>1 DEF OneAtATime

\* The portal firms stay, workspaces stay, and only a firm with one gets a
\* session, work or an open Database.
LEMMA IdentityStands ==
  ASSUME Types, Types', Identity, UNCHANGED issued,
         \A f \in FirmIds : firms'[f].portal = firms[f].portal,
         \A f \in FirmIds : HasSpace(f) => HasSpace(f)',
         \A s \in sessions' \ sessions : HasSpace(s.firm) /\ firms[s.firm].portal = s.portal,
         \A f \in FirmIds : entered'[f] # entered[f] => HasSpace(f),
         \A w \in Workers, f \in FirmIds :
            cache'[w][f] # cache[w][f] => cache'[w][f] = "none" \/ HasSpace(f)
  PROVE  /\ Identity'
         /\ \A f \in FirmIds : ~HasSpace(f) => Untouched(f)'
<1>1. \A f \in FirmIds : Registered(f)' <=> Registered(f)
  BY RowsThere, RowsThen DEF Types
<1>2. \A s \in sessions \cup sessions' : s.firm \in FirmIds
  BY DEF Types, SessionTables
<1>3. ASSUME NEW f \in FirmIds, ~HasSpace(f) PROVE Untouched(f)'
  BY <1>2, <1>3 DEF Identity, Untouched
<1>4. \A f \in FirmIds : ~HasSpace(f)' => Untouched(f)'
  BY <1>3
<1>5. \A f \in FirmIds : f > issued' => ~Registered(f)'
  BY <1>1 DEF Identity
<1>6. \A f, g \in FirmIds : Registered(f)' /\ firms'[f].portal = firms'[g].portal => f = g
  BY <1>1 DEF Identity
<1>7. \A s \in sessions' : firms'[s.firm].portal = s.portal
  BY <1>2 DEF Identity
<1> QED
  BY <1>3, <1>4, <1>5, <1>6, <1>7 DEF Identity

LEMMA IdentityUnchanged ==
  ASSUME UNCHANGED <<registry, cache, sessions, entered>>
  PROVE  /\ Identity => Identity'
         /\ \A f : Untouched(f)' <=> Untouched(f)
         /\ \A f : HasSpace(f)' <=> HasSpace(f)
BY DEF Identity, Untouched, registry, Registered, HasSpace

\* Where a step that only moves the request on must not lead.
Past(w) ==
    /\ req'[w].at \notin Unplaced \cup {"write", "backup", "import", "metadata"}
    /\ req'[w].how = "provision" => req[w].how = "provision" /\ req'[w].at \in Making
    /\ req'[w].at \in {"undo", "unlink"} => req'[w].how = "provision"

LEMMA WorkMoves ==
  ASSUME NEW w \in Workers, AtWork(w), Same(w), Past(w), NEW f, req[w].firm = f,
         req[w].at \notin Unplaced \cup {"unlink"},
         firms'[f].portal = firms[f].portal \/ req'[w].at = "unlink",
         Untouched(f) => Untouched(f)'
  PROVE  AtWork(w)'
<1>1. req'[w].firm = f /\ req'[w].portal = req[w].portal
  BY DEF Same
<1>2. req'[w].at \notin {"idle", "slug", "again", "create", "write", "backup", "import", "metadata"}
  BY DEF Past, Unplaced
<1>3. req'[w].how = "provision" => req'[w].at \in Making /\ Untouched(f)'
  BY DEF Past, AtWork
<1>4. req'[w].at # "unlink" => firms'[f].portal = req'[w].portal
  BY <1>1 DEF AtWork
<1> QED
  BY <1>1, <1>2, <1>3, <1>4 DEF AtWork, Past

LEMMA WorkEnds ==
  ASSUME NEW w \in Workers, req'[w].at = "idle", req'[w].how # "provision"
  PROVE  AtWork(w)'
BY DEF AtWork, Unplaced

\* The steps that change no more than files and the request.
LEMMA OneMoves ==
  ASSUME RegistryAssumption, Types, OneAtATime, NEW w \in Workers, OthersIdle(w),
         \/ CloneTemplate(w) \/ CopyTemplate(w) \/ FinishCopy(w) \/ Scrub(w)
         \/ MarkProvisioned(w) \/ CreateOwner(w) \/ EnsureReady(w) \/ ReplaceCanonical(w)
         \/ EnsureFile(w) \/ RemoveFile(w) \/ RereadWorkspace(w) \/ ProvisionStepFails(w)
  PROVE  OneAtATime'
<1>1. UNCHANGED <<registry, cache, sessions, entered>> /\ AtWork(w)
  BY DEF CloneTemplate, CopyTemplate, FinishCopy, Scrub, MarkProvisioned, CreateOwner, EnsureReady,
     ReplaceCanonical, EnsureFile, RemoveFile, RereadWorkspace, ProvisionStepFails, OneAtATime
<1>2. \/ OthersStay(w) /\ Same(w) /\ Past(w) /\ req[w].at \notin Unplaced \cup {"unlink"}
      \/ OthersStay(w) /\ req'[w].at = "idle" /\ req'[w].how # "provision"
  <2>1. CASE CloneTemplate(w) \/ CopyTemplate(w) \/ FinishCopy(w) \/ RemoveFile(w)
    <3>1. /\ req[w].at \in {"clone", "copy", "copying", "redo"}
          /\ Fail(w) \/ \E label \in {"copy", "copying", "scrub", "clone"} : Goto(w, label)
      BY <2>1 DEF CloneTemplate, CopyTemplate, FinishCopy, RemoveFile, At
    <3> QED
      BY <1>1, <3>1, Moved, Failed DEF Past, Unplaced, Making, AtWork
  <2>2. CASE Scrub(w)
    BY <1>1, <2>2, Moved, Failed DEF Scrub, At, Past, Unplaced, Making, AtWork
  <2>3. CASE MarkProvisioned(w)
    <3>1. /\ req[w].at = "mark"
          /\ \/ Fail(w) \/ RoundDone(w)
             \/ req' = [req EXCEPT ![w].at = "owner", ![w].how = "none"]
             \/ req[w].how # "provision" /\ Goto(w, "reread")
      BY <2>3 DEF MarkProvisioned, At
    <3>2. CASE req' = [req EXCEPT ![w].at = "owner", ![w].how = "none"]
      <4>1. OthersStay(w) /\ Same(w) /\ req'[w].at = "owner" /\ req'[w].how = "none"
        BY <3>2, Turned
      <4> QED
        BY <3>1, <4>1 DEF Past, Unplaced
    <3>3. CASE RoundDone(w) \/ Fail(w)
      BY <3>1, <3>3, Rounded, Failed DEF Past, Unplaced, Making
    <3> QED
      BY <3>1, <3>2, <3>3, Moved DEF Past, Unplaced
  <2>4. CASE CreateOwner(w) \/ RereadWorkspace(w)
    BY <1>1, <2>4, Moved, Rounded, Finished DEF CreateOwner, RereadWorkspace, At, Past, Unplaced, Making, AtWork
  <2>5. CASE EnsureReady(w)
    <3>1. /\ req[w].at = "ready" /\ req[w].how # "provision"
          /\ \/ req' = [req EXCEPT ![w].at = "fix", ![w].how = "orphan"]
             \/ Goto(w, "path") \/ Goto(w, "reread")
      BY <1>1, <2>5 DEF EnsureReady, At, AtWork, Making
    <3>2. CASE req' = [req EXCEPT ![w].at = "fix", ![w].how = "orphan"]
      <4>1. OthersStay(w) /\ Same(w) /\ req'[w].at = "fix" /\ req'[w].how = "orphan"
        BY <3>2, Turned
      <4> QED
        BY <3>1, <4>1 DEF Past, Unplaced
    <3> QED
      BY <3>1, <3>2, Moved DEF Past, Unplaced
  <2>6. CASE ReplaceCanonical(w) \/ EnsureFile(w)
    <3>1. /\ req[w].at \in {"replace", "fix"} /\ req[w].how # "provision"
          /\ \/ req' = [req EXCEPT ![w].at = "point", ![w].copy = NoFile]
             \/ Goto(w, "redo") \/ Goto(w, "mark") \/ Goto(w, "space")
      BY <1>1, <2>6 DEF ReplaceCanonical, EnsureFile, At, AtWork, Making
    <3>2. CASE req' = [req EXCEPT ![w].at = "point", ![w].copy = NoFile]
      <4>1. OthersStay(w) /\ Same(w) /\ req'[w].at = "point" /\ req'[w].how = req[w].how
        BY <3>2, Taken
      <4> QED
        BY <3>1, <4>1 DEF Past, Unplaced
    <3> QED
      BY <3>1, <3>2, Moved DEF Past, Unplaced
  <2>7. CASE ProvisionStepFails(w)
    BY <1>1, <2>7, Moved DEF ProvisionStepFails, ProvisionSteps, Past, Unplaced, Making, AtWork
  <2> QED
    BY <2>1, <2>2, <2>3, <2>4, <2>5, <2>6, <2>7
<1>3. firms' = firms /\ Identity' /\ \A f : Untouched(f) => Untouched(f)'
  BY <1>1, IdentityUnchanged DEF registry, OneAtATime
<1>4. AtWork(w)'
  BY <1>1, <1>2, <1>3, WorkMoves, WorkEnds
<1> QED
  BY <1>2, <1>3, <1>4, Resting

LEMMA OneLooks ==
  ASSUME RegistryAssumption, Types, OneAtATime, NEW w \in Workers, OthersIdle(w),
         \/ \E p \in PortalFirms : Launch(w, p)
         \/ CheckSlug(w) \/ LookupAgain(w)
         \/ \E f \in FirmIds : StartRepair(w, f)
         \/ RollbackFile(w) \/ CheckSize(w) \/ ApplyMetadata(w)
  PROVE  OneAtATime'
<1>1. UNCHANGED <<registry, cache, sessions, entered>> /\ AtWork(w)
  BY DEF Launch, CheckSlug, LookupAgain, StartRepair, RollbackFile, CheckSize, ApplyMetadata,
     OneAtATime
<1>2. firms' = firms /\ Identity' /\ \A f : Untouched(f) => Untouched(f)'
  BY <1>1, IdentityUnchanged DEF registry, OneAtATime
<1>3. OthersStay(w) /\ AtWork(w)'
  <2>1. ASSUME NEW p \in PortalFirms, Launch(w, p) PROVE OthersStay(w) /\ AtWork(w)'
    <3>1. /\ OthersStay(w) /\ req'[w].how = "none" /\ req'[w].portal = p
          /\ req'[w].at = "slug" \/ (req'[w].at = "ready" /\ firms[req'[w].firm].portal = p)
      BY <2>1, Launched
    <3> QED
      BY <1>2, <3>1 DEF AtWork, Unplaced
  <2>2. CASE CheckSlug(w)
    <3>1. req[w].how # "provision"
      BY <1>1, <2>2 DEF CheckSlug, At, AtWork, Making
    <3>2. OthersStay(w) /\ req'[w].at \in {"create", "again"} /\ req'[w].how = req[w].how
      BY <2>2, Moved DEF CheckSlug
    <3> QED
      BY <3>1, <3>2 DEF AtWork, Unplaced
  <2>3. CASE LookupAgain(w)
    <3>1. req[w].how # "provision"
      BY <1>1, <2>3 DEF LookupAgain, At, AtWork, Making
    <3>2. /\ OthersStay(w) /\ req'[w].how # "provision"
          /\ \/ req'[w].at = "idle"
             \/ req'[w].at = "ready" /\ firms[req'[w].firm].portal = req'[w].portal
      BY <2>3, <3>1, FoundAgain
    <3> QED
      BY <1>2, <3>2 DEF AtWork, Unplaced
  <2>4. ASSUME NEW f \in FirmIds, StartRepair(w, f) PROVE OthersStay(w) /\ AtWork(w)'
    <3>1. /\ OthersStay(w) /\ req'[w].how = "none" /\ req'[w].at = "path"
          /\ req'[w].portal = firms[f].portal /\ req'[w].firm = f
      BY <2>4, RepairStarted
    <3> QED
      BY <1>2, <3>1 DEF AtWork, Unplaced
  <2>5. CASE RollbackFile(w) \/ ApplyMetadata(w)
    BY <2>5, Finished, WorkEnds DEF RollbackFile, ApplyMetadata
  <2>6. CASE CheckSize(w)
    <3>1. /\ req[w].at = "size" /\ req[w].how # "provision"
          /\ \/ req' = [req EXCEPT ![w].at = "fix", ![w].how = "file"]
             \/ Goto(w, "reread") \/ Finish(w)
      BY <1>1, <2>6 DEF CheckSize, At, AtWork, Making
    <3>2. CASE req' = [req EXCEPT ![w].at = "fix", ![w].how = "file"]
      <4>1. OthersStay(w) /\ Same(w) /\ req'[w].at = "fix" /\ req'[w].how = "file"
        BY <3>2, Turned
      <4> QED
        BY <1>1, <1>2, <3>1, <4>1, WorkMoves DEF Past, Unplaced
    <3>3. CASE Goto(w, "reread")
      <4>1. OthersStay(w) /\ Same(w) /\ req'[w].at = "reread" /\ req'[w].how = req[w].how
        BY <3>3, Moved
      <4> QED
        BY <1>1, <1>2, <3>1, <4>1, WorkMoves DEF Past, Unplaced
    <3> QED
      BY <3>1, <3>2, <3>3, Finished, WorkEnds
  <2> QED
    BY <2>1, <2>2, <2>3, <2>4, <2>5, <2>6
<1> QED
  BY <1>2, <1>3, Resting

LEMMA OneCreates ==
  ASSUME RegistryAssumption, Types, Types', OneAtATime, NEW w \in Workers, OthersIdle(w), CreateFirm(w)
  PROVE  OneAtATime'
<1> DEFINE id == issued + 1
           p == req[w].portal
           row == [portal |-> p, active |-> TRUE]
           r == [req[w] EXCEPT !.at = "clone", !.firm = id, !.seen = TRUE, !.rounds = 1,
                               !.how = "provision"]
<1>1. req[w].at = "create" /\ UNCHANGED <<spaces, files, cache, sessions, entered>>
  BY DEF CreateFirm, At
<1>2. Placed(req[w]) /\ req[w] \in RequestRow /\ p \in PortalFirms
  BY <1>1, Placing DEF Placed
<1>3. CASE Finish(w) /\ UNCHANGED <<firms, issued>>
  BY <1>1, <1>3, Finished, WorkEnds, IdentityUnchanged, Resting DEF registry, OneAtATime
<1>4. CASE ~(Finish(w) /\ UNCHANGED <<firms, issued>>)
  <2>1. /\ issued' = id /\ id \in FirmIds /\ firms' = [firms EXCEPT ![id] = row]
        /\ req' = [req EXCEPT ![w] = r] /\ Holders(p) = {}
    BY <1>4 DEF CreateFirm, Types, Requests
  <2>2. id > issued /\ \A f \in FirmIds : f > id => f > issued
    BY <2>1 DEF Types, RegistryTables, RegistryAssumption
  <2>3. row.portal = p /\ p # "none"
    BY <1>2 DEF RegistryAssumption
  <2> HIDE DEF id, row
  <2>4. r.at = "clone" /\ r.firm = id /\ r.how = "provision" /\ r.portal = p
    BY <1>2 DEF RequestRow
  <2> HIDE DEF r, p
  <2>5. OthersStay(w) /\ req'[w] = r
    BY <2>1, Replaced
  <2>6. firms'[id] = row /\ \A f \in FirmIds \ {id} : firms'[f] = firms[f]
    BY <2>1 DEF Types, RegistryTables
  <2>7. ~Registered(id) /\ ~HasSpace(id) /\ Untouched(id)
    <3>1. ~Registered(id)
      BY <2>1, <2>2 DEF OneAtATime, Identity
    <3> QED
      BY <2>1, <3>1, RowsThere DEF OneAtATime, Identity, Types
  <2>8. \A f : (HasSpace(f)' <=> HasSpace(f)) /\ (Untouched(f)' <=> Untouched(f))
    BY <1>1 DEF HasSpace, Untouched
  <2>9. \A f \in FirmIds \ {id} : Registered(f)' <=> Registered(f)
    BY <2>6 DEF Registered
  <2>10. \A f \in FirmIds \ {id} : firms'[f].portal # p
    BY <2>1, <2>6 DEF Holders
  <2>11. Identity'
    <3>1. \A f, g \in FirmIds : Registered(f)' /\ firms'[f].portal = firms'[g].portal => f = g
      BY <2>3, <2>6, <2>9, <2>10 DEF OneAtATime, Identity
    <3>2. \A f \in FirmIds : f > issued' => ~Registered(f)'
      <4>1. \A f \in FirmIds : f > issued' => f > issued /\ f # id
        BY <2>1, <2>2 DEF Types, RegistryTables, RegistryAssumption
      <4> QED
        BY <2>9, <4>1 DEF OneAtATime, Identity
    <3>3. \A f \in FirmIds : ~HasSpace(f)' => Untouched(f)'
      BY <2>8 DEF OneAtATime, Identity
    <3>4. \A s \in sessions' : firms'[s.firm].portal = s.portal
      <4>1. \A s \in sessions : s.firm \in FirmIds /\ s.firm # id
        BY <2>7 DEF Types, SessionTables, Untouched
      <4> QED
        BY <1>1, <2>6, <4>1 DEF OneAtATime, Identity
    <3> QED
      BY <3>1, <3>2, <3>3, <3>4 DEF Identity
  <2>12. AtWork(w)'
    BY <2>3, <2>4, <2>5, <2>6, <2>7, <2>8 DEF AtWork, Making
  <2> QED
    BY <2>5, <2>11, <2>12, Resting
<1> QED
  BY <1>3, <1>4

LEMMA OneRollsBack ==
  ASSUME RegistryAssumption, Types, Types', OneAtATime, NEW w \in Workers, OthersIdle(w), RollbackRows(w)
  PROVE  OneAtATime'
<1>0. PICK f \in FirmIds : req[w].firm = f
  BY Placing DEF RollbackRows, At, Unplaced, Firm
<1>1. /\ req[w].at = "undo" /\ UNCHANGED <<issued, files, cache, sessions, entered>>
      /\ firms' = [firms EXCEPT ![f] = NoFirm]
      /\ spaces' = [spaces EXCEPT ![f] = NoSpace]
      /\ OthersStay(w) /\ Same(w) /\ req'[w].at = "unlink" /\ req'[w].how = req[w].how
  BY <1>0, Moved DEF RollbackRows, At, Firm
<1>2. req[w].how = "provision" /\ Untouched(f)
  BY <1>0, <1>1 DEF OneAtATime, AtWork
<1>3. /\ firms'[f] = NoFirm /\ spaces'[f] = NoSpace
      /\ \A g \in FirmIds \ {f} : firms'[g] = firms[g] /\ spaces'[g] = spaces[g]
  BY <1>1 DEF Types, RegistryTables
<1>4. \A g : Untouched(g)' <=> Untouched(g)
  BY <1>1 DEF Untouched
<1>5. /\ ~Registered(f)' /\ ~HasSpace(f)'
      /\ \A g \in FirmIds \ {f} : (Registered(g)' <=> Registered(g)) /\ (HasSpace(g)' <=> HasSpace(g))
  BY <1>3 DEF Registered, HasSpace
<1>6. Identity'
  <2>1. \A g, h \in FirmIds : Registered(g)' /\ firms'[g].portal = firms'[h].portal => g = h
    <3>1. ASSUME NEW g \in FirmIds, NEW h \in FirmIds, Registered(g)', firms'[g].portal = firms'[h].portal
          PROVE  g = h
      <4>1. g # f /\ firms'[g].portal # "none" /\ firms'[f].portal = "none"
        BY <1>2, <1>3, <1>5, <3>1, RowsThen DEF NoFirm
      <4> QED
        BY <1>3, <1>5, <3>1, <4>1 DEF OneAtATime, Identity
    <3> QED
      BY <3>1
  <2>2. \A g \in FirmIds : g > issued' => ~Registered(g)'
    BY <1>1, <1>5 DEF OneAtATime, Identity
  <2>3. \A g \in FirmIds : ~HasSpace(g)' => Untouched(g)'
    BY <1>2, <1>4, <1>5 DEF OneAtATime, Identity
  <2>4. \A s \in sessions' : firms'[s.firm].portal = s.portal
    <3>1. \A s \in sessions : s.firm \in FirmIds /\ s.firm # f
      BY <1>2 DEF Types, SessionTables, Untouched
    <3> QED
      BY <1>1, <1>3, <3>1 DEF OneAtATime, Identity
  <2> QED
    BY <2>1, <2>2, <2>3, <2>4 DEF Identity
<1>7. AtWork(w)'
  BY <1>0, <1>1, <1>2, <1>4 DEF AtWork, Same, Making, Unplaced
<1> QED
  BY <1>1, <1>6, <1>7, Resting

\* A workspace gets a path, or its path is another one.
LEMMA SpacesStand ==
  ASSUME Types, Types', Identity, UNCHANGED <<firms, issued, cache, sessions, entered>>,
         \A f \in FirmIds : HasSpace(f) => spaces'[f].path # "none"
  PROVE  Identity' /\ \A f : Untouched(f)' <=> Untouched(f)
<1>1. \A f \in FirmIds : HasSpace(f) => HasSpace(f)'
  BY RowsThen
<1>2. Identity'
  BY <1>1, IdentityStands
<1> QED
  BY <1>2 DEF Untouched

LEMMA OneSpaces ==
  ASSUME RegistryAssumption, Types, Types', OneAtATime, NEW w \in Workers, OthersIdle(w),
         CreateWorkspace(w) \/ RepairPath(w) \/ PointAtCanonical(w)
  PROVE  OneAtATime'
<1>0. PICK f \in FirmIds : req[w].firm = f
  BY Placing DEF CreateWorkspace, RepairPath, PointAtCanonical, At, Unplaced, Firm
<1>1. /\ req[w].at \in {"space", "path", "point"} /\ AtWork(w)
      /\ UNCHANGED <<firms, issued, cache, sessions, entered>>
  BY DEF CreateWorkspace, RepairPath, PointAtCanonical, At, OneAtATime
<1>2. \/ UNCHANGED spaces
      \/ spaces' = [spaces EXCEPT ![f] = [path |-> "canonical", active |-> TRUE]]
      \/ spaces' = [spaces EXCEPT ![f].path = "canonical"]
  BY <1>0 DEF CreateWorkspace, RepairPath, PointAtCanonical, Firm
<1>3. \A g \in FirmIds : HasSpace(g) => spaces'[g].path # "none"
  <2>1. \A g \in FirmIds : HasSpace(g) => spaces[g].path # "none"
    BY RowsThere DEF Types
  <2>2. CASE spaces' = [spaces EXCEPT ![f] = [path |-> "canonical", active |-> TRUE]]
    BY <2>1, <2>2 DEF Types, RegistryTables
  <2>3. CASE spaces' = [spaces EXCEPT ![f].path = "canonical"]
    BY <2>1, <2>3 DEF Types, RegistryTables, SpaceRow
  <2> QED
    BY <1>2, <2>1, <2>2, <2>3
<1>4. Identity' /\ \A g : Untouched(g)' <=> Untouched(g)
  BY <1>1, <1>3, SpacesStand DEF OneAtATime
<1>5. \/ OthersStay(w) /\ Same(w) /\ Past(w)
      \/ OthersStay(w) /\ req'[w].at = "idle" /\ req'[w].how # "provision"
  <2>1. CASE CreateWorkspace(w)
    BY <1>1, <2>1, Moved, Failed DEF CreateWorkspace, At, Past, Unplaced, Making
  <2>2. CASE PointAtCanonical(w)
    <3>1. req[w].how # "provision" /\ (Goto(w, "size") \/ Finish(w))
      BY <1>1, <2>2 DEF PointAtCanonical, At, AtWork, Making
    <3> QED
      BY <3>1, Moved, Finished DEF Past, Unplaced
  <2>3. CASE RepairPath(w)
    <3>1. /\ req[w].how # "provision"
          /\ \/ Goto(w, "size") \/ Finish(w)
             \/ \E copy : req' = [req EXCEPT ![w].at = "replace", ![w].copy = copy]
      BY <1>1, <2>3 DEF RepairPath, At, AtWork, Making
    <3>2. ASSUME NEW copy, req' = [req EXCEPT ![w].at = "replace", ![w].copy = copy]
          PROVE  OthersStay(w) /\ Same(w) /\ Past(w)
      <4>1. OthersStay(w) /\ Same(w) /\ req'[w].at = "replace" /\ req'[w].how = req[w].how
        BY <3>2, Taken
      <4> QED
        BY <3>1, <4>1 DEF Past, Unplaced
    <3>3. Goto(w, "size") => OthersStay(w) /\ Same(w) /\ Past(w)
      BY <3>1, Moved DEF Past, Unplaced
    <3> QED
      BY <3>1, <3>2, <3>3, Finished
  <2> QED
    BY <2>1, <2>2, <2>3
<1>6. AtWork(w)'
  BY <1>0, <1>1, <1>4, <1>5, WorkMoves, WorkEnds DEF Unplaced
<1> QED
  BY <1>4, <1>5, <1>6, Resting

LEMMA OneImports ==
  ASSUME RegistryAssumption, Types, Types', OneAtATime, NEW w \in Workers, OthersIdle(w),
         NEW f \in FirmIds, NEW dryRun \in BOOLEAN, StartImport(w, f, dryRun)
  PROVE  OneAtATime'
<1>1. /\ req[w].at = "idle" /\ AtWork(w) /\ HasSpace(f)
      /\ UNCHANGED <<firms, issued, cache, sessions, entered>>
      /\ spaces' = [spaces EXCEPT ![f].path = "canonical"]
  BY DEF StartImport, At, OneAtATime
<1>2. \A g \in FirmIds : HasSpace(g) => spaces'[g].path # "none"
  BY <1>1, RowsThere DEF Types, RegistryTables, SpaceRow
<1>3. Identity'
  BY <1>1, <1>2, SpacesStand DEF OneAtATime
<1>4. OthersStay(w) /\ AtWork(w)'
  <2>1. CASE UNCHANGED req
    BY <1>1, <2>1 DEF AtWork, Unplaced, Making, OthersStay
  <2>2. CASE ~UNCHANGED req
    <3>1. /\ OthersStay(w) /\ req'[w].at = "backup" /\ req'[w].how = "none"
          /\ req'[w].firm = f /\ req'[w].portal = firms[f].portal
      BY <2>2, ImportStarted
    <3>2. HasSpace(f)'
      BY <1>1, <1>2, RowsThen
    <3> QED
      BY <1>1, <3>1, <3>2 DEF AtWork
  <2> QED
    BY <2>1, <2>2
<1> QED
  BY <1>3, <1>4, Resting

\* The status checks change the status and the caches, and let the launch go on.
LEMMA Rechecked ==
  ASSUME RegistryAssumption, Types, NEW w \in Workers, CheckFirm(w) \/ CheckWorkspace(w)
  PROVE  /\ req[w].at \in {"firm", "workspace"} /\ UNCHANGED <<issued, files, sessions, entered>>
         /\ \A g \in FirmIds : /\ firms'[g].portal = firms[g].portal
                               /\ spaces'[g].path = spaces[g].path
                               /\ spaces[g].active => spaces'[g].active
         /\ \A v \in Workers, g \in FirmIds : cache'[v][g] # cache[v][g] => cache'[v][g] = "none"
         /\ OthersStay(w)
         /\ \/ /\ Same(w) /\ req'[w].how = req[w].how
               /\ req'[w].at \in {"workspace", "open"}
            \/ req'[w].at = "idle" /\ req'[w].how = "none"
<1>1. req[w].at \in {"firm", "workspace"} /\ UNCHANGED <<files, sessions, entered>>
  BY DEF CheckFirm, CheckWorkspace, At
<1>2. req[w].at = "workspace" => req[w].ACTIVE \in BOOLEAN
  BY Placing DEF RequestRow
<1>3. \/ Finish(w) /\ UNCHANGED <<registry, cache>>
      \/ /\ \E label \in {"workspace", "open"}, ACTIVE \in BOOLEAN :
               req' = [req EXCEPT ![w].at = label, ![w].ACTIVE = ACTIVE]
         /\ UNCHANGED <<registry, cache>>
      \/ \E ACTIVE \in BOOLEAN, next \in {"workspace", "open"} : Reactivate(w, ACTIVE, next)
  BY <1>2 DEF CheckFirm, CheckWorkspace, At
<1>4. ASSUME NEW label \in {"workspace", "open"}, NEW ACTIVE \in BOOLEAN,
             req' = [req EXCEPT ![w].at = label, ![w].ACTIVE = ACTIVE]
      PROVE  OthersStay(w) /\ Same(w) /\ req'[w].at = label /\ req'[w].how = req[w].how
  BY <1>4, Placing DEF Types, Requests, OthersStay, Same, RequestRow
<1>5. CASE UNCHANGED <<registry, cache>>
  BY <1>1, <1>3, <1>4, <1>5, Finished, Reactivated DEF registry, Idle
<1>6. ASSUME NEW ACTIVE \in BOOLEAN, NEW next \in {"workspace", "open"}, Reactivate(w, ACTIVE, next)
      PROVE  /\ UNCHANGED issued
             /\ \A g \in FirmIds : /\ firms'[g].portal = firms[g].portal
                                   /\ spaces'[g].path = spaces[g].path
                                   /\ spaces[g].active => spaces'[g].active
             /\ \A v \in Workers, g \in FirmIds : cache'[v][g] \in {cache[v][g], "none"}
             /\ OthersStay(w)
             /\ \/ req'[w] = Idle
                \/ Same(w) /\ req'[w].at = next /\ req'[w].how = req[w].how
  BY <1>1, <1>6, Reactivated
<1> QED
  BY <1>1, <1>3, <1>5, <1>6 DEF Idle

LEMMA OneReactivates ==
  ASSUME RegistryAssumption, Types, Types', OneAtATime, NEW w \in Workers, OthersIdle(w),
         CheckFirm(w) \/ CheckWorkspace(w)
  PROVE  OneAtATime'
<1>1. /\ req[w].at \in {"firm", "workspace"} /\ UNCHANGED <<issued, files, sessions, entered>>
      /\ \A g \in FirmIds : firms'[g].portal = firms[g].portal /\ spaces'[g].path = spaces[g].path
      /\ \A v \in Workers, g \in FirmIds : cache'[v][g] # cache[v][g] => cache'[v][g] = "none"
      /\ OthersStay(w)
      /\ \/ /\ Same(w) /\ req'[w].how = req[w].how
            /\ req'[w].at \in {"workspace", "open"}
         \/ req'[w].at = "idle" /\ req'[w].how = "none"
  BY Rechecked
<1>2. AtWork(w) /\ req[w].how # "provision"
  BY <1>1 DEF OneAtATime, AtWork, Making
<1>3. PICK f \in FirmIds : req[w].firm = f
  BY <1>1, Placing DEF Unplaced, Firm
<1>4. \A g \in FirmIds : HasSpace(g)' <=> HasSpace(g)
  BY <1>1, RowsThere, RowsThen DEF Types
<1>5. Identity' /\ \A g \in FirmIds : ~HasSpace(g) => Untouched(g)'
  BY <1>1, <1>4, IdentityStands DEF OneAtATime
<1>6. Untouched(f) => Untouched(f)'
  BY <1>1 DEF Untouched
<1>7. AtWork(w)'
  BY <1>1, <1>2, <1>3, <1>6, WorkMoves, WorkEnds DEF Past, Unplaced
<1> QED
  BY <1>1, <1>5, <1>7, Resting

\* What the router serves belongs to a firm with a workspace.
LEMMA ServedSpace ==
  ASSUME Types, Identity, NEW w \in Workers, NEW f \in FirmIds, Served(w, f) # "none"
  PROVE  HasSpace(f)
BY RowsThere DEF Served, Resolved, Identity, Untouched, Types

LEMMA OneEstablishes ==
  ASSUME RegistryAssumption, Types, Types', OneAtATime, NEW w \in Workers, OthersIdle(w),
         EstablishSession(w)
  PROVE  OneAtATime'
<1>0. PICK f \in FirmIds : req[w].firm = f
  BY Placing DEF EstablishSession, At, Unplaced, Firm
<1> DEFINE new == [Routed(w, f) EXCEPT !.user = TRUE]
           s == [portal |-> req[w].portal, firm |-> f]
<1>1. /\ req[w].at = "open" /\ UNCHANGED <<registry, entered>> /\ Finish(w) /\ AtWork(w)
      /\ \/ Route(w, f, new) /\ CanRoute(w, f) /\ sessions' = sessions \cup {s}
         \/ Route(w, f, Left(w, f)) /\ UNCHANGED sessions
  BY <1>0 DEF EstablishSession, Unroutable, Left, At, Firm, OneAtATime
<1>2. Served(w, f) # "none" => new \in TenantFile /\ Left(w, f) \in TenantFile
  BY RoutedFile, RoutedUser DEF Left
<1>3. s.firm = f /\ s.portal = req[w].portal
  OBVIOUS
<1> HIDE DEF new, s
<1>4. \A v \in Workers, g \in FirmIds : cache'[v][g] # cache[v][g] => HasSpace(g)
  <2>1. \A v \in Workers, g \in FirmIds : cache'[v][g] # cache[v][g] => g = f /\ CanRoute(w, f)
    BY <1>1, <1>2, Routing
  <2> QED
    BY <2>1, ServedSpace DEF OneAtATime, CanRoute
<1>5. \A t \in sessions' \ sessions : HasSpace(t.firm) /\ firms[t.firm].portal = t.portal
  <2>1. CanRoute(w, f) => HasSpace(f)
    BY ServedSpace DEF OneAtATime, CanRoute
  <2>2. firms[f].portal = req[w].portal
    BY <1>0, <1>1 DEF AtWork, Unplaced
  <2> QED
    BY <1>1, <1>3, <2>1, <2>2
<1>6. Identity'
  BY <1>1, <1>4, <1>5, IdentityStands DEF OneAtATime, registry, HasSpace
<1> QED
  BY <1>1, <1>6, Finished, WorkEnds, Resting

LEMMA OneRequests ==
  ASSUME RegistryAssumption, Types, Types', OneAtATime, NEW w \in Workers, OthersIdle(w),
         NEW s \in sessions, Request(w, s)
  PROVE  OneAtATime'
<1>0. PICK f \in FirmIds : s.firm = f
  BY DEF Types, SessionTables
<1>1. /\ req[w].at = "idle" /\ UNCHANGED <<registry, entered>> /\ AtWork(w)
      /\ sessions' \subseteq sessions
      /\ Route(w, f, Routed(w, f)) \/ Route(w, f, Left(w, f))
  BY <1>0 DEF Request, Unroutable, Left, At, OneAtATime
<1>2. Served(w, f) # "none" => Routed(w, f) \in TenantFile /\ Left(w, f) \in TenantFile
  BY RoutedFile DEF Left
<1>3. \A v \in Workers, g \in FirmIds : cache'[v][g] # cache[v][g] => HasSpace(g)
  <2>1. \A v \in Workers, g \in FirmIds : cache'[v][g] # cache[v][g] => g = f /\ CanRoute(w, f)
    BY <1>1, <1>2, Routing
  <2> QED
    BY <2>1, ServedSpace DEF OneAtATime, CanRoute
<1>4. Identity'
  BY <1>1, <1>3, IdentityStands DEF OneAtATime, registry, HasSpace
<1>5. OthersStay(w) /\ AtWork(w)'
  <2>1. CASE UNCHANGED req
    BY <1>1, <2>1 DEF AtWork, Unplaced, Making, OthersStay
  <2>2. CASE ~UNCHANGED req
    <3>1. /\ OthersStay(w) /\ CanRoute(w, f)
          /\ req'[w].at = "write" /\ req'[w].how = "none" /\ req'[w].firm = f
          /\ req'[w].portal = s.portal /\ req'[w].path = Served(w, f)
      BY <1>0, <2>2, WriteStarted
    <3>2. HasSpace(f) /\ firms[f].portal = s.portal
      BY <1>0, <3>1, ServedSpace DEF OneAtATime, CanRoute, Identity
    <3>3. spaces[f].active => Served(w, f) = spaces[f].path
      BY <3>2, RowsThere, ServedPath DEF Types
    <3>4. UNCHANGED <<firms, spaces>> /\ (HasSpace(f)' <=> HasSpace(f))
      BY <1>1 DEF registry, HasSpace
    <3> QED
      BY <3>1, <3>2, <3>3, <3>4 DEF AtWork
  <2> QED
    BY <2>1, <2>2
<1> QED
  BY <1>4, <1>5, Resting

LEMMA OneWrites ==
  ASSUME RegistryAssumption, Types, Types', OneAtATime, NEW w \in Workers, OthersIdle(w),
         Write(w) \/ BackupTenant(w) \/ ReplaceByLegacy(w)
  PROVE  OneAtATime'
<1>0. PICK f \in FirmIds : req[w].firm = f
  BY Placing DEF Write, BackupTenant, ReplaceByLegacy, At, Unplaced, Firm
<1>1. /\ req[w].at \in {"write", "backup", "import"} /\ UNCHANGED <<registry, cache, sessions>>
      /\ AtWork(w)
      /\ HasSpace(f) /\ firms[f].portal = req[w].portal /\ req[w].how # "provision"
  BY <1>0 DEF Write, BackupTenant, ReplaceByLegacy, At, OneAtATime, AtWork, Unplaced, Making
<1>2. \A g \in FirmIds \ {f} : entered'[g] = entered[g]
  <2>1. \/ UNCHANGED entered
        \/ entered' = [entered EXCEPT ![f] = LegacyWork]
        \/ entered' = [entered EXCEPT ![f] = @ + 1]
    BY <1>0 DEF Write, BackupTenant, ReplaceByLegacy, Firm
  <2> QED
    BY <2>1 DEF Types, WorkTables
<1>3. Identity'
  BY <1>1, <1>2, IdentityStands DEF OneAtATime, registry, HasSpace
<1>4. \/ OthersStay(w) /\ req'[w].at = "idle" /\ req'[w].how # "provision"
      \/ /\ OthersStay(w) /\ Same(w) /\ req'[w].how = req[w].how
         /\ req'[w].at \in {"import", "metadata"}
  <2>1. CASE Write(w)
    BY <2>1, Finished DEF Write
  <2>2. ASSUME NEW label \in {"import", "metadata"}, NEW copy,
               req' = [req EXCEPT ![w].at = label, ![w].copy = copy]
        PROVE  OthersStay(w) /\ Same(w) /\ req'[w].how = req[w].how /\ req'[w].at = label
    BY <2>2, Taken
  <2> QED
    BY <2>1, <2>2 DEF BackupTenant, ReplaceByLegacy
<1>5. UNCHANGED firms /\ HasSpace(f)'
  BY <1>1 DEF registry, HasSpace
<1>6. AtWork(w)'
  <2>1. CASE req'[w].at = "idle" /\ req'[w].how # "provision"
    BY <2>1, WorkEnds
  <2>2. CASE Same(w) /\ req'[w].at \in {"import", "metadata"} /\ req'[w].how = req[w].how
    BY <1>0, <1>1, <1>5, <2>2 DEF AtWork, Same
  <2> QED
    BY <1>4, <2>1, <2>2
<1> QED
  BY <1>3, <1>4, <1>6, Resting

LEMMA OneCrashes ==
  ASSUME RegistryAssumption, Types, Types', OneAtATime, NEW w \in Workers, OthersIdle(w), Crash(w)
  PROVE  OneAtATime'
<1>1. /\ UNCHANGED <<registry, sessions, entered>> /\ Finish(w)
      /\ cache' = [cache EXCEPT ![w] = [f \in FirmIds |-> "none"]]
  BY DEF Crash, Finish
<1>2. \A v \in Workers, f \in FirmIds : cache'[v][f] # cache[v][f] => cache'[v][f] = "none"
  BY <1>1 DEF Types, CacheTables
<1>3. Identity'
  BY <1>1, <1>2, IdentityStands DEF OneAtATime, registry, HasSpace
<1> QED
  BY <1>1, <1>3, Finished, WorkEnds, Resting

LEMMA OneSuspends ==
  ASSUME RegistryAssumption, Types, Types', OneAtATime, Quiet, NEW p \in PortalFirms,
         FirmAccountStatus(p)
  PROVE  OneAtATime'
<1>1. PICK f \in Holders(p), active \in BOOLEAN : SetStatus(f, active)
  BY DEF FirmAccountStatus
<1>2. /\ f \in FirmIds /\ firms[f].portal # "none"
      /\ UNCHANGED <<files, cache, sessions, req, entered>>
  BY DEF Holders, RegistryAssumption, FirmAccountStatus
<1>3. /\ UNCHANGED issued
      /\ \A g \in FirmIds : firms'[g].portal = firms[g].portal /\ spaces'[g].path = spaces[g].path
  BY <1>1, <1>2, StatusSet
<1>4. \A g \in FirmIds : HasSpace(g)' <=> HasSpace(g)
  BY <1>3, RowsThere, RowsThen DEF Types
<1>5. Identity'
  BY <1>2, <1>3, <1>4, IdentityStands DEF OneAtATime
<1>6. \A w \in Workers : AtWork(w)'
  BY <1>2 DEF OneAtATime, AtWork, Quiet, At, Unplaced, Making
<1> QED
  BY <1>5, <1>6 DEF OneAtATime

LEMMA OneInit == RegistryAssumption /\ Types /\ Init => OneAtATime
<1> SUFFICES ASSUME RegistryAssumption, Types, Init PROVE OneAtATime
  OBVIOUS
<1>1. /\ sessions = {}
      /\ \A w \in Workers : req[w] = Idle
      /\ \A w \in Workers, f \in FirmIds : cache[w][f] = "none"
  BY DEF Init
<1>2. \A w \in Workers : AtWork(w)
  BY <1>1 DEF AtWork, Idle, Unplaced
<1>3. CASE Fresh
  <2>1. \A f \in FirmIds : ~Registered(f) /\ entered[f] = 0
    BY <1>3 DEF Fresh, Registered
  <2> QED
    BY <1>1, <1>2, <2>1 DEF OneAtATime, Identity, Untouched
<1>4. ASSUME NEW p \in PortalFirms, Migrated(p) PROVE OneAtATime
  <2>1. \A f \in FirmIds : f # 1 => ~Registered(f) /\ entered[f] = 0
    BY <1>4 DEF Migrated, Registered
  <2>2. 1 \in FirmIds => HasSpace(1)
    BY <1>4 DEF Migrated, HasSpace, NoSpace
  <2>3. \A f, g \in FirmIds : Registered(f) /\ firms[f].portal = firms[g].portal => f = g
    <3>1. \A f \in FirmIds : Registered(f) <=> firms[f].portal # "none"
      BY RowsThere DEF Types
    <3> QED
      BY <2>1, <3>1
  <2>4. \A f \in FirmIds : f > issued => ~Registered(f)
    BY <1>4, <2>1 DEF Migrated
  <2> QED
    BY <1>1, <1>2, <2>1, <2>2, <2>3, <2>4 DEF OneAtATime, Identity, Untouched
<1> QED
  BY <1>3, <1>4 DEF Init

LEMMA OneSteps ==
  ASSUME RegistryAssumption, Types, Types', OneAtATime, NEW w \in Workers, OthersIdle(w),
         LaunchStep(w) \/ RequestStep(w) \/ ScriptStep(w) \/ DryRun(w) \/ Fault(w)
  PROVE  OneAtATime'
<1>1. CASE LaunchStep(w)
  BY <1>1, OneMoves, OneLooks, OneCreates, OneRollsBack, OneSpaces, OneReactivates, OneEstablishes
     DEF LaunchStep
<1>2. CASE RequestStep(w)
  BY <1>2, OneRequests, OneWrites DEF RequestStep
<1>3. CASE ScriptStep(w) \/ DryRun(w)
  BY <1>3, OneLooks, OneImports, OneWrites DEF ScriptStep, DryRun
<1>4. CASE Fault(w)
  BY <1>4, OneMoves, OneCrashes DEF Fault
<1> QED
  BY <1>1, <1>2, <1>3, <1>4

\* A run of one request at a time steps alone, or suspends a firm at rest.
LEMMA OneRuns ==
  ASSUME OneByOne, MCNext
  PROVE  \/ \E w \in Workers :
               /\ OthersIdle(w)
               /\ LaunchStep(w) \/ RequestStep(w) \/ ScriptStep(w) \/ DryRun(w) \/ Fault(w)
         \/ Quiet /\ \E p \in PortalFirms : FirmAccountStatus(p)
<1>1. schedule # "operating"
  BY DEF OneByOne
<1> QED
  BY <1>1 DEF MCNext, Fault

LEMMA OneAlways == MCSpec => [](OneByOne => OneAtATime)
<1>1. MCInit /\ Types => (OneByOne => OneAtATime)
  BY OneInit, RegistryAssumption DEF MCInit
<1>2. Types /\ Types' /\ (OneByOne => OneAtATime) /\ [MCNext]_MCvars => (OneByOne => OneAtATime)'
  <2> SUFFICES ASSUME Types, Types', OneByOne => OneAtATime, [MCNext]_MCvars, OneByOne'
               PROVE  OneAtATime'
    OBVIOUS
  <2>1. UNCHANGED schedule /\ OneByOne
    BY DEF MCNext, MCvars, OneByOne
  <2>2. CASE UNCHANGED MCvars
    <3>1. UNCHANGED <<firms, spaces, issued, cache, sessions, entered, req>>
      BY <2>2 DEF MCvars, vars
    <3> QED
      BY <2>1, <3>1 DEF OneAtATime, Identity, AtWork, Untouched, Registered, HasSpace
  <2>3. CASE MCNext
    BY <2>1, <2>3, OneRuns, OneSteps, OneSuspends, RegistryAssumption
  <2> QED
    BY <2>2, <2>3
<1> QED
  BY <1>1, <1>2, RunsTyped, PTL DEF MCSpec

\* Launches, rollbacks, repairs and imports one at a time, with crashes and
\* suspensions between: a firm with a session or accepted work keeps its portal
\* firm and its workspace (portal_link.py, resolve_active_portal_firm).
THEOREM IdentityIsKept == MCSpec => []IdentityKept
<1>1. Types /\ (OneByOne => OneAtATime) => IdentityKept
  <2> SUFFICES ASSUME Types, OneAtATime PROVE IdentityKept
    BY DEF IdentityKept
  <2>1. ASSUME NEW s \in sessions PROVE {f \in FirmIds : firms[f].portal = s.portal} = {s.firm}
    <3>1. s.firm \in FirmIds /\ firms[s.firm].portal = s.portal
      BY DEF Types, SessionTables, OneAtATime, Identity
    <3>2. HasSpace(s.firm)
      BY <3>1 DEF OneAtATime, Identity, Untouched
    <3>3. Registered(s.firm)
      BY <3>1, <3>2, RowsThere DEF Types
    <3> QED
      BY <3>1, <3>3 DEF OneAtATime, Identity
  <2>2. ASSUME NEW f \in FirmIds, entered[f] > 0 PROVE Registered(f) /\ HasSpace(f)
    <3>1. HasSpace(f)
      BY <2>2 DEF OneAtATime, Identity, Untouched
    <3> QED
      BY <3>1, RowsThere DEF Types
  <2> QED
    BY <2>1, <2>2 DEF IdentityKept
<1> QED
  BY <1>1, RunsTyped, OneAlways, PTL

(* Where work may go, step by step: a firm that accepted none has none, and   *)
(* one at a time no file that is replaced holds any, but before an import.    *)

\* The steps of a request from which a file is replaced by what it judged before.
Holding == {"copy", "copying", "redo", "replace", "import"}

\* The other steps lead elsewhere.
LEMMA OtherLabels ==
  ASSUME RegistryAssumption, Types, NEW w \in Workers,
         LaunchStep(w) \/ RequestStep(w) \/ ScriptStep(w) \/ DryRun(w) \/ Fault(w),
         ~CloneTemplate(w), ~CopyTemplate(w), ~EnsureFile(w), ~RepairPath(w), ~BackupTenant(w)
  PROVE  OthersStay(w) /\ req'[w].at \notin Holding
<1>1. CASE \/ CheckSlug(w) \/ FinishCopy(w) \/ Scrub(w) \/ CreateWorkspace(w) \/ CreateOwner(w)
           \/ RollbackRows(w) \/ RollbackFile(w) \/ PointAtCanonical(w) \/ RemoveFile(w)
           \/ RereadWorkspace(w) \/ EstablishSession(w) \/ Write(w) \/ ApplyMetadata(w)
           \/ ProvisionStepFails(w)
  <2>1. \/ Finish(w) \/ Fail(w) \/ RoundDone(w)
        \/ \E label \in {"create", "again", "scrub", "space", "mark", "ready", "unlink", "size",
                         "clone", "undo"} : Goto(w, label)
    BY <1>1 DEF CheckSlug, FinishCopy, Scrub, CreateWorkspace, CreateOwner, RollbackRows,
       RollbackFile, PointAtCanonical, RemoveFile, RereadWorkspace, EstablishSession, Write,
       ApplyMetadata, ProvisionStepFails
  <2> QED
    BY <2>1, Finished, Failed, Rounded, Moved DEF Holding
<1>2. CASE EnsureReady(w) \/ CheckSize(w)
  <2>1. \/ req' = [req EXCEPT ![w].at = "fix", ![w].how = "orphan"]
        \/ req' = [req EXCEPT ![w].at = "fix", ![w].how = "file"]
        \/ Finish(w) \/ \E label \in {"path", "reread"} : Goto(w, label)
    BY <1>2 DEF EnsureReady, CheckSize
  <2>2. ASSUME NEW how, req' = [req EXCEPT ![w].at = "fix", ![w].how = how]
        PROVE  OthersStay(w) /\ req'[w].at = "fix"
    BY <2>2, Turned
  <2> QED
    BY <2>1, <2>2, Finished, Moved DEF Holding
<1>3. CASE ReplaceCanonical(w) \/ ReplaceByLegacy(w)
  <2>1. ASSUME NEW label \in {"point", "metadata"},
               req' = [req EXCEPT ![w].at = label, ![w].copy = NoFile]
        PROVE  OthersStay(w) /\ req'[w].at = label
    BY <2>1, Taken
  <2> QED
    BY <1>3, <2>1 DEF ReplaceCanonical, ReplaceByLegacy, Holding
<1>4. CASE MarkProvisioned(w)
  <2>1. \/ Fail(w) \/ RoundDone(w) \/ Goto(w, "reread")
        \/ req' = [req EXCEPT ![w].at = "owner", ![w].how = "none"]
    BY <1>4 DEF MarkProvisioned
  <2>2. req' = [req EXCEPT ![w].at = "owner", ![w].how = "none"]
          => OthersStay(w) /\ req'[w].at = "owner"
    BY Turned
  <2> QED
    BY <2>1, <2>2, Failed, Rounded, Moved DEF Holding
<1>5. CASE CreateFirm(w)
  <2> DEFINE r == [req[w] EXCEPT !.at = "clone", !.firm = issued + 1, !.seen = TRUE,
                                 !.rounds = 1, !.how = "provision"]
  <2>1. Finish(w) \/ req' = [req EXCEPT ![w] = r]
    BY <1>5 DEF CreateFirm, Types, Requests
  <2>2. r.at = "clone"
    BY Placing DEF RequestRow
  <2> HIDE DEF r
  <2> QED
    BY <2>1, <2>2, Finished, Replaced DEF Holding
<1>6. ASSUME NEW p \in PortalFirms, Launch(w, p)
      PROVE  OthersStay(w) /\ req'[w].at \notin Holding
  BY <1>6, Launched DEF Holding
<1>7. CASE LookupAgain(w) \/ CheckFirm(w) \/ CheckWorkspace(w)
  BY <1>7, FoundAgain, Rechecked DEF Holding
<1>8. ASSUME NEW f \in FirmIds, StartRepair(w, f)
      PROVE  OthersStay(w) /\ req'[w].at \notin Holding
  BY <1>8, RepairStarted DEF Holding
<1>9. ASSUME NEW f \in FirmIds, NEW dryRun \in BOOLEAN, StartImport(w, f, dryRun)
      PROVE  OthersStay(w) /\ req'[w].at \notin Holding
  BY <1>9, ImportStarted DEF Holding, StartImport, At
<1>10. ASSUME NEW s \in sessions, Request(w, s)
      PROVE  OthersStay(w) /\ req'[w].at \notin Holding
  BY <1>10, WriteStarted DEF Holding, Request, At
<1>11. CASE Crash(w)
  BY <1>11, Finished DEF Holding, Crash, Finish
<1> QED
  BY <1>1, <1>2, <1>3, <1>4, <1>5, <1>6, <1>7, <1>8, <1>9, <1>10, <1>11
     DEF LaunchStep, RequestStep, ScriptStep, DryRun, Fault

\* A firm that has accepted no work has none, and no copy of any is put back.
Books ==
    /\ \A f \in FirmIds : entered[f] = 0 => \A p \in Paths : files[f][p].work = 0
    /\ \A w \in Workers : At(w, "replace") => entered[Firm(w)] # 0

\* One at a time: what a step will replace holds no work, or a copy of it is kept.
Steady(w) ==
    /\ req[w].at \in {"copy", "copying", "redo", "replace"} => Canonical(req[w].firm).work = 0
    /\ req[w].at = "import" => req[w].copy.work = Canonical(req[w].firm).work

\* Work once accepted stays in the books.
LEMMA EnteredStays ==
  ASSUME RegistryAssumption, Types, NEW w \in Workers,
         LaunchStep(w) \/ RequestStep(w) \/ ScriptStep(w) \/ DryRun(w) \/ Fault(w)
  PROVE  /\ \A f \in FirmIds : entered[f] # 0 => entered'[f] # 0
         /\ ~Write(w) /\ ~ReplaceByLegacy(w) => UNCHANGED entered
         /\ ReplaceByLegacy(w) => entered'[Firm(w)] # 0
<1>1. CASE Write(w)
  <2>1. \A f \in FirmIds : entered[f] \in Nat
    BY DEF Types, WorkTables, RegistryAssumption
  <2>2. \A f \in FirmIds : entered'[f] # entered[f] => entered'[f] = entered[f] + 1
    BY <1>1, WriteKeeps
  <2> QED
    BY <1>1, <2>1, <2>2 DEF Write, ReplaceByLegacy, At
<1>2. CASE ReplaceByLegacy(w)
  <2>1. Firm(w) \in FirmIds /\ LegacyWork # 0
    BY <1>2, Placing DEF ReplaceByLegacy, At, Unplaced, RegistryAssumption
  <2>2. entered' = [entered EXCEPT ![Firm(w)] = LegacyWork]
    BY <1>2 DEF ReplaceByLegacy
  <2> QED
    BY <1>2, <2>1, <2>2 DEF Types, WorkTables
<1>3. CASE ~Write(w) /\ ~ReplaceByLegacy(w)
  <2>1. UNCHANGED entered
    BY <1>3
       DEF LaunchStep, RequestStep, ScriptStep, DryRun, Fault, Launch, CheckSlug, LookupAgain,
       CreateFirm, CloneTemplate, CopyTemplate, FinishCopy, Scrub, CreateWorkspace,
       MarkProvisioned, CreateOwner, RollbackRows, RollbackFile, EnsureReady, RepairPath,
       ReplaceCanonical, PointAtCanonical, CheckSize, EnsureFile, RemoveFile, RereadWorkspace,
       CheckFirm, CheckWorkspace, EstablishSession, Request, StartRepair, StartImport,
       BackupTenant, ApplyMetadata, ProvisionStepFails, Crash
  <2> QED
    BY <1>3, <2>1
<1> QED
  BY <1>1, <1>2, <1>3

\* A request that will replace a ledger by a copy has found work in the copy.
LEMMA ReplaceStarted ==
  ASSUME RegistryAssumption, Types, NEW w \in Workers, RepairPath(w)
  PROVE  /\ OthersStay(w) /\ req[w].firm \in FirmIds
         /\ req'[w].at \in Holding =>
               /\ Same(w) /\ req'[w].at = "replace"
               /\ Canonical(req[w].firm).work = 0
               /\ \E p \in Paths : files[req[w].firm][p].work # 0
<1> DEFINE f == Firm(w)
           stored == spaces[f].path
<1>1. f \in FirmIds /\ f = req[w].firm
  BY Placing DEF RepairPath, At, Unplaced, Firm
<1>2. \/ Finish(w) \/ Goto(w, "size")
      \/ /\ Work(f, stored) >= 1 /\ HasSpace(f) /\ ~(Work(f, "canonical") >= 1)
         /\ \E copy : req' = [req EXCEPT ![w].at = "replace", ![w].copy = copy]
  BY DEF RepairPath
<1>3. CASE Finish(w) \/ Goto(w, "size")
  BY <1>1, <1>3, Finished, Moved DEF Holding
<1>4. CASE /\ Work(f, stored) >= 1 /\ HasSpace(f) /\ ~(Work(f, "canonical") >= 1)
           /\ \E copy : req' = [req EXCEPT ![w].at = "replace", ![w].copy = copy]
  <2>1. stored \in Paths /\ stored # "none"
    BY <1>1, <1>4, RowsThere DEF Types, RegistryTables, SpaceRow
  <2>2. files[f][stored].work # 0
    BY <1>4, <2>1 DEF Work
  <2>3. files[f]["canonical"].work \in Nat /\ "canonical" # "none"
    BY <1>1, CanonicalFile DEF Types, TenantFile, FileRow, RegistryAssumption
  <2>4. Canonical(f).work = 0
    BY <1>4, <2>3 DEF Work, Canonical
  <2>5. OthersStay(w) /\ Same(w) /\ req'[w].at = "replace"
    BY <1>4, Taken
  <2> HIDE DEF f, stored
  <2> QED
    BY <1>1, <2>1, <2>2, <2>4, <2>5
<1> QED
  BY <1>2, <1>3, <1>4

\* A step that will replace a file has judged it, and the firm is the same.
LEMMA HoldingStarted ==
  ASSUME RegistryAssumption, Types, NEW w \in Workers,
         LaunchStep(w) \/ RequestStep(w) \/ ScriptStep(w) \/ DryRun(w) \/ Fault(w)
  PROVE  /\ OthersStay(w)
         /\ req'[w].at \in Holding =>
               /\ Same(w) /\ req[w].firm \in FirmIds
               /\ req'[w].at # "import" => files'[req[w].firm]["canonical"].work = 0
               /\ req'[w].at = "import"
                     => req'[w].copy.work = files'[req[w].firm]["canonical"].work
               /\ req'[w].at = "replace" => \E p \in Paths : files[req[w].firm][p].work # 0
<1> DEFINE f == req[w].firm
           file == Canonical(f)
<1>1. CASE CloneTemplate(w) \/ EnsureFile(w)
  <2>1. /\ req[w].at \notin Unplaced /\ UNCHANGED files
        /\ Fail(w) \/ (\E label \in {"mark", "space"} : Goto(w, label))
           \/ (file.state # "whole" /\ \E label \in {"copy", "redo"} : Goto(w, label))
    BY <1>1 DEF CloneTemplate, EnsureFile, At, Unplaced, Firm
  <2>2. f \in FirmIds /\ file \in TenantFile
    BY <2>1, Placing, CanonicalFile DEF Types, Firm
  <2>3. file.state # "whole" => files'[f]["canonical"].work = 0
    BY <2>1, <2>2 DEF TenantFile, Canonical
  <2>4. CASE Fail(w)
    BY <2>4, Failed DEF Holding
  <2>5. ASSUME NEW label \in {"mark", "space"}, Goto(w, label) PROVE
          OthersStay(w) /\ req'[w].at \notin Holding
    BY <2>5, Moved DEF Holding
  <2>6. ASSUME NEW label \in {"copy", "redo"}, Goto(w, label) PROVE
          OthersStay(w) /\ Same(w) /\ req'[w].at \in {"copy", "redo"}
    BY <2>6, Moved
  <2> HIDE DEF file
  <2> QED
    BY <2>1, <2>2, <2>3, <2>4, <2>5, <2>6
<1>2. CASE CopyTemplate(w)
  <2>1. req[w].at \notin Unplaced /\ Goto(w, "copying") /\ SetFile(w, Truncated(file, w))
    BY <1>2 DEF CopyTemplate, At, Unplaced, Firm
  <2>2. f \in FirmIds /\ file \in TenantFile
    BY <2>1, Placing, CanonicalFile DEF Types, Firm
  <2>3. Truncated(file, w) \in TenantFile /\ Truncated(file, w).work = 0
    BY <2>2, FileValues DEF Truncated, NoFile
  <2>4. files'[f]["canonical"] = Truncated(file, w)
    BY <2>1, <2>2, <2>3, CanonicalSet DEF Types
  <2>5. files'[f]["canonical"].work = 0
    BY <2>3, <2>4
  <2>6. OthersStay(w) /\ Same(w) /\ req'[w].at = "copying"
    BY <2>1, Moved
  <2> QED
    BY <2>2, <2>5, <2>6
<1>3. CASE RepairPath(w)
  <2>1. UNCHANGED files
    BY <1>3 DEF RepairPath
  <2> QED
    BY <1>3, <2>1, ReplaceStarted DEF Canonical
<1>4. CASE BackupTenant(w)
  <2> DEFINE copy == [file EXCEPT !.by = {}]
  <2>1. /\ req[w].at \notin Unplaced /\ UNCHANGED files
        /\ req' = [req EXCEPT ![w].at = "import", ![w].copy = copy]
    BY <1>4 DEF BackupTenant, At, Unplaced, Firm
  <2>2. f \in FirmIds /\ file \in TenantFile
    BY <2>1, Placing, CanonicalFile DEF Types, Firm
  <2>3. copy.work = file.work
    BY <2>2 DEF TenantFile, FileRow
  <2>4. OthersStay(w) /\ Same(w) /\ req'[w].at = "import" /\ req'[w].copy = copy
    BY <2>1, Taken
  <2>5. file = files'[f]["canonical"]
    BY <2>1 DEF Canonical
  <2> HIDE DEF copy, file
  <2> QED
    BY <2>2, <2>3, <2>4, <2>5
<1> QED
  BY <1>1, <1>2, <1>3, <1>4, OtherLabels

\* A file set by a step of provisioning or repair holds no work that was not there.
LEMMA SettingLess ==
  ASSUME RegistryAssumption, Types, NEW w \in Workers,
         CopyTemplate(w) \/ FinishCopy(w) \/ RollbackFile(w) \/ RemoveFile(w)
  PROVE  \A p \in Paths : files'[Firm(w)][p].work \in {0, files[Firm(w)][p].work}
<1> DEFINE file == Canonical(Firm(w))
<1>1. req[w].at \notin Unplaced
  BY DEF CopyTemplate, FinishCopy, RollbackFile, RemoveFile, At, Unplaced
<1>2. Firm(w) \in FirmIds /\ file \in TenantFile /\ file = files[Firm(w)]["canonical"]
  BY <1>1, Placing, CanonicalFile DEF Types, Canonical
<1>3. /\ Truncated(file, w) \in TenantFile /\ Truncated(file, w).work = 0
      /\ NoFile \in TenantFile /\ NoFile.work = 0
      /\ TemplateCopy \in TenantFile /\ TemplateCopy.work = 0
  BY <1>2, FileValues DEF Truncated, NoFile, TemplateCopy
<1>4. ASSUME NEW new \in TenantFile, SetFile(w, new), new.work \in {0, file.work}
      PROVE  \A p \in Paths : files'[Firm(w)][p].work \in {0, files[Firm(w)][p].work}
  <2>1. /\ files'[Firm(w)]["canonical"] = new
        /\ \A q \in Paths : q # "canonical" => files'[Firm(w)][q] = files[Firm(w)][q]
    BY <1>2, <1>4, CanonicalSet DEF Types, Firm
  <2> HIDE DEF file
  <2> QED
    BY <1>2, <1>4, <2>1
<1>5. CASE CopyTemplate(w)
  <2>1. SetFile(w, Truncated(file, w))
    BY <1>5 DEF CopyTemplate
  <2> QED
    BY <1>3, <1>4, <2>1
<1>6. CASE FinishCopy(w)
  <2>1. \/ UNCHANGED files
        \/ \E left \in {TemplateCopy, file} : SetFile(w, [left EXCEPT !.by = file.by \ {w}])
    BY <1>6 DEF FinishCopy
  <2>2. ASSUME NEW left \in {TemplateCopy, file}, SetFile(w, [left EXCEPT !.by = file.by \ {w}])
        PROVE  \A p \in Paths : files'[Firm(w)][p].work \in {0, files[Firm(w)][p].work}
    <3> DEFINE new == [left EXCEPT !.by = file.by \ {w}]
    <3>1. left \in TenantFile /\ left.work \in {0, file.work}
      <4> HIDE DEF file
      <4> QED
        BY <1>2, <1>3
    <3>2. new \in TenantFile
      <4> HIDE DEF file
      <4> QED
        BY <1>2, <3>1, LeftFile
    <3>3. new.work = left.work
      <4> HIDE DEF file
      <4> QED
        BY <3>1 DEF TenantFile, FileRow
    <3>4. SetFile(w, new)
      BY <2>2
    <3>5. new.work \in {0, file.work}
      BY <3>1, <3>3
    <3> HIDE DEF new
    <3> QED
      BY <1>4, <3>2, <3>4, <3>5
  <2> QED
    BY <2>1, <2>2
<1>7. CASE RollbackFile(w) \/ RemoveFile(w)
  <2>1. SetFile(w, NoFile)
    BY <1>7 DEF RollbackFile, RemoveFile
  <2> QED
    BY <1>3, <1>4, <2>1
<1> QED
  BY <1>5, <1>6, <1>7

LEMMA BooksStep ==
  ASSUME RegistryAssumption, Types, Types', Books, NEW w \in Workers,
         LaunchStep(w) \/ RequestStep(w) \/ ScriptStep(w) \/ DryRun(w) \/ Fault(w)
  PROVE  Books'
<1>1. ASSUME NEW f \in FirmIds, entered'[f] = 0 PROVE \A p \in Paths : files'[f][p].work = 0
  <2>1. entered[f] = 0 /\ \A p \in Paths : files[f][p].work = 0
    BY <1>1, EnteredStays DEF Books
  <2>2. CASE WorkSame(f)
    BY <2>1, <2>2 DEF WorkSame
  <2>3. CASE Setting(w) /\ f = Firm(w)
    <3>1. ~ReplaceByLegacy(w)
      BY <1>1, <2>3, EnteredStays
    <3>2. ~ReplaceCanonical(w)
      BY <2>1, <2>3 DEF Books, ReplaceCanonical
    <3> QED
      BY <2>1, <2>3, <3>1, <3>2, SettingLess DEF Setting
  <2>4. Setting(w) /\ f # Firm(w) => WorkSame(f)
    BY SettingFile, SettingElsewhere DEF WorkSame
  <2>5. Write(w) => WorkSame(f)
    BY <1>1, <2>1, WriteKeeps
  <2>6. ~Setting(w) /\ ~Write(w) => WorkSame(f)
    BY WorkStands
  <2> QED
    BY <2>2, <2>3, <2>4, <2>5, <2>6
<1>2. ASSUME NEW v \in Workers, req'[v].at = "replace" PROVE entered'[req'[v].firm] # 0
  <2>1. CASE v # w
    <3>1. req'[v] = req[v]
      BY <2>1, HoldingStarted DEF OthersStay
    <3>2. req[v].firm \in FirmIds /\ entered[req[v].firm] # 0
      BY <1>2, <3>1, Placing DEF Books, At, Firm, Unplaced
    <3> QED
      BY <3>1, <3>2, EnteredStays
  <2>2. CASE v = w
    <3>1. req'[w].firm = req[w].firm /\ req[w].firm \in FirmIds
      BY <1>2, <2>2, HoldingStarted DEF Holding, Same
    <3>2. \E p \in Paths : files[req[w].firm][p].work # 0
      BY <1>2, <2>2, HoldingStarted DEF Holding
    <3> QED
      BY <2>2, <3>1, <3>2, EnteredStays DEF Books
  <2> QED
    BY <2>1, <2>2
<1> QED
  BY <1>1, <1>2 DEF Books, At, Firm

LEMMA BooksInit == RegistryAssumption /\ Init => Books
<1> SUFFICES ASSUME RegistryAssumption, Init PROVE Books
  OBVIOUS
<1>1. \A w \in Workers : ~At(w, "replace")
  BY DEF Init, At, Idle
<1>2. CASE Fresh
  BY <1>1, <1>2 DEF Fresh, Books, NoFile
<1>3. ASSUME NEW p \in PortalFirms, Migrated(p) PROVE Books
  <2>1. LegacyWork # 0
    BY DEF RegistryAssumption
  <2> QED
    BY <1>1, <1>3, <2>1 DEF Migrated, Books, NoFile
<1> QED
  BY <1>2, <1>3 DEF Init

LEMMA BooksAlways == MCSpec => []Books
<1>1. MCInit => Books
  BY BooksInit, RegistryAssumption DEF MCInit
<1>2. ASSUME Types, Types', Books, [MCNext]_MCvars PROVE Books'
  <2>1. \/ \E w \in Workers :
              LaunchStep(w) \/ RequestStep(w) \/ ScriptStep(w) \/ DryRun(w) \/ Fault(w)
        \/ \E p \in PortalFirms : FirmAccountStatus(p)
        \/ UNCHANGED vars
    BY <1>2, RunsAreSteps DEF Next
  <2>2. CASE UNCHANGED <<files, req, entered>>
    BY <1>2, <2>2 DEF Books, At, Firm
  <2> QED
    BY <1>2, <2>1, <2>2, BooksStep, RegistryAssumption DEF FirmAccountStatus, vars
<1> QED
  BY <1>1, <1>2, RunsTyped, PTL DEF MCSpec

LEMMA SteadyAlways == MCSpec => [](OneByOne => \A w \in Workers : Steady(w))
<1>1. MCInit => (OneByOne => \A w \in Workers : Steady(w))
  BY DEF MCInit, Init, Steady, Idle
<1>2. ASSUME Types, OneByOne => \A w \in Workers : Steady(w), [MCNext]_MCvars, OneByOne',
             NEW v \in Workers
      PROVE  Steady(v)'
  <2>1. OneByOne /\ Steady(v)
    BY <1>2 DEF MCNext, MCvars, OneByOne
  <2>2. CASE UNCHANGED <<files, req>>
    BY <2>1, <2>2 DEF Steady, Canonical
  <2>3. ASSUME NEW w \in Workers, OthersIdle(w),
               LaunchStep(w) \/ RequestStep(w) \/ ScriptStep(w) \/ DryRun(w) \/ Fault(w)
        PROVE  Steady(v)'
    <3>1. CASE v # w
      <4>1. req'[v] = req[v] /\ req[v].at = "idle"
        BY <1>2, <2>3, <3>1, HoldingStarted, RegistryAssumption DEF OthersStay, OthersIdle, At
      <4> QED
        BY <4>1 DEF Steady
    <3>2. CASE v = w
      <4>1. req'[w].at \in Holding =>
               /\ req'[w].firm = req[w].firm
               /\ req'[w].at # "import" => files'[req[w].firm]["canonical"].work = 0
               /\ req'[w].at = "import"
                     => req'[w].copy.work = files'[req[w].firm]["canonical"].work
        BY <1>2, <2>3, HoldingStarted, RegistryAssumption DEF Same
      <4> QED
        BY <3>2, <4>1 DEF Steady, Holding, Canonical
    <3> QED
      BY <3>1, <3>2
  <2> QED
    BY <1>2, <2>1, <2>2, <2>3, OneRuns DEF MCvars, vars, FirmAccountStatus
<1>3. Types /\ (OneByOne => \A w \in Workers : Steady(w)) /\ [MCNext]_MCvars
        => (OneByOne => \A w \in Workers : Steady(w))'
  BY <1>2
<1> QED
  BY <1>1, <1>3, RunsTyped, PTL DEF MCSpec

\* One at a time, a step that may lose work loses none, but an import.
LEMMA OneLoses ==
  ASSUME RegistryAssumption, Types, Types', OneAtATime, Books, NEW w \in Workers, Steady(w),
         LaunchStep(w) \/ RequestStep(w) \/ ScriptStep(w) \/ DryRun(w) \/ Fault(w),
         req[w].at \in Losing \ {"import"}
  PROVE  /\ WorkKept(Firm(w))
         /\ entered[Firm(w)] = 0 \/ RowKept(Firm(w))
<1>1. Firm(w) \in FirmIds /\ Firm(w) = req[w].firm /\ req[w].at # "import"
  BY Placing DEF Losing, Unplaced, Firm
<1> DEFINE f == Firm(w)
<1>2. \A p \in Paths : files[f][p].work \in Nat /\ files'[f][p].work \in Nat
  BY <1>1 DEF Types, FileTables, TenantFile, FileRow, RegistryAssumption
<1>3. CASE req[w].at \in {"undo", "unlink"}
  <2>1. entered[f] = 0
    BY <1>1, <1>3 DEF OneAtATime, AtWork, Untouched
  <2>2. \A p \in Paths : files[f][p].work = 0
    BY <1>1, <2>1 DEF Books
  <2> QED
    BY <1>2, <2>1, <2>2 DEF WorkKept
<1>4. CASE req[w].at \in {"redo", "copy", "copying", "replace"}
  <2>1. RowKept(f)
    BY <1>1, <1>4, PortalsStand, PortalsKeep DEF At
  <2>2. files[f]["canonical"].work = 0
    BY <1>1, <1>4 DEF Steady, Canonical
  <2>3. \A q \in Paths : q # "canonical" => files'[f][q].work = files[f][q].work
    <3>1. CASE Setting(w)
      <4>1. UNCHANGED files \/ \E file \in TenantFile : SetFile(w, file)
        BY <3>1, SettingFile
      <4> QED
        BY <1>1, <4>1, CanonicalSet DEF Types, Firm
    <3>2. CASE ~Setting(w)
      <4>1. ~Write(w)
        BY <1>4 DEF Write, At
      <4> QED
        BY <1>1, <3>2, <4>1, WorkStands DEF WorkSame
    <3> QED
      BY <3>1, <3>2
  <2>4. \A q \in Paths : files'[f][q].work >= files[f][q].work
    BY <1>2, <2>2, <2>3
  <2> QED
    BY <2>1, <2>4 DEF WorkKept
<1> QED
  BY <1>3, <1>4 DEF Losing

\* One at a time, with crashes between any two steps, no file loses work but to
\* an import, which holds a copy of that file. Whatever the interleaving, a firm
\* that accepted work loses its row, and a file work, only by a process of that
\* firm at the rollback of a provisioning, at the removal or the copy of a file
\* it judged before, at a relocation or at an import (provision.py,
\* _rollback_partial_provision; template.py; tenant_db_relocate.py).
THEOREM LossesHaveCauses == MCSpec => LossCauses
<1> DEFINE Lost(f) == \/ (entered[f] > 0 /\ Registered(f) /\ ~Registered(f)')
                      \/ \E p \in Paths : files'[f][p].work < files[f][p].work
           Cause(f) == \E w \in Workers :
                          /\ Firm(w) = f
                          /\ IF OneByOne
                             THEN At(w, "import") /\ req[w].copy.work = Canonical(f).work
                             ELSE req[w].at \in {"undo", "unlink", "redo", "copy", "copying",
                                                "replace", "import"}
           Ordered == OneByOne => OneAtATime /\ \A w \in Workers : Steady(w)
<1>1. ASSUME Types, Types', NEW f \in FirmIds, WorkKept(f), entered[f] = 0 \/ RowKept(f)
      PROVE  ~Lost(f)
  <2>1. \A p \in Paths : files[f][p].work \in Int /\ files'[f][p].work \in Int
    BY <1>1 DEF Types, FileTables, TenantFile, FileRow
  <2> QED
    BY <1>1, <2>1 DEF WorkKept, RowKept
<1>2. ASSUME Types, Types', Books, Ordered, [MCNext]_MCvars, NEW f \in FirmIds, Lost(f)
      PROVE  Cause(f)
  <2>1. ~(WorkKept(f) /\ RowKept(f))
    BY <1>1, <1>2
  <2>2. PICK w \in Workers :
           /\ LaunchStep(w) \/ RequestStep(w) \/ ScriptStep(w) \/ DryRun(w) \/ Fault(w)
           /\ Firm(w) = f /\ req[w].at \in Losing
    <3>1. \/ \E w \in Workers :
                LaunchStep(w) \/ RequestStep(w) \/ ScriptStep(w) \/ DryRun(w) \/ Fault(w)
          \/ \E p \in PortalFirms : FirmAccountStatus(p)
          \/ UNCHANGED vars
      BY <1>2, RunsAreSteps DEF Next
    <3>2. ~UNCHANGED vars
      BY <1>2, <2>1, SameKeeps DEF vars, RowKept, Registered, WorkSame
    <3> QED
      BY <1>2, <2>1, <3>1, <3>2, StepLosses, StatusLosses, RegistryAssumption
  <2>3. CASE ~OneByOne
    BY <2>2, <2>3 DEF Losing
  <2>4. CASE OneByOne
    <3>1. req[w].at = "import"
      BY <1>1, <1>2, <2>2, <2>4, OneLoses, RegistryAssumption
    <3> QED
      BY <1>2, <2>2, <2>4, <3>1 DEF Steady, At, Firm
  <2> QED
    BY <2>3, <2>4
<1>3. Types /\ Types' /\ Books /\ Ordered /\ [MCNext]_MCvars
         => [\A f \in FirmIds : Lost(f) => Cause(f)]_MCvars
  BY <1>2
<1>4. MCSpec => []Ordered
  BY OneAlways, SteadyAlways, PTL
<1> QED
  BY <1>3, <1>4, RunsTyped, BooksAlways, PTL DEF LossCauses, MCSpec

\* Where requests run one at a time, accepted work is in the file the registry
\* names, unless the firm is suspended, however its path moved between the
\* request's open of the ledger and its write (router.py, get_database).
THEOREM WorkIsLanded == MCSpec => WorkLands
<1> DEFINE Lands == \A w \in Workers, f \in FirmIds :
                       At(w, "write") /\ entered'[f] > entered[f] /\ spaces[f].active =>
                          files'[f][spaces[f].path].work > files[f][spaces[f].path].work
<1>1. ASSUME Types, OneAtATime, OneByOne, MCNext PROVE Lands
  <2> SUFFICES ASSUME NEW w \in Workers, NEW f \in FirmIds,
                      At(w, "write"), entered'[f] > entered[f], spaces[f].active
               PROVE  files'[f][spaces[f].path].work > files[f][spaces[f].path].work
    OBVIOUS
  <2>1. entered[f] \in Int /\ entered'[f] # entered[f]
    BY <1>1 DEF Types, WorkTables
  <2>2. PICK v \in Workers :
           /\ OthersIdle(v)
           /\ LaunchStep(v) \/ RequestStep(v) \/ ScriptStep(v) \/ DryRun(v) \/ Fault(v)
    BY <1>1, <2>1, OneRuns DEF FirmAccountStatus
  <2>3. v = w
    BY <2>2 DEF OthersIdle, At
  <2>4. Write(w)
    BY <2>1, <2>2, <2>3
       DEF LaunchStep, RequestStep, ScriptStep, DryRun, Fault, Launch, CheckSlug, LookupAgain,
       CreateFirm, CloneTemplate, CopyTemplate, FinishCopy, Scrub, CreateWorkspace,
       MarkProvisioned, CreateOwner, RollbackRows, RollbackFile, EnsureReady, RepairPath,
       ReplaceCanonical, PointAtCanonical, CheckSize, EnsureFile, RemoveFile, RereadWorkspace,
       CheckFirm, CheckWorkspace, EstablishSession, Request, StartRepair, StartImport,
       BackupTenant, ReplaceByLegacy, ApplyMetadata, ProvisionStepFails, ProvisionSteps, Crash, At
  <2> DEFINE p == spaces[f].path
  <2>5. f = Firm(w) /\ files'[f][req[w].path] = [files[f][req[w].path] EXCEPT !.work = @ + 1]
    BY <1>1, <2>1, <2>4, WriteKeeps, RegistryAssumption
  <2>6. req[w].path = p
    BY <1>1, <2>5 DEF OneAtATime, AtWork, At, Firm
  <2>7. p \in Paths
    BY <1>1, <2>6, Placing DEF Placed, At
  <2> HIDE DEF p
  <2>8. files[f][p] \in TenantFile
    BY <1>1, <2>7 DEF Types, FileTables
  <2> QED
    BY <2>5, <2>6, <2>8 DEF TenantFile, FileRow, p
<1>2. Types /\ (OneByOne => OneAtATime) /\ [MCNext]_MCvars => [OneByOne => Lands]_MCvars
  BY <1>1
<1> QED
  BY <1>2, RunsTyped, OneAlways, PTL DEF WorkLands, MCSpec

-----------------------------------------------------------------------------
(* One request at a time and no crash: what the registry names is served.   *)

\* A ledger that is served: whole, marked, without the template's accounts.
Good(file) == file.state = "whole" /\ file.marked /\ ~file.seeds

Ledger(f) == files[f][spaces[f].path]

\* Nothing is in progress on the firm; a ledger that was moved is the only one.
Settled(f) ==
    /\ Registered(f) => HasSpace(f)
    /\ HasSpace(f) =>
          /\ spaces[f].active
          /\ Good(Ledger(f)) /\ Ledger(f).work = entered[f]
          /\ spaces[f].path = "moved" => Ledger(f).work > 0 /\ Canonical(f).state = "missing"

\* What the request in progress has made of its firm so far.
Halfway(w) ==
    LET f == req[w].firm
        file == Canonical(f)
    IN  /\ req[w].at \notin {"again", "fix", "redo"}
        /\ req[w].at \in {"slug", "create"} => Holders(req[w].portal) = {}
        /\ req[w].at \in Making => req[w].how = "provision"
        /\ req[w].at \in {"clone", "copy", "copying", "scrub", "space"} => ~HasSpace(f)
        /\ req[w].at = "copying" => file.state = "copying" /\ w \in file.by
        /\ req[w].at \in {"scrub", "space", "mark"} => file.state = "whole" /\ file.work = 0
        /\ req[w].at \in {"space", "mark"} => ~file.seeds
        /\ req[w].at = "unlink" => ~Registered(f)
        /\ req[w].at \in Opening \cup {"replace"} => HasSpace(f) /\ Settled(f)
        /\ req[w].at \in {"mark", "size", "backup", "import", "metadata"} => spaces[f].path = "canonical"
        /\ req[w].at \in {"replace", "point"} => spaces[f].path = "moved"
        /\ req[w].at = "replace" => req[w].copy = Ledger(f)
        /\ req[w].at \in {"mark", "point", "backup", "import", "metadata"} => spaces[f].active
        /\ req[w].at = "point" => Good(file) /\ file.work = entered[f]
        /\ req[w].at \in {"backup", "import"} => file.state \in {"missing", "whole"}
        /\ req[w].at = "metadata" =>
              file.state = "whole" /\ ~file.seeds /\ file.work = entered[f]

\* The request is not about the firm, or has not found one yet.
Apart(w, f) == req[w].at \in Unplaced \/ req[w].firm # f

Sound ==
    /\ \A w \in Workers : Halfway(w)
    /\ \A f \in FirmIds : (\A w \in Workers : Apart(w, f)) => Settled(f)

LEMMA SettledApart ==
  ASSUME Sound, NEW w \in Workers, OthersIdle(w)
  PROVE  \A f \in FirmIds : Apart(w, f) => Settled(f)
BY DEF Sound, OthersIdle, Apart, At, Unplaced

LEMMA SoundRests ==
  ASSUME Sound, NEW w \in Workers, OthersIdle(w), OthersStay(w), Halfway(w)',
         \A f \in FirmIds : Apart(w, f)' => Settled(f)'
  PROVE  Sound'
<1>1. ASSUME NEW v \in Workers \ {w} PROVE Halfway(v)'
  <2>1. req'[v].at = "idle"
    BY DEF OthersStay, OthersIdle, At
  <2> QED
    BY <2>1 DEF Halfway, Making, Opening
<1> QED
  BY <1>1 DEF Sound

LEMMA HalfwayIdle ==
  ASSUME NEW w \in Workers, req'[w].at = "idle"
  PROVE  Halfway(w)'
BY DEF Halfway, Making, Opening

\* A firm whose rows, work and files stay as they are stays settled.
LEMMA SettledStays ==
  ASSUME Types, Types', NEW f \in FirmIds, Settled(f), Registered(f)' => Registered(f),
         spaces'[f].path = spaces[f].path, spaces[f].active => spaces'[f].active,
         entered'[f] = entered[f], \A p \in Paths : files'[f][p] = files[f][p]
  PROVE  Settled(f)'
<1>1. HasSpace(f)' <=> HasSpace(f)
  BY RowsThere, RowsThen DEF Types
<1>2. HasSpace(f) => Ledger(f)' = Ledger(f)
  BY RowsThere DEF Ledger, Types, RegistryTables, SpaceRow
<1>3. Canonical(f)' = Canonical(f)
  BY DEF Canonical, Paths
<1> QED
  BY <1>1, <1>2, <1>3 DEF Settled

\* A step on one firm leaves the others as they were.
LEMMA SettledElsewhere ==
  ASSUME Types, Types', NEW f \in FirmIds,
         \A g \in FirmIds \ {f} : /\ firms'[g] = firms[g] /\ spaces'[g] = spaces[g]
                                  /\ entered'[g] = entered[g]
                                  /\ \A p \in Paths : files'[g][p] = files[g][p]
  PROVE  \A g \in FirmIds \ {f} : Settled(g) => Settled(g)'
BY SettledStays DEF Registered

\* The ledger of a firm being settled.
LEMMA SettledCanonical ==
  ASSUME NEW f \in FirmIds, spaces'[f].path = "canonical", spaces'[f].active,
         Good(files'[f]["canonical"]), files'[f]["canonical"].work = entered'[f]
  PROVE  HasSpace(f)' /\ Settled(f)'
<1>1. HasSpace(f)'
  BY DEF HasSpace, NoSpace
<1> QED
  BY <1>1 DEF Settled, Ledger

LEMMA OpenedWhole ==
  ASSUME NEW file \in TenantFile, file.state = "whole", NEW skipSeed \in BOOLEAN
  PROVE  /\ Touched(file) = file
         /\ Opened(file, skipSeed).state = "whole" /\ Opened(file, skipSeed).work = file.work
         /\ Opened(file, skipSeed).marked = file.marked
         /\ (skipSeed \/ file.marked) /\ ~file.seeds => ~Opened(file, skipSeed).seeds
<1> DEFINE b == file.seeds \/ (~skipSeed /\ ~file.marked)
<1>1. Opened(file, skipSeed) = [file EXCEPT !.seeds = b]
  BY DEF Opened
<1>2. b \in BOOLEAN
  OBVIOUS
<1>3. (skipSeed \/ file.marked) /\ ~file.seeds => ~b
  OBVIOUS
<1> HIDE DEF b
<1> QED
  BY <1>1, <1>2, <1>3 DEF TenantFile, FileRow, Touched

LEMMA OpenedGood ==
  ASSUME RegistryAssumption, NEW file \in TenantFile, Good(file), NEW skipSeed \in BOOLEAN
  PROVE  /\ Touched(file) = file
         /\ Opened(file, skipSeed) \in TenantFile
         /\ Good(Opened(file, skipSeed)) /\ Opened(file, skipSeed).work = file.work
BY OpenedWhole, OpenedFile DEF Good

LEMMA OpenedMarked ==
  ASSUME RegistryAssumption, NEW file \in TenantFile, file.state = "whole", ~file.seeds
  PROVE  /\ Good([Opened(file, TRUE) EXCEPT !.marked = TRUE])
         /\ [Opened(file, TRUE) EXCEPT !.marked = TRUE] \in TenantFile
         /\ [Opened(file, TRUE) EXCEPT !.marked = TRUE].work = file.work
<1> DEFINE opened == Opened(file, TRUE)
<1>1. opened \in TenantFile /\ opened.state = "whole" /\ opened.work = file.work /\ ~opened.seeds
  BY OpenedWhole, OpenedFile
<1> HIDE DEF opened
<1>2. /\ [opened EXCEPT !.marked = TRUE].state = "whole"
      /\ [opened EXCEPT !.marked = TRUE].work = opened.work
      /\ [opened EXCEPT !.marked = TRUE].marked
      /\ [opened EXCEPT !.marked = TRUE].seeds = opened.seeds
  BY <1>1 DEF TenantFile, FileRow
<1> QED
  BY <1>1, <1>2, MarkedFile DEF Good, opened

\* No firm is in the middle of anything.
LEMMA AllSettled ==
  ASSUME Types, Sound, NEW w \in Workers, OthersIdle(w),
         req[w].at \in Unplaced \cup Opening \cup {"replace"}
  PROVE  \A f \in FirmIds : Settled(f)
<1>1. \A f \in FirmIds : Apart(w, f) => Settled(f)
  BY SettledApart
<1>2. ASSUME NEW f \in FirmIds, ~Apart(w, f) PROVE Settled(f)
  BY <1>2 DEF Apart, Sound, Halfway
<1> QED
  BY <1>1, <1>2

LEMMA LedgersUnchanged ==
  ASSUME UNCHANGED <<registry, files, entered>>
  PROVE  /\ \A f : (Settled(f)' <=> Settled(f)) /\ (HasSpace(f)' <=> HasSpace(f))
         /\ \A f : (Registered(f)' <=> Registered(f)) /\ Canonical(f)' = Canonical(f)
         /\ \A p : Holders(p)' = Holders(p)
         /\ spaces' = spaces
BY DEF registry, Settled, HasSpace, Registered, Ledger, Canonical, Holders

\* A request opens the firm it has, found or was given.
LEMMA HalfwayOpen ==
  ASSUME NEW w \in Workers, NEW f, req'[w].firm = f, HasSpace(f)', Settled(f)',
         req'[w].at \in Opening \ {"size"}
  PROVE  Halfway(w)'
BY DEF Halfway, Making, Opening

\* A settled firm with a portal firm has a workspace.
LEMMA HoldersSettled ==
  ASSUME RegistryAssumption, Types, NEW f \in FirmIds, Settled(f), NEW p \in PortalFirms,
         firms[f].portal = p
  PROVE  HasSpace(f)
BY RowsThere DEF Types, Settled, RegistryAssumption

LEMMA SoundLooks ==
  ASSUME RegistryAssumption, Types, OneAtATime, Sound, NEW w \in Workers, OthersIdle(w),
         \/ \E p \in PortalFirms : Launch(w, p)
         \/ CheckSlug(w) \/ LookupAgain(w) \/ CreateOwner(w) \/ EnsureReady(w) \/ EnsureFile(w)
         \/ RereadWorkspace(w) \/ \E f \in FirmIds : StartRepair(w, f)
  PROVE  Sound'
<1>1. UNCHANGED <<registry, files, entered>> /\ Halfway(w) /\ AtWork(w)
  BY DEF Launch, CheckSlug, LookupAgain, CreateOwner, EnsureReady, EnsureFile, RereadWorkspace,
     StartRepair, Sound, OneAtATime
<1>2. /\ \A f : (Settled(f)' <=> Settled(f)) /\ (HasSpace(f)' <=> HasSpace(f))
      /\ \A p : Holders(p)' = Holders(p)
  BY <1>1, LedgersUnchanged
<1>3. req[w].at \in Unplaced \cup (Opening \ {"size"})
  BY <1>1 DEF Launch, CheckSlug, LookupAgain, CreateOwner, EnsureReady, EnsureFile, RereadWorkspace,
     StartRepair, At, Halfway, Unplaced, Opening
<1>4. \A f \in FirmIds : Settled(f)
  BY <1>3, AllSettled
<1>5. ASSUME req[w].at \in Opening, Same(w), req'[w].at \in Opening \ {"size"} PROVE Halfway(w)'
  BY <1>1, <1>2, <1>5, HalfwayOpen DEF Halfway, Same
<1>6. OthersStay(w) /\ Halfway(w)'
  <2>1. ASSUME NEW p \in PortalFirms, Launch(w, p) PROVE OthersStay(w) /\ Halfway(w)'
    <3>1. /\ OthersStay(w) /\ req'[w].portal = p
          /\ \/ Holders(p) = {} /\ req'[w].at = "slug"
             \/ /\ req'[w].at = "ready" /\ req'[w].firm \in FirmIds
                /\ firms[req'[w].firm].portal = p
      BY <2>1, Launched
    <3>2. CASE Holders(p) = {} /\ req'[w].at = "slug"
      BY <1>2, <3>1, <3>2 DEF Halfway, Making, Opening
    <3>3. CASE req'[w].at = "ready" /\ req'[w].firm \in FirmIds /\ firms[req'[w].firm].portal = p
      <4>1. PICK f \in FirmIds : f = req'[w].firm /\ firms[f].portal = p
        BY <3>3
      <4>2. HasSpace(f)
        BY <1>4, <4>1, HoldersSettled
      <4> QED
        BY <1>2, <1>4, <3>1, <3>3, <4>1, <4>2, HalfwayOpen DEF Opening
    <3> QED
      BY <3>1, <3>2, <3>3
  <2>2. CASE CheckSlug(w)
    <3>1. Holders(req[w].portal) = {}
      BY <1>1, <2>2 DEF Halfway, CheckSlug, At
    <3>2. OthersStay(w) /\ Same(w) /\ req'[w].at = "create"
      BY <2>2, <3>1, Moved DEF CheckSlug
    <3> QED
      BY <1>2, <3>1, <3>2 DEF Halfway, Making, Opening, Same
  <2>3. CASE LookupAgain(w) \/ EnsureFile(w)
    BY <1>1, <2>3 DEF LookupAgain, EnsureFile, At, Halfway
  <2>4. CASE CreateOwner(w)
    <3>1. req[w].at = "owner" /\ (Finish(w) \/ Goto(w, "ready"))
      BY <2>4 DEF CreateOwner, At
    <3> QED
      BY <1>5, <3>1, Moved, Finished, HalfwayIdle DEF Opening
  <2>5. CASE EnsureReady(w)
    <3>1. req[w].at = "ready" /\ (Goto(w, "path") \/ Goto(w, "reread"))
      BY <1>1, <2>5 DEF EnsureReady, At, Halfway, Opening, Firm
    <3> QED
      BY <1>5, <3>1, Moved DEF Opening
  <2>6. CASE RereadWorkspace(w)
    <3>1. req[w].at = "reread" /\ (Finish(w) \/ RoundDone(w))
      BY <2>6 DEF RereadWorkspace, At
    <3> QED
      BY <1>5, <3>1, Rounded, Finished, HalfwayIdle DEF Opening
  <2>7. ASSUME NEW f \in FirmIds, StartRepair(w, f) PROVE OthersStay(w) /\ Halfway(w)'
    <3>1. OthersStay(w) /\ req'[w].at = "path" /\ req'[w].firm = f
      BY <2>7, RepairStarted
    <3>2. HasSpace(f)
      BY <1>4, <2>7 DEF StartRepair, Settled
    <3> QED
      BY <1>2, <1>4, <3>1, <3>2, HalfwayOpen DEF Opening
  <2> QED
    BY <2>1, <2>2, <2>3, <2>4, <2>5, <2>6, <2>7
<1> QED
  BY <1>2, <1>4, <1>6, SoundRests

\* A step about one firm.
LEMMA SoundOn ==
  ASSUME Types, Types', Sound, NEW w \in Workers, OthersIdle(w), OthersStay(w), NEW f \in FirmIds,
         \A g \in FirmIds \ {f} : Apart(w, g),
         \A g \in FirmIds \ {f} : /\ firms'[g] = firms[g] /\ spaces'[g] = spaces[g]
                                  /\ entered'[g] = entered[g]
                                  /\ \A p \in Paths : files'[g][p] = files[g][p],
         Halfway(w)', Apart(w, f)' => Settled(f)'
  PROVE  Sound'
<1>1. \A g \in FirmIds \ {f} : Settled(g)'
  BY SettledApart, SettledElsewhere
<1> QED
  BY <1>1, SoundRests

LEMMA SoundFails ==
  ASSUME RegistryAssumption, Types, Types', Sound, NEW w \in Workers, OthersIdle(w),
         ProvisionStepFails(w)
  PROVE  Sound'
<1>0. PICK f \in FirmIds : req[w].firm = f
  BY Placing DEF ProvisionStepFails, ProvisionSteps, Unplaced, Firm
<1>1. /\ UNCHANGED <<registry, entered>> /\ LeaveCopy(w) /\ req[w].how = "provision"
      /\ req[w].at \notin Unplaced
      /\ OthersStay(w) /\ Same(w) /\ req'[w].at = "undo" /\ req'[w].how = "provision"
  BY Moved DEF ProvisionStepFails, ProvisionSteps, Unplaced
<1>2. Halfway(w)' /\ ~Apart(w, f)'
  BY <1>0, <1>1 DEF Halfway, Making, Opening, Apart, Unplaced, Same
<1>3. \A g \in FirmIds \ {f} : Apart(w, g) /\ \A p \in Paths : files'[g][p] = files[g][p]
  BY <1>0, <1>1 DEF Apart, LeaveCopy, Firm, Types, FileTables
<1> QED
  BY <1>1, <1>2, <1>3, SoundOn DEF registry

LEMMA SoundCreates ==
  ASSUME RegistryAssumption, Types, Types', OneAtATime, Sound, NEW w \in Workers, OthersIdle(w),
         CreateFirm(w)
  PROVE  Sound'
<1>1. req[w].at = "create" /\ UNCHANGED <<spaces, files, cache, sessions, entered>>
  BY DEF CreateFirm, At
<1>2. Placed(req[w]) /\ req[w] \in RequestRow
  BY Placing
<1>3. \A g \in FirmIds : Settled(g)
  BY <1>1, AllSettled DEF Unplaced
<1>4. CASE Finish(w) /\ UNCHANGED <<firms, issued>>
  BY <1>1, <1>3, <1>4, Finished, HalfwayIdle, LedgersUnchanged, SoundRests DEF registry
<1>5. CASE ~(Finish(w) /\ UNCHANGED <<firms, issued>>)
  <2> DEFINE row == [portal |-> req[w].portal, active |-> TRUE]
  <2>1. PICK id \in FirmIds :
           /\ id = issued + 1 /\ firms' = [firms EXCEPT ![id] = row]
           /\ req' = [req EXCEPT ![w].at = "clone", ![w].firm = id, ![w].seen = TRUE,
                                 ![w].rounds = 1, ![w].how = "provision"]
    BY <1>5 DEF CreateFirm
  <2> DEFINE r == [req[w] EXCEPT !.at = "clone", !.firm = id, !.seen = TRUE, !.rounds = 1,
                                 !.how = "provision"]
  <2>2. req' = [req EXCEPT ![w] = r]
    BY <2>1 DEF Types, Requests
  <2>3. r.at = "clone" /\ r.firm = id /\ r.how = "provision"
    BY <1>2 DEF RequestRow
  <2> HIDE DEF r, row
  <2>4. OthersStay(w) /\ req'[w] = r
    BY <2>2, Replaced
  <2>5. ~HasSpace(id) /\ (HasSpace(id)' <=> HasSpace(id))
    <3>1. id > issued
      BY <2>1 DEF Types, RegistryTables, RegistryAssumption
    <3> QED
      BY <1>1, <3>1, RowsThere DEF OneAtATime, Identity, Types, HasSpace
  <2>6. \A g \in FirmIds \ {id} : firms'[g] = firms[g]
    BY <2>1 DEF Types, RegistryTables
  <2>7. Halfway(w)'
    BY <2>3, <2>4, <2>5 DEF Halfway, Making, Opening
  <2>8. ~Apart(w, id)'
    BY <2>3, <2>4 DEF Apart, Unplaced
  <2>9. \A g \in FirmIds : Apart(w, g)
    BY <1>1 DEF Apart, Unplaced
  <2> QED
    BY <1>1, <2>4, <2>6, <2>7, <2>8, <2>9, SoundOn
<1> QED
  BY <1>4, <1>5

\* The file of the firm is set, or left; nothing else of the tables changes.
LEMMA SetOn ==
  ASSUME Types, NEW w \in Workers, NEW f \in FirmIds, req[w].firm = f, NEW file \in TenantFile,
         SetFile(w, file), UNCHANGED <<registry, entered>>
  PROVE  /\ Canonical(f)' = file
         /\ \A g \in FirmIds \ {f} : /\ firms'[g] = firms[g] /\ spaces'[g] = spaces[g]
                                     /\ entered'[g] = entered[g]
                                     /\ \A p \in Paths : files'[g][p] = files[g][p]
         /\ \A g : (HasSpace(g)' <=> HasSpace(g)) /\ (Registered(g)' <=> Registered(g))
         /\ firms' = firms /\ spaces' = spaces /\ entered' = entered
BY CanonicalSet DEF Types, Canonical, registry, HasSpace, Registered

LEMMA SoundCopies ==
  ASSUME RegistryAssumption, Types, Types', OneAtATime, Sound, NEW w \in Workers, OthersIdle(w),
         CloneTemplate(w) \/ CopyTemplate(w) \/ FinishCopy(w) \/ Scrub(w) \/ RollbackFile(w)
  PROVE  Sound'
<1>0. PICK f \in FirmIds : req[w].firm = f
  BY Placing DEF CloneTemplate, CopyTemplate, FinishCopy, Scrub, RollbackFile, At, Unplaced, Firm
<1>1. /\ req[w].at \in {"clone", "copy", "copying", "scrub", "unlink"} /\ req[w].how = "provision"
      /\ Halfway(w) /\ UNCHANGED <<registry, entered>>
  BY DEF CloneTemplate, CopyTemplate, FinishCopy, Scrub, RollbackFile, At, Sound, Halfway, Making
<1>2. \A g \in FirmIds \ {f} : Apart(w, g)
  BY <1>0 DEF Apart
<1> DEFINE file == Canonical(f)
           scrubbed == [file EXCEPT !.seeds = FALSE]
<1>3. file \in TenantFile
  BY CanonicalFile DEF Types
<1>4. CASE UNCHANGED files /\ Fail(w)
  <2>1. OthersStay(w) /\ Same(w) /\ req'[w].at = "undo" /\ req'[w].how = "provision"
    BY <1>1, <1>4, Failed
  <2>2. Halfway(w)' /\ ~Apart(w, f)'
    BY <1>0, <2>1 DEF Halfway, Making, Opening, Apart, Unplaced, Same
  <2> QED
    BY <1>1, <1>2, <1>4, <2>1, <2>2, SoundOn DEF registry
<1>5. CASE UNCHANGED files /\ Goto(w, "copy") /\ req[w].at = "clone"
  <2>1. OthersStay(w) /\ Same(w) /\ req'[w].at = "copy" /\ req'[w].how = "provision"
    BY <1>1, <1>5, Moved
  <2>2. ~HasSpace(f)'
    BY <1>0, <1>1, <1>5 DEF Halfway, HasSpace, registry
  <2>3. Halfway(w)' /\ ~Apart(w, f)'
    BY <1>0, <2>1, <2>2 DEF Halfway, Making, Opening, Apart, Unplaced, Same
  <2> QED
    BY <1>1, <1>2, <1>5, <2>1, <2>3, SoundOn DEF registry
<1>6. CASE CopyTemplate(w) \/ FinishCopy(w)
  <2> DEFINE ended == [TemplateCopy EXCEPT !.by = file.by \ {w}]
  <2>1. PICK new \in TenantFile, label \in {"copying", "scrub"} :
           /\ SetFile(w, new) /\ Goto(w, label) /\ req[w].at \in {"copy", "copying"}
           /\ label = "copying" => new.state = "copying" /\ w \in new.by
           /\ label = "scrub" => new.state = "whole" /\ new.work = 0
    <3>1. CASE CopyTemplate(w)
      <4>1. SetFile(w, Truncated(file, w)) /\ Goto(w, "copying") /\ req[w].at = "copy"
        BY <1>0, <3>1 DEF CopyTemplate, At, Firm
      <4>2. /\ Truncated(file, w) \in TenantFile /\ Truncated(file, w).state = "copying"
            /\ w \in Truncated(file, w).by
        BY <1>3, FileValues DEF Truncated, NoFile
      <4> QED
        BY <4>1, <4>2
    <3>2. CASE FinishCopy(w)
      <4>1. file.state = "copying" /\ w \in file.by /\ req[w].at = "copying"
        BY <1>0, <1>1, <3>2 DEF FinishCopy, At, Halfway
      <4>2. SetFile(w, ended) /\ Goto(w, "scrub")
        BY <1>0, <3>2, <4>1 DEF FinishCopy, Firm
      <4>3. TemplateCopy \in TenantFile /\ TemplateCopy.state = "whole" /\ TemplateCopy.work = 0
        BY FileValues DEF TemplateCopy, NoFile
      <4>4. /\ ended \in TenantFile /\ ended.state = "whole"
            /\ ended.work = 0
        <5> DEFINE template == TemplateCopy
        <5>1. /\ template \in TenantFile /\ template.state = "whole" /\ template.work = 0
          BY <4>3
        <5> HIDE DEF template, file
        <5>2. file.by \ {w} \in SUBSET Workers
          BY <1>3 DEF TenantFile, FileRow
        <5>3. /\ [template EXCEPT !.by = file.by \ {w}] \in TenantFile
              /\ [template EXCEPT !.by = file.by \ {w}].state = "whole"
              /\ [template EXCEPT !.by = file.by \ {w}].work = 0
          BY <5>1, <5>2 DEF TenantFile, FileRow
        <5> QED
          BY <5>3 DEF template
      <4> HIDE DEF ended
      <4> QED
        BY <4>1, <4>2, <4>4
    <3> QED
      BY <1>6, <3>1, <3>2
  <2>2. OthersStay(w) /\ Same(w) /\ req'[w].at = label /\ req'[w].how = "provision"
    BY <1>1, <2>1, Moved
  <2>3. Canonical(f)' = new /\ ~HasSpace(f)'
    BY <1>0, <1>1, <2>1, SetOn DEF Halfway
  <2>4. Halfway(w)' /\ ~Apart(w, f)'
    BY <1>0, <2>1, <2>2, <2>3 DEF Halfway, Making, Opening, Apart, Unplaced, Same
  <2> QED
    BY <1>0, <1>1, <1>2, <2>1, <2>2, <2>4, SetOn, SoundOn
<1>7. CASE Scrub(w)
  <2>1. file.state = "whole" /\ file.work = 0 /\ ~HasSpace(f) /\ req[w].at = "scrub"
    BY <1>0, <1>1, <1>7 DEF Scrub, At, Halfway
  <2>2. SetFile(w, scrubbed) /\ Goto(w, "space")
    BY <1>0, <1>1, <1>7, <2>1 DEF Scrub, Firm
  <2>3. OthersStay(w) /\ Same(w) /\ req'[w].at = "space" /\ req'[w].how = "provision"
    BY <1>1, <2>2, Moved
  <2>4. /\ scrubbed \in TenantFile /\ scrubbed.state = "whole" /\ scrubbed.work = 0
        /\ ~scrubbed.seeds
    <3> HIDE DEF file
    <3> QED
      BY <1>3, <2>1 DEF TenantFile, FileRow
  <2> HIDE DEF scrubbed
  <2>5. Canonical(f)' = scrubbed /\ ~HasSpace(f)'
    BY <1>0, <1>1, <2>1, <2>2, <2>4, SetOn
  <2>6. Halfway(w)' /\ ~Apart(w, f)'
    BY <1>0, <2>3, <2>4, <2>5 DEF Halfway, Making, Opening, Apart, Unplaced, Same
  <2> QED
    BY <1>0, <1>1, <1>2, <2>2, <2>3, <2>4, <2>6, SetOn, SoundOn
<1>8. CASE RollbackFile(w)
  <2>1. SetFile(w, NoFile) /\ NoFile \in TenantFile /\ ~Registered(f) /\ Finish(w)
    BY <1>0, <1>1, <1>8, FileValues DEF RollbackFile, At, Halfway
  <2>2. ~Registered(f)' /\ ~HasSpace(f)'
    BY <1>0, <1>1, <2>1, SetOn, RowsThere DEF Types
  <2>3. OthersStay(w) /\ Halfway(w)' /\ Settled(f)'
    BY <2>1, <2>2, Finished, HalfwayIdle DEF Settled
  <2> QED
    BY <1>0, <1>1, <1>2, <2>1, <2>3, SetOn, SoundOn
<1> QED
  BY <1>4, <1>5, <1>6, <1>7, <1>8 DEF CloneTemplate, At

LEMMA SoundSpaces ==
  ASSUME RegistryAssumption, Types, Types', OneAtATime, Sound, NEW w \in Workers, OthersIdle(w),
         CreateWorkspace(w)
  PROVE  Sound'
<1>0. PICK f \in FirmIds : req[w].firm = f
  BY Placing DEF CreateWorkspace, At, Unplaced, Firm
<1>1. /\ req[w].at = "space" /\ req[w].how = "provision" /\ Halfway(w)
      /\ UNCHANGED <<firms, issued, files, cache, sessions, entered>>
  BY DEF CreateWorkspace, At, Sound, Halfway, Making
<1>2. \A g \in FirmIds \ {f} : Apart(w, g)
  BY <1>0 DEF Apart
<1>3. CASE UNCHANGED spaces /\ Fail(w)
  <2>1. OthersStay(w) /\ Same(w) /\ req'[w].at = "undo" /\ req'[w].how = "provision"
    BY <1>1, <1>3, Failed
  <2>2. Halfway(w)' /\ ~Apart(w, f)'
    BY <1>0, <2>1 DEF Halfway, Making, Opening, Apart, Unplaced, Same
  <2> QED
    BY <1>1, <1>2, <1>3, <2>1, <2>2, SoundOn
<1>4. CASE ~(UNCHANGED spaces /\ Fail(w))
  <2> DEFINE row == [path |-> "canonical", active |-> TRUE]
  <2>1. spaces' = [spaces EXCEPT ![f] = row] /\ Goto(w, "mark")
    BY <1>0, <1>4 DEF CreateWorkspace, Firm
  <2>2. row.path = "canonical" /\ row.active
    OBVIOUS
  <2> HIDE DEF row
  <2>3. spaces'[f] = row /\ \A g \in FirmIds \ {f} : spaces'[g] = spaces[g]
    BY <2>1 DEF Types, RegistryTables
  <2>4. OthersStay(w) /\ Same(w) /\ req'[w].at = "mark" /\ req'[w].how = "provision"
    BY <1>1, <2>1, Moved
  <2>5. Canonical(f)' = Canonical(f)
    BY <1>1 DEF Canonical
  <2>6. Halfway(w)' /\ ~Apart(w, f)'
    BY <1>0, <1>1, <2>2, <2>3, <2>4, <2>5 DEF Halfway, Making, Opening, Apart, Unplaced, Same
  <2> QED
    BY <1>1, <1>2, <2>3, <2>4, <2>6, SoundOn
<1> QED
  BY <1>3, <1>4

LEMMA SoundMarks ==
  ASSUME RegistryAssumption, Types, Types', OneAtATime, Sound, NEW w \in Workers, OthersIdle(w),
         MarkProvisioned(w)
  PROVE  Sound'
<1>0. PICK f \in FirmIds : req[w].firm = f
  BY Placing DEF MarkProvisioned, At, Unplaced, Firm
<1> DEFINE file == Canonical(f)
           new == [Opened(file, TRUE) EXCEPT !.marked = TRUE]
<1>1. /\ req[w].at = "mark" /\ req[w].how = "provision" /\ Halfway(w)
      /\ UNCHANGED <<registry, cache, sessions, entered>>
  BY DEF MarkProvisioned, At, Sound, Halfway, Making
<1>2. \A g \in FirmIds \ {f} : Apart(w, g)
  BY <1>0 DEF Apart
<1>3. /\ file \in TenantFile /\ file.state = "whole" /\ file.work = 0 /\ ~file.seeds
      /\ spaces[f].path = "canonical" /\ spaces[f].active
  BY <1>0, <1>1, CanonicalFile DEF Types, Halfway
<1>4. SetFile(w, new) /\ req' = [req EXCEPT ![w].at = "owner", ![w].how = "none"]
  BY <1>0, <1>1, <1>3 DEF MarkProvisioned, Openable, Firm
<1>5. OthersStay(w) /\ Same(w) /\ req'[w].at = "owner"
  BY <1>4, Turned
<1>6. Good(new) /\ new \in TenantFile /\ new.work = 0
  BY <1>3, OpenedMarked
<1>7. entered[f] = 0
  BY <1>0, <1>1 DEF OneAtATime, AtWork, Untouched
<1> HIDE DEF file, new
<1>8. /\ Canonical(f)' = new /\ entered' = entered /\ spaces' = spaces
      /\ \A g \in FirmIds \ {f} : /\ firms'[g] = firms[g] /\ spaces'[g] = spaces[g]
                                  /\ entered'[g] = entered[g]
                                  /\ \A p \in Paths : files'[g][p] = files[g][p]
  BY <1>0, <1>1, <1>4, <1>6, SetOn
<1>9. HasSpace(f)' /\ Settled(f)'
  BY <1>3, <1>6, <1>7, <1>8, SettledCanonical DEF Canonical
<1>10. Halfway(w)'
  BY <1>0, <1>5, <1>9, HalfwayOpen DEF Same, Opening
<1> QED
  BY <1>2, <1>5, <1>8, <1>9, <1>10, SoundOn

LEMMA SoundRollsBack ==
  ASSUME RegistryAssumption, Types, Types', Sound, NEW w \in Workers, OthersIdle(w), RollbackRows(w)
  PROVE  Sound'
<1>0. PICK f \in FirmIds : req[w].firm = f
  BY Placing DEF RollbackRows, At, Unplaced, Firm
<1>1. /\ req[w].at = "undo" /\ UNCHANGED <<issued, files, cache, sessions, entered>>
      /\ firms' = [firms EXCEPT ![f] = NoFirm]
      /\ spaces' = [spaces EXCEPT ![f] = NoSpace]
      /\ OthersStay(w) /\ Same(w) /\ req'[w].at = "unlink" /\ req'[w].how = req[w].how
  BY <1>0, Moved DEF RollbackRows, At, Firm
<1>2. \A g \in FirmIds \ {f} : Apart(w, g)
  BY <1>0 DEF Apart
<1>3. /\ firms'[f] = NoFirm /\ spaces'[f] = NoSpace
      /\ \A g \in FirmIds \ {f} : firms'[g] = firms[g] /\ spaces'[g] = spaces[g]
  BY <1>1 DEF Types, RegistryTables
<1>4. ~Registered(f)' /\ ~HasSpace(f)' /\ req[w].how = "provision"
  BY <1>1, <1>3 DEF Registered, HasSpace, Sound, Halfway, Making
<1>5. Halfway(w)' /\ ~Apart(w, f)'
  BY <1>0, <1>1, <1>4 DEF Halfway, Making, Opening, Apart, Unplaced, Same
<1> QED
  BY <1>1, <1>2, <1>3, <1>5, SoundOn

LEMMA SoundRepairs ==
  ASSUME RegistryAssumption, Types, Types', Sound, NEW w \in Workers, OthersIdle(w), RepairPath(w)
  PROVE  Sound'
<1>0. PICK f \in FirmIds : req[w].firm = f
  BY Placing DEF RepairPath, At, Unplaced, Firm
<1>1. /\ req[w].at = "path" /\ Halfway(w) /\ HasSpace(f) /\ Settled(f)
      /\ UNCHANGED <<firms, issued, files, cache, sessions, entered>>
  BY <1>0 DEF RepairPath, At, Sound, Halfway, Opening
<1>2. \A g \in FirmIds \ {f} : Apart(w, g)
  BY <1>0 DEF Apart
<1>3. /\ spaces[f].path \in Paths /\ Canonical(f) \in TenantFile /\ Ledger(f) \in TenantFile
      /\ spaces[f].path = "canonical" => Ledger(f) = Canonical(f)
  BY <1>1, RowsThere, CanonicalFile DEF Types, RegistryTables, SpaceRow, Ledger, FileTables
<1>4. Work(f, "canonical") = Canonical(f).work /\ Work(f, spaces[f].path) = Ledger(f).work
  BY <1>3 DEF Work, Canonical, Ledger, Paths
<1>5. CASE Work(f, "canonical") >= 1
  <2>1. spaces' = [spaces EXCEPT ![f].path = "canonical"] /\ Goto(w, "size")
    BY <1>0, <1>1, <1>5 DEF RepairPath, Firm
  <2>2. spaces[f].path = "canonical"
    BY <1>1, <1>3, <1>4, <1>5 DEF Settled, TenantFile, Paths
  <2>3. /\ spaces'[f].path = "canonical" /\ spaces'[f].active = spaces[f].active
        /\ \A g \in FirmIds \ {f} : spaces'[g] = spaces[g]
    BY <2>1 DEF Types, RegistryTables, SpaceRow
  <2>4. OthersStay(w) /\ Same(w) /\ req'[w].at = "size"
    BY <2>1, Moved
  <2>5. Settled(f)' /\ HasSpace(f)'
    BY <1>1, <2>2, <2>3, SettledStays, RowsThen DEF Registered
  <2>6. Halfway(w)'
    BY <1>0, <2>3, <2>4, <2>5 DEF Halfway, Making, Opening, Same
  <2> QED
    BY <1>1, <1>2, <2>3, <2>4, <2>5, <2>6, SoundOn
<1>6. CASE ~(Work(f, "canonical") >= 1)
  <2>1. UNCHANGED spaces /\ UNCHANGED registry
    BY <1>0, <1>1, <1>6 DEF RepairPath, Firm, registry
  <2>2. Settled(f)' /\ HasSpace(f)' /\ Ledger(f)' = Ledger(f)
    BY <1>1, <2>1, LedgersUnchanged DEF Ledger
  <2>3. CASE spaces[f].path = "canonical"
    <3>1. Goto(w, "size")
      BY <1>0, <1>1, <1>3, <1>4, <1>6, <2>3 DEF RepairPath, Firm
    <3>2. OthersStay(w) /\ Same(w) /\ req'[w].at = "size"
      BY <3>1, Moved
    <3>3. Halfway(w)'
      BY <1>0, <2>1, <2>2, <2>3, <3>2 DEF Halfway, Making, Opening, Same
    <3> QED
      BY <1>1, <1>2, <2>1, <2>2, <3>2, <3>3, SoundOn
  <2>4. CASE spaces[f].path = "moved"
    <3>1. Work(f, spaces[f].path) >= 1
      BY <1>1, <1>3, <1>4, <2>4 DEF Settled, TenantFile, FileRow
    <3>2. req' = [req EXCEPT ![w].at = "replace", ![w].copy = Ledger(f)]
      BY <1>0, <1>1, <1>6, <3>1 DEF RepairPath, Firm, Ledger
    <3>3. OthersStay(w) /\ Same(w) /\ req'[w].at = "replace" /\ req'[w].copy = Ledger(f)
      BY <3>2, Taken
    <3>4. Halfway(w)'
      BY <1>0, <2>1, <2>2, <2>4, <3>3 DEF Halfway, Making, Opening, Same
    <3> QED
      BY <1>1, <1>2, <2>1, <2>2, <3>3, <3>4, SoundOn
  <2> QED
    BY <1>3, <2>3, <2>4 DEF Paths
<1> QED
  BY <1>5, <1>6

LEMMA SoundReplaces ==
  ASSUME RegistryAssumption, Types, Types', Sound, NEW w \in Workers, OthersIdle(w),
         ReplaceCanonical(w)
  PROVE  Sound'
<1>0. PICK f \in FirmIds : req[w].firm = f
  BY Placing DEF ReplaceCanonical, At, Unplaced, Firm
<1> DEFINE copy == req[w].copy
<1>1. /\ req[w].at = "replace" /\ Halfway(w) /\ UNCHANGED <<registry, entered>>
      /\ SetFile(w, copy)
      /\ req' = [req EXCEPT ![w].at = "point", ![w].copy = NoFile]
  BY DEF ReplaceCanonical, At, Sound
<1>2. \A g \in FirmIds \ {f} : Apart(w, g)
  BY <1>0 DEF Apart
<1>3. copy \in TenantFile
  BY Placing DEF RequestRow
<1>4. /\ spaces[f].path = "moved" /\ spaces[f].active /\ Good(copy) /\ copy.work = entered[f]
      /\ HasSpace(f)
  BY <1>0, <1>1 DEF Halfway, Settled
<1>5. OthersStay(w) /\ Same(w) /\ req'[w].at = "point"
  BY <1>1, Taken
<1>6. /\ Canonical(f)' = copy /\ entered' = entered /\ spaces' = spaces
      /\ \A g \in FirmIds \ {f} : /\ firms'[g] = firms[g] /\ spaces'[g] = spaces[g]
                                  /\ entered'[g] = entered[g]
                                  /\ \A p \in Paths : files'[g][p] = files[g][p]
  BY <1>0, <1>1, <1>3, SetOn
<1>7. Halfway(w)' /\ ~Apart(w, f)'
  BY <1>0, <1>4, <1>5, <1>6 DEF Halfway, Making, Opening, Apart, Unplaced, Same
<1> QED
  BY <1>2, <1>5, <1>6, <1>7, SoundOn

LEMMA SoundPoints ==
  ASSUME RegistryAssumption, Types, Types', Sound, NEW w \in Workers, OthersIdle(w),
         PointAtCanonical(w)
  PROVE  Sound'
<1>0. PICK f \in FirmIds : req[w].firm = f
  BY Placing DEF PointAtCanonical, At, Unplaced, Firm
<1>1. /\ req[w].at = "point" /\ Halfway(w)
      /\ UNCHANGED <<firms, issued, files, cache, sessions, entered>>
  BY DEF PointAtCanonical, At, Sound
<1>2. \A g \in FirmIds \ {f} : Apart(w, g)
  BY <1>0 DEF Apart
<1>3. /\ spaces[f].path = "moved" /\ spaces[f].active /\ Good(Canonical(f))
      /\ Canonical(f).work = entered[f] /\ HasSpace(f)
  BY <1>0, <1>1 DEF Halfway, HasSpace, NoSpace
<1>4. spaces' = [spaces EXCEPT ![f].path = "canonical"] /\ Goto(w, "size")
  BY <1>0, <1>3 DEF PointAtCanonical, Firm
<1>5. /\ spaces'[f].path = "canonical" /\ spaces'[f].active = spaces[f].active
      /\ \A g \in FirmIds \ {f} : spaces'[g] = spaces[g]
  BY <1>4 DEF Types, RegistryTables, SpaceRow
<1>6. OthersStay(w) /\ Same(w) /\ req'[w].at = "size"
  BY <1>4, Moved
<1>7. HasSpace(f)' /\ Settled(f)'
  BY <1>1, <1>3, <1>5, SettledCanonical DEF Canonical
<1>8. Halfway(w)'
  BY <1>0, <1>5, <1>6, <1>7 DEF Halfway, Making, Opening, Same
<1> QED
  BY <1>1, <1>2, <1>5, <1>6, <1>7, <1>8, SoundOn

LEMMA SoundSizes ==
  ASSUME RegistryAssumption, Types, Types', Sound, NEW w \in Workers, OthersIdle(w), CheckSize(w)
  PROVE  Sound'
<1>0. PICK f \in FirmIds : req[w].firm = f
  BY Placing DEF CheckSize, At, Unplaced, Firm
<1> DEFINE file == Canonical(f)
           opened == Opened(file, TRUE)
<1>1. /\ req[w].at = "size" /\ Halfway(w) /\ UNCHANGED <<registry, cache, sessions, entered>>
      /\ HasSpace(f) /\ Settled(f) /\ spaces[f].path = "canonical"
  BY <1>0 DEF CheckSize, At, Sound, Halfway, Opening
<1>2. \A g \in FirmIds \ {f} : Apart(w, g)
  BY <1>0 DEF Apart
<1>3. /\ file \in TenantFile /\ Good(file) /\ file.work = entered[f] /\ spaces[f].active
  BY <1>1, CanonicalFile DEF Types, Settled, Ledger
<1>4. \/ UNCHANGED files /\ Goto(w, "reread")
      \/ SetFile(w, opened) /\ Finish(w)
  BY <1>0, <1>3 DEF CheckSize, Good, Openable, Firm
<1>5. CASE UNCHANGED files /\ Goto(w, "reread")
  <2>1. OthersStay(w) /\ Same(w) /\ req'[w].at = "reread"
    BY <1>5, Moved
  <2>2. Settled(f)' /\ HasSpace(f)'
    BY <1>1, <1>5, LedgersUnchanged
  <2>3. Halfway(w)'
    BY <1>0, <2>1, <2>2, HalfwayOpen DEF Same, Opening
  <2> QED
    BY <1>1, <1>2, <1>5, <2>1, <2>2, <2>3, SoundOn DEF registry
<1>6. CASE SetFile(w, opened) /\ Finish(w)
  <2>1. Good(opened) /\ opened \in TenantFile /\ opened.work = file.work
    BY <1>3, OpenedGood
  <2> HIDE DEF opened
  <2>2. /\ Canonical(f)' = opened /\ entered' = entered /\ spaces' = spaces
        /\ \A g \in FirmIds \ {f} : /\ firms'[g] = firms[g] /\ spaces'[g] = spaces[g]
                                    /\ entered'[g] = entered[g]
                                    /\ \A p \in Paths : files'[g][p] = files[g][p]
    BY <1>0, <1>1, <1>6, <2>1, SetOn
  <2>3. Settled(f)'
    BY <1>1, <1>3, <2>1, <2>2, SettledCanonical DEF Canonical
  <2> QED
    BY <1>2, <1>6, <2>2, <2>3, Finished, HalfwayIdle, SoundOn
<1> QED
  BY <1>4, <1>5, <1>6

LEMMA SoundRechecks ==
  ASSUME RegistryAssumption, Types, Types', Sound, NEW w \in Workers, OthersIdle(w),
         CheckFirm(w) \/ CheckWorkspace(w)
  PROVE  Sound'
<1>1. /\ req[w].at \in {"firm", "workspace"} /\ UNCHANGED <<issued, files, sessions, entered>>
      /\ \A g \in FirmIds : /\ firms'[g].portal = firms[g].portal
                            /\ spaces'[g].path = spaces[g].path
                            /\ spaces[g].active => spaces'[g].active
      /\ OthersStay(w)
      /\ \/ /\ Same(w) /\ req'[w].how = req[w].how
            /\ req'[w].at \in {"workspace", "open"}
         \/ req'[w].at = "idle" /\ req'[w].how = "none"
  BY Rechecked
<1>2. PICK f \in FirmIds : req[w].firm = f
  BY <1>1, Placing DEF Unplaced, Firm
<1>3. \A g \in FirmIds : Settled(g)
  BY <1>1, AllSettled DEF Opening
<1>4. \A g \in FirmIds : (Registered(g)' <=> Registered(g)) /\ (HasSpace(g)' <=> HasSpace(g))
  BY <1>1, RowsThere, RowsThen DEF Types
<1>5. \A g \in FirmIds : Settled(g)'
  BY <1>1, <1>3, <1>4, SettledStays
<1>6. HasSpace(f)'
  BY <1>1, <1>2, <1>4 DEF Sound, Halfway, Opening
<1>7. Halfway(w)'
  BY <1>1, <1>2, <1>5, <1>6, HalfwayOpen, HalfwayIdle DEF Same, Opening
<1> QED
  BY <1>1, <1>5, <1>7, SoundRests

\* The router opens the settled ledger of a firm, and it stays settled.
LEMMA SoundRoutes ==
  ASSUME RegistryAssumption, Types, Types', Sound, NEW w \in Workers, NEW f \in FirmIds,
         HasSpace(f), Settled(f), UNCHANGED <<registry, entered>>,
         \/ Route(w, f, [Routed(w, f) EXCEPT !.user = TRUE])
         \/ Route(w, f, Routed(w, f)) \/ Route(w, f, Left(w, f))
  PROVE  /\ Settled(f)' /\ HasSpace(f)'
         /\ \A g \in FirmIds \ {f} : /\ firms'[g] = firms[g] /\ spaces'[g] = spaces[g]
                                     /\ entered'[g] = entered[g]
                                     /\ \A p \in Paths : files'[g][p] = files[g][p]
<1> DEFINE p == spaces[f].path
           file == files[f][p]
           opened == Opened(file, FALSE)
           used == [Routed(w, f) EXCEPT !.user = TRUE]
<1>1. /\ p \in Paths /\ spaces[f].active /\ Good(file) /\ file.work = entered[f]
      /\ p = "moved" => file.work > 0 /\ files[f]["canonical"].state = "missing"
  BY RowsThere DEF Settled, Ledger, Canonical, Types, RegistryTables, SpaceRow
<1>2. Served(w, f) = p /\ p # "none" /\ file \in TenantFile
  BY <1>1, ServedPath DEF Paths, Types, FileTables
<1>3. /\ Touched(file) = file /\ opened \in TenantFile /\ Good(opened) /\ opened.work = file.work
  BY <1>1, <1>2, OpenedGood
<1>4. Routed(w, f) \in {file, opened} /\ Left(w, f) = file
  BY <1>2, <1>3 DEF Routed, Left
<1> HIDE DEF opened
<1>5. /\ Routed(w, f) \in TenantFile /\ Good(Routed(w, f)) /\ Routed(w, f).work = file.work
  BY <1>1, <1>2, <1>3, <1>4
<1>6. used \in TenantFile /\ Good(used) /\ used.work = file.work
  BY <1>5, RoutedUser DEF Good
<1> HIDE DEF used
<1>7. PICK new \in TenantFile : Good(new) /\ new.work = file.work /\ Route(w, f, new)
  BY <1>1, <1>2, <1>4, <1>5, <1>6 DEF used
<1> HIDE DEF file
<1>8. /\ files'[f][p] = new
      /\ \A g \in FirmIds, q \in Paths : g # f \/ q # p => files'[g][q] = files[g][q]
  BY <1>2, <1>7, Routing
<1>9. UNCHANGED <<firms, spaces, entered>> /\ HasSpace(f)'
  BY DEF registry, HasSpace
<1>10. Ledger(f)' = new
  BY <1>8, <1>9 DEF Ledger
<1>11. p = "moved" => Canonical(f)' = files[f]["canonical"]
  BY <1>8 DEF Canonical, Paths
<1>12. Settled(f)'
  BY <1>1, <1>7, <1>9, <1>10, <1>11 DEF Settled, file
<1> QED
  BY <1>8, <1>9, <1>12

LEMMA SoundServes ==
  ASSUME RegistryAssumption, Types, Types', OneAtATime, Sound, NEW w \in Workers, OthersIdle(w),
         EstablishSession(w) \/ \E s \in sessions : Request(w, s)
  PROVE  Sound'
<1>1. CASE EstablishSession(w)
  <2>1. PICK f \in FirmIds : req[w].firm = f
    BY <1>1, Placing DEF EstablishSession, At, Unplaced, Firm
  <2>2. HasSpace(f) /\ Settled(f)
    BY <1>1, <2>1 DEF EstablishSession, At, Sound, Halfway, Opening
  <2>3. /\ UNCHANGED <<registry, entered>> /\ Finish(w)
        /\ \/ Route(w, f, [Routed(w, f) EXCEPT !.user = TRUE]) \/ Route(w, f, Left(w, f))
    BY <1>1, <2>1 DEF EstablishSession, Unroutable, Left, Firm
  <2>4. \A g \in FirmIds \ {f} : Apart(w, g)
    BY <2>1 DEF Apart
  <2> QED
    BY <2>2, <2>3, <2>4, SoundRoutes, Finished, HalfwayIdle, SoundOn
<1>2. ASSUME NEW s \in sessions, Request(w, s) PROVE Sound'
  <2>1. PICK f \in FirmIds : s.firm = f
    BY DEF Types, SessionTables
  <2>2. HasSpace(f)
    BY <2>1 DEF OneAtATime, Identity, Untouched
  <2>3. /\ req[w].at = "idle" /\ UNCHANGED <<registry, entered>>
        /\ Route(w, f, Routed(w, f)) \/ Route(w, f, Left(w, f))
    BY <1>2, <2>1 DEF Request, Unroutable, Left, At
  <2>4. Settled(f)
    BY <2>3, AllSettled DEF Unplaced
  <2>5. Settled(f)' /\ HasSpace(f)'
    BY <2>2, <2>3, <2>4, SoundRoutes
  <2>6. OthersStay(w) /\ Halfway(w)'
    BY <1>2, <2>1, <2>3, <2>5, WriteStarted, HalfwayIdle, HalfwayOpen DEF OthersStay, Opening
  <2>7. \A g \in FirmIds \ {f} : Apart(w, g)
    BY <2>3 DEF Apart, Unplaced
  <2> QED
    BY <2>2, <2>3, <2>4, <2>5, <2>6, <2>7, SoundRoutes, SoundOn
<1> QED
  BY <1>1, <1>2

LEMMA SoundWrites ==
  ASSUME RegistryAssumption, Types, Types', OneAtATime, Sound, NEW w \in Workers, OthersIdle(w),
         Write(w)
  PROVE  Sound'
<1>0. PICK f \in FirmIds : req[w].firm = f
  BY Placing DEF Write, At, Unplaced, Firm
<1>1. /\ req[w].at = "write" /\ HasSpace(f) /\ Settled(f) /\ UNCHANGED registry /\ Finish(w)
      /\ \A g \in FirmIds \ {f} : Apart(w, g)
  BY <1>0 DEF Write, At, Sound, Halfway, Opening, Apart
<1>2. PICK p \in Paths : req[w].path = p
  BY <1>1, Placing DEF Placed
<1> DEFINE file == files[f][p]
           more == [file EXCEPT !.work = @ + 1]
<1>3. /\ spaces[f].path = p /\ file \in TenantFile /\ Good(file) /\ file.work = entered[f]
      /\ p = "moved" => file.work > 0 /\ files[f]["canonical"].state = "missing"
      /\ spaces[f].active
  BY <1>0, <1>1, <1>2 DEF OneAtATime, AtWork, Settled, Ledger, Canonical, Types, FileTables
<1>4. /\ more \in FileRow => more \in TenantFile
      /\ Good(more) /\ more.work = file.work + 1
  <2> HIDE DEF file
  <2> QED
    BY <1>3 DEF TenantFile, FileRow, Good
<1>5. \/ files' = [files EXCEPT ![f][p] = more] /\ entered' = [entered EXCEPT ![f] = @ + 1]
      \/ files' = [files EXCEPT ![f][p] = file] /\ UNCHANGED entered
  <2>1. Touched(file) = file
    BY <1>3 DEF Good, Touched
  <2>2. \/ files' = [files EXCEPT ![f][p].work = @ + 1] /\ entered' = [entered EXCEPT ![f] = @ + 1]
        \/ files' = [files EXCEPT ![f][p] = file] /\ UNCHANGED entered
    BY <1>0, <1>2, <2>1 DEF Write, Firm
  <2>3. files' = [files EXCEPT ![f][p].work = @ + 1] => files' = [files EXCEPT ![f][p] = more]
    BY DEF Types, FileTables
  <2> QED
    BY <2>2, <2>3
<1> HIDE DEF file, more
<1>6. /\ files'[f][p] \in {file, more} /\ entered'[f] = files'[f][p].work
      /\ Good(files'[f][p]) /\ (files'[f][p].work > 0 \/ file.work = 0)
  <2>1. CASE files' = [files EXCEPT ![f][p] = more] /\ entered' = [entered EXCEPT ![f] = @ + 1]
    <3>1. files'[f][p] = more /\ entered'[f] = entered[f] + 1 /\ file.work \in Nat
      BY <1>3, <2>1 DEF Types, FileTables, WorkTables, TenantFile, FileRow, RegistryAssumption
    <3> QED
      BY <1>3, <1>4, <3>1
  <2>2. CASE files' = [files EXCEPT ![f][p] = file] /\ UNCHANGED entered
    <3>1. files'[f][p] = file /\ entered'[f] = entered[f] /\ file.work \in 0..MaxWork
      BY <1>3, <2>2 DEF Types, FileTables, TenantFile, FileRow
    <3> QED
      BY <1>3, <3>1 DEF RegistryAssumption
  <2> QED
    BY <1>5, <2>1, <2>2
<1>7. /\ \A g \in FirmIds, q \in Paths : g # f \/ q # p => files'[g][q] = files[g][q]
      /\ \A g \in FirmIds \ {f} : entered'[g] = entered[g]
  BY <1>5 DEF Types, FileTables, WorkTables
<1>8. UNCHANGED <<firms, spaces>> /\ HasSpace(f)'
  BY <1>1 DEF registry, HasSpace
<1>9. Ledger(f)' = files'[f][p] /\ (p = "moved" => Canonical(f)' = files[f]["canonical"])
  BY <1>3, <1>7, <1>8 DEF Ledger, Canonical, Paths
<1>10. Settled(f)'
  <2>1. spaces'[f].active /\ spaces'[f].path = p
    BY <1>3, <1>8
  <2>2. p = "moved" => files'[f][p].work > 0 /\ Canonical(f)'.state = "missing"
    BY <1>3, <1>6, <1>9 DEF TenantFile, FileRow
  <2> QED
    BY <1>6, <1>8, <1>9, <2>1, <2>2 DEF Settled
<1> QED
  BY <1>1, <1>7, <1>8, <1>10, Finished, HalfwayIdle, SoundOn

LEMMA SoundStartsImport ==
  ASSUME RegistryAssumption, Types, Types', Sound, NEW w \in Workers, OthersIdle(w),
         NEW f \in FirmIds, StartImport(w, f, FALSE)
  PROVE  Sound'
<1>1. /\ req[w].at = "idle" /\ HasSpace(f)
      /\ UNCHANGED <<firms, issued, cache, sessions, entered>>
      /\ spaces' = [spaces EXCEPT ![f].path = "canonical"]
  BY DEF StartImport, At
<1>2. Settled(f)
  BY <1>1, AllSettled DEF Unplaced
<1>3. /\ Canonical(f).state \in {"missing", "whole"} /\ spaces[f].active
  BY <1>1, <1>2, RowsThere
     DEF Settled, Ledger, Canonical, Good, Types, RegistryTables, SpaceRow, Paths
<1>4. Openable(Canonical(f)) /\ UNCHANGED files
  BY <1>3 DEF Openable, StartImport
<1>5. OthersStay(w) /\ req'[w].at = "backup" /\ req'[w].firm = f
  BY <1>4, ImportStarted
<1>6. /\ spaces'[f].path = "canonical" /\ spaces'[f].active = spaces[f].active
      /\ \A g \in FirmIds \ {f} : spaces'[g] = spaces[g]
  BY <1>1 DEF Types, RegistryTables, SpaceRow
<1>7. Canonical(f)' = Canonical(f)
  BY <1>4 DEF Canonical
<1>8. Halfway(w)' /\ ~Apart(w, f)'
  BY <1>3, <1>5, <1>6, <1>7 DEF Halfway, Making, Opening, Apart, Unplaced
<1>9. \A g \in FirmIds \ {f} : Apart(w, g)
  BY <1>1 DEF Apart, Unplaced
<1> QED
  BY <1>1, <1>4, <1>5, <1>6, <1>8, <1>9, SoundOn

LEMMA SoundImports ==
  ASSUME RegistryAssumption, Types, Types', OneAtATime, Sound, NEW w \in Workers, OthersIdle(w),
         BackupTenant(w) \/ ReplaceByLegacy(w) \/ ApplyMetadata(w)
  PROVE  Sound'
<1>0. PICK f \in FirmIds : req[w].firm = f
  BY Placing DEF BackupTenant, ReplaceByLegacy, ApplyMetadata, At, Unplaced, Firm
<1>1. /\ req[w].at \in {"backup", "import", "metadata"} /\ Halfway(w)
      /\ UNCHANGED <<registry, cache, sessions>>
      /\ \A g \in FirmIds \ {f} : Apart(w, g)
      /\ spaces[f].path = "canonical" /\ spaces[f].active
  BY <1>0 DEF BackupTenant, ReplaceByLegacy, ApplyMetadata, At, Sound, Halfway, Apart
<1>2. CASE ReplaceByLegacy(w)
  <2>1. /\ SetFile(w, LegacyFile) /\ entered' = [entered EXCEPT ![f] = LegacyWork]
        /\ LegacyFile \in TenantFile
        /\ OthersStay(w) /\ Same(w) /\ req'[w].at = "metadata"
    BY <1>0, <1>2, Taken, FileValues DEF ReplaceByLegacy, Firm
  <2>2. LegacyFile.state = "whole" /\ ~LegacyFile.seeds /\ LegacyFile.work = LegacyWork
    BY DEF LegacyFile, NoFile
  <2>3. /\ files'[f]["canonical"] = LegacyFile
        /\ \A g \in FirmIds \ {f}, q \in Paths : files'[g][q] = files[g][q]
    BY <1>0, <2>1, CanonicalSet DEF Types
  <2>4. entered'[f] = LegacyWork /\ \A g \in FirmIds \ {f} : entered'[g] = entered[g]
    BY <2>1 DEF Types, WorkTables
  <2>5. UNCHANGED <<firms, spaces>>
    BY <1>1 DEF registry
  <2>6. Halfway(w)' /\ ~Apart(w, f)'
    BY <1>0, <1>1, <2>1, <2>2, <2>3, <2>4, <2>5
       DEF Halfway, Making, Opening, Apart, Unplaced, Same, Canonical
  <2> QED
    BY <1>1, <2>1, <2>3, <2>4, <2>5, <2>6, SoundOn
<1>3. CASE ApplyMetadata(w)
  <2> DEFINE file == Canonical(f)
             new == [Opened(file, TRUE) EXCEPT !.marked = TRUE]
  <2>1. /\ file \in TenantFile /\ file.state = "whole" /\ ~file.seeds /\ file.work = entered[f]
    BY <1>0, <1>1, <1>3, CanonicalFile DEF ApplyMetadata, At, Halfway, Types
  <2>2. SetFile(w, new) /\ Finish(w) /\ UNCHANGED <<registry, entered>>
    BY <1>0, <1>3, <2>1 DEF ApplyMetadata, Openable, Firm
  <2>3. Good(new) /\ new \in TenantFile /\ new.work = file.work
    BY <2>1, OpenedMarked
  <2> HIDE DEF new, file
  <2>4. /\ Canonical(f)' = new /\ entered' = entered /\ spaces' = spaces
        /\ \A g \in FirmIds \ {f} : /\ firms'[g] = firms[g] /\ spaces'[g] = spaces[g]
                                    /\ entered'[g] = entered[g]
                                    /\ \A p \in Paths : files'[g][p] = files[g][p]
    BY <1>0, <2>2, <2>3, SetOn
  <2>5. Settled(f)'
    BY <1>1, <2>1, <2>3, <2>4, SettledCanonical DEF Canonical
  <2> QED
    BY <1>1, <2>2, <2>4, <2>5, Finished, HalfwayIdle, SoundOn
<1>4. CASE BackupTenant(w)
  <2> DEFINE copy == [Canonical(f) EXCEPT !.by = {}]
  <2>1. /\ UNCHANGED <<registry, files, entered>> /\ req[w].at = "backup"
        /\ req' = [req EXCEPT ![w].at = "import", ![w].copy = copy]
    BY <1>0, <1>4 DEF BackupTenant, At, Firm
  <2> HIDE DEF copy
  <2>2. OthersStay(w) /\ Same(w) /\ req'[w].at = "import"
    BY <2>1, Taken
  <2>3. Canonical(f)' = Canonical(f) /\ spaces' = spaces
    BY <2>1 DEF Canonical, registry
  <2>4. Halfway(w)' /\ ~Apart(w, f)'
    BY <1>0, <1>1, <2>1, <2>2, <2>3 DEF Halfway, Making, Opening, Apart, Unplaced, Same
  <2> QED
    BY <1>1, <2>1, <2>2, <2>4, SoundOn DEF registry
<1> QED
  BY <1>2, <1>3, <1>4

LEMMA SoundInit == RegistryAssumption /\ Types /\ Init => Sound
<1> SUFFICES ASSUME RegistryAssumption, Types, Init PROVE Sound
  OBVIOUS
<1>1. \A w \in Workers : Halfway(w)
  BY DEF Init, Idle, Halfway, Making, Opening
<1>2. CASE Fresh
  BY <1>1, <1>2 DEF Fresh, Sound, Settled, Registered, HasSpace
<1>3. ASSUME NEW p \in PortalFirms, Migrated(p) PROVE Sound
  <2> DEFINE file == [LegacyFile EXCEPT !.marked = TRUE, !.user = TRUE]
  <2>1. \A f \in FirmIds : f # 1 => ~Registered(f) /\ ~HasSpace(f)
    BY <1>3 DEF Migrated, Registered, HasSpace
  <2>2. /\ file.state = "whole" /\ file.marked /\ ~file.seeds /\ file.work = LegacyWork
        /\ NoFile.state = "missing"
    BY DEF LegacyFile, NoFile
  <2>3. ASSUME 1 \in FirmIds PROVE Settled(1)
    <3>1. /\ spaces[1].path = "moved" /\ spaces[1].active /\ entered[1] = LegacyWork
          /\ files[1]["moved"] = file /\ files[1]["canonical"] = NoFile
      BY <1>3, <2>3 DEF Migrated, Paths
    <3> HIDE DEF file
    <3>2. HasSpace(1) /\ LegacyWork > 0
      BY <3>1 DEF HasSpace, NoSpace, RegistryAssumption
    <3> QED
      BY <2>2, <3>1, <3>2 DEF Settled, Good, Ledger, Canonical
  <2> QED
    BY <1>1, <2>1, <2>3 DEF Sound, Settled
<1> QED
  BY <1>2, <1>3 DEF Init

LEMMA SoundSteps ==
  ASSUME RegistryAssumption, Types, Types', OneAtATime, Sound, NEW w \in Workers, OthersIdle(w),
         LaunchStep(w) \/ RequestStep(w) \/ ScriptStep(w) \/ ProvisionStepFails(w)
  PROVE  Sound'
<1>1. ~RemoveFile(w)
  BY DEF RemoveFile, At, Sound, Halfway
<1> QED
  BY <1>1, SoundLooks, SoundFails, SoundCreates, SoundCopies, SoundSpaces, SoundMarks,
     SoundRollsBack, SoundRepairs, SoundReplaces, SoundPoints, SoundSizes, SoundRechecks,
     SoundServes, SoundWrites, SoundStartsImport, SoundImports
     DEF LaunchStep, RequestStep, ScriptStep

LEMMA SoundAlways == MCSpec => [](schedule = "serial" => Sound)
<1>1. MCInit /\ Types => (schedule = "serial" => Sound)
  BY SoundInit, RegistryAssumption DEF MCInit
<1>2. ASSUME Types, Types', OneByOne => OneAtATime, schedule = "serial" => Sound, [MCNext]_MCvars
      PROVE  (schedule = "serial" => Sound)'
  <2> SUFFICES ASSUME schedule' = "serial" PROVE Sound'
    OBVIOUS
  <2>1. schedule = "serial" /\ Sound /\ OneByOne /\ OneAtATime
    BY <1>2 DEF MCNext, MCvars, OneByOne
  <2>2. CASE UNCHANGED MCvars
    <3>1. UNCHANGED <<firms, spaces, files, req, entered>>
      BY <2>2 DEF MCvars, vars
    <3>2. \A f \in FirmIds : Settled(f)' <=> Settled(f)
      BY <3>1 DEF Settled, Good, Registered, HasSpace, Ledger, Canonical
    <3>3. \A w \in Workers : Halfway(w)' <=> Halfway(w)
      BY <3>1 DEF Halfway, Settled, Good, Registered, HasSpace, Ledger, Canonical, Holders
    <3> QED
      BY <2>1, <3>1, <3>2, <3>3 DEF Sound, Apart
  <2>3. CASE MCNext
    <3>1. PICK w \in Workers :
             /\ OthersIdle(w)
             /\ LaunchStep(w) \/ RequestStep(w) \/ ScriptStep(w) \/ ProvisionStepFails(w)
      BY <2>1, <2>3 DEF MCNext
    <3> QED
      BY <1>2, <2>1, <3>1, SoundSteps, RegistryAssumption
  <2> QED
    BY <1>2, <2>2, <2>3
<1>3. Types /\ Types' /\ (OneByOne => OneAtATime) /\ (schedule = "serial" => Sound)
         /\ [MCNext]_MCvars => (schedule = "serial" => Sound)'
  BY <1>2
<1> QED
  BY <1>1, <1>3, RunsTyped, OneAlways, PTL DEF MCSpec

\* Between requests that run one at a time, whatever provisioning rolled back
\* and whatever a repair or a relocation moved: the file the registry names holds
\* every entry of work accepted since the latest import, and the one a session
\* opens is whole and free of the template's accounts (tenant_db_relocate.py;
\* provision.py). What an import replaced is outside this theorem.
THEOREM WorkIsServed == MCSpec => []WorkServed
<1>1. Types /\ (OneByOne => OneAtATime) /\ (schedule = "serial" => Sound) => WorkServed
  <2> SUFFICES ASSUME Types, OneAtATime, Sound, Quiet PROVE WorkServed
    BY DEF WorkServed, OneByOne
  <2>1. \A f \in FirmIds : Settled(f)
    BY DEF Sound, Quiet, Apart, At, Unplaced
  <2>2. ASSUME NEW f \in FirmIds, HasSpace(f) PROVE Work(f, spaces[f].path) = entered[f]
    BY <2>1, <2>2, RowsThere DEF Settled, Ledger, Work, Types
  <2>3. ASSUME NEW s \in sessions
        PROVE  LET file == files[s.firm][spaces[s.firm].path]
               IN  file.state = "whole" /\ ~file.seeds
    <3>1. s.firm \in FirmIds
      BY DEF Types, SessionTables
    <3>2. HasSpace(s.firm)
      BY <3>1 DEF OneAtATime, Identity, Untouched
    <3> QED
      BY <2>1, <3>1, <3>2 DEF Settled, Ledger, Good
  <2> QED
    BY <2>2, <2>3 DEF WorkServed
<1> QED
  BY <1>1, RunsTyped, OneAlways, SoundAlways, PTL
=============================================================================
