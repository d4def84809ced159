# Verification of the Nexal legal ledger

TLA+ models of the ledger program in `src/` (Python, Flask, SQLite), TLC
configurations that check them on small instances, and TLAPS proofs of the
invariants that hold for every instance.

Contents: [the system](#1-the-system) · [the modules](#2-the-modules) ·
[ClientLedger](#3-clientledger) · [Reconciliation](#4-reconciliation) ·
[OfficeAccount](#5-officeaccount) · [VatReturns](#6-vatreturns) ·
[TenantRegistry](#7-tenantregistry) · [PlatformBackups](#8-platformbackups) ·
[SsoLogin](#9-ssologin) · [DesktopBackups](#10-desktopbackups) ·
[References](#11-references) ·
[what the code does not do](#12-what-the-code-does-not-do) ·
[proofs](#13-proofs) · [what is not modelled](#14-what-is-not-modelled)

## 1. The system

A law firm keeps client money apart from its own. One SQLite database per firm
(tenant) holds both; `database.py` is the only writer, `app.py` the routes that
call it. In production several gunicorn processes serve requests
(`gunicorn.conf.py:11-13`, two workers, killed after a timeout); the desktop
build runs Flask with threads (`desktop_app.py:82`). There is no application
lock: processes share nothing but the database file.

What SQLite gives, and every module here assumes (external): a transaction is
atomic and durable, one writer at a time; a SELECT outside a transaction is a
transaction by itself; Python's `sqlite3` opens the transaction at the first
INSERT, UPDATE or DELETE, so a read before it is *not* protected, except after
an explicit `BEGIN IMMEDIATE`; a busy database is an `OperationalError`, which
most methods retry three times. Every method opens a connection of its own for
each of its steps. So **one action of a model is one database transaction of
one request**, and any other request may commit between two actions of the same
request. A killed worker or an exhausted retry is the action `Abort`: nothing
of the current transaction remains.

| Component | State | Operations | Correct when | Where |
|---|---|---|---|---|
| Client ledger and cashbook | `ledger_transactions`, `cashbook_transactions`, `office_fee_transfers`, `clients.matter_status` | post (ordinary, override), clear / decline a cheque, transfer a fee, reverse and reinstate, close / reopen a matter | both tables give every client the same net; a posting counts once or not at all; no client is overdrawn unnoticed; closed matters and locked months rest | `ClientLedger`, `ClientMoney` |
| Reconciliations, month locks | `reconciliations` (versioned), `month_locks` | record, lock, relock, unlock, start-up migration | one current version per month, a history that stands, locks that agree, figures that were live | `Reconciliation` |
| Office account | `office_cashbook` | income, expense, cheques, reversal | never below zero by an expense; reversed at most once, and completely | `OfficeAccount` |
| Office statement import | `office_import_staging`, `office_statement_history` | upload, review, approve, cancel, clear a row | a batch is imported whole, once or not at all | `OfficeAccount` |
| VAT | `vat_settings`, `vat_returns`, `vat_saved_months`, VAT columns of `office_cashbook` | set up, change cycle, edit, exclude, save month, draft, submit | a submitted quarter stands and was submitted whole; drafts are current; a reversal takes the VAT back | `VatReturns` |
| Transaction ids, client codes | `txn_id_year`, `txn_id_seq`, `client_code_seq` of `system_config`; the session cookie of the new-client form | reserve inside or before the write transaction, open and send the form, reset | a number names one thing | `References` |
| Single sign-on, portal bridge | `users`, each process's replay memory, the session cookie | validate a token, find, link, synchronise or create the account, bind a session, log out | a token works once, an account stays its person's, a person has one | `SsoLogin` |
| Platform registry, provisioning, routing, relocation | `firms`, `workspaces` of the platform database, the tenants' files, each process's cache | launch, provision, roll back, repair, import, route, suspend | a firm keeps its row and its file, work lands where it is looked for | `TenantRegistry` |
| Platform backup and restore | backup folders, manifests | run, prune, restore | the newest backup keeps its files; a restore is the run it names | `PlatformBackups` |
| Legacy backup service, its scheduler | encryption key, local and cloud folders, one thread per process | take, copy, prune, restore, every night | a file can be read; a process that stays up has a file every day | `DesktopBackups` |
| Login lockout, reset tokens; bank matching | `users`, `password_reset_tokens`; memory | none that a route reaches | – | section 14 |

How they interact: every posting checks a month lock that the reconciliation
page sets; a reconciliation's three figures are sums over the ledger and the
cashbook; a fee transfer writes the client books and the office's income in one
transaction; an import carries VAT columns into the office rows, which VAT
returns sum; a reversal of an office row asks the VAT return whether its quarter
is submitted; provisioning, repair, restore and the router replace or cache the
database file under all of them; sign-in resolves a firm by the registry and then
an account in the firm's own database.

What is hard: **checks before writes** (matter, month, balance, reversal status,
current version are all read in one transaction and relied on in a later one);
**two representations** of the same fact (ledger and cashbook rows, month lock
and row lock, fee rows and ledger legs); **chains** (reversals of reversals,
versions of versions); **restarts** (each process runs the migration while others
work, forgets the tokens it has seen and the encryption key in its environment);
**retries** after a partly finished operation; **files** that two processes create,
copy, replace or remove without a lock; **memory per process** (router cache,
replay memory, backup lock, scheduler) that another process does not see. The list of hazards, with
the line where each bites and the properties that would notice, is in
`PROJECT.json`.

## 2. The modules

| Module | What it composes with | Proofs |
|---|---|---|
| `ClientLedger`, abstract `ClientMoney`, mapping `ClientLedgerRefinement` | month locks as a set that may change at any time | `ClientLedgerProofs` |
| `Reconciliation` | the books as a figure per month that may change at any time | `ReconciliationProofs` |
| `OfficeAccount` | month locks; the submitted VAT quarters as a set that only grows | `OfficeAccountProofs` |
| `VatReturns` | the refusals of the office account as `Abort` | `VatReturnsProofs` |
| `TenantRegistry` | a tenant's ledger as the amount of work in its file | `TenantRegistryProofs` |
| `PlatformBackups` | the registry as registrations, suspensions and edits that may come at any time | `BackupProofs` |
| `SsoLogin` | the firm's status and database as a login that may fail | `SsoLoginProofs` |
| `DesktopBackups` | the ledger as the settings a backup depends on | `BackupProofs` |
| `References` | everything else a request checks as `Abort` | `ReferencesProofs` |

Each module over-approximates the others in this way, so an invariant of one
holds of all of them together. Fee transfers are rows of a table of their own
(`office_fee_transfers`, in `ClientLedger`); the funds check of an office expense
does not count them (`database.py:2917-2930`), so the two modules share no sum.
`VatReturns` and `OfficeAccount` are two views of the table `office_cashbook`:
one keeps the columns a balance depends on, the other those a VAT return depends
on, and each leaves the other's checks out as a request that may be refused
(`Abort`). The refused request is also how `ClientLedger` and `OfficeAccount` see
a collision of the ids that `References` hands out.

One write is an exception: the route
`vat_edit_transaction` (`app.py:2810`), which no template offers, also sets the
`amount` of any office row, REVERSED ones included (`database.py:5266`).
`OfficeAccount` does not have it, so what it says of amounts (`ReversalsSound`,
`ImportsWhole`, `OverdraftCauses`) is said of rows not edited that way;
`VatReturns` has the edit and its effect on VAT.

Abstract specifications: `ClientMoney`, which the operations of `ClientLedger`
implement one request at a time; the promises of the other modules are stated on
their own state, as invariants and action properties.

**The runs.** Each module has one passing run, and three have one
that shows a disagreement with a text of the repository (section 12). Many promises
rest on a check made in one transaction and a write in another, and hold of
requests served one at a time only; others hold whatever interleaves. One run
asks both: the `MC` module of each passing run adds a variable, chosen in the
initial state and never changed (`oneByOne`, or `schedule` where there are more
than two cases), and restricts the next-state relation by it. A property named
`Serial...` is about the behaviours with `oneByOne`; all others are about every
behaviour, unless they name a schedule themselves. `MC` modules only restrict
`Next`, so they add no behaviour the model does not have.

| Run | States | Bounds |
|---|---|---|
| `client_ledger` | 513,332 | 2 workers, 2 clients, 2 dates in 2 months, 6 posting forms, 1 fee form; 4 rows one at a time, 3 interleaved |
| `reconciliation` | 258,520 | 2 workers, 4 versions; 2 months one at a time, 1 interleaved |
| `office_account` | 1,327,240 | 2 workers, 5 forms, 1 upload with 3 reviews, 2 tries, 3 rows |
| `vat_returns` | 1,762,361 | 2 workers, 2 cycles, 2 imports, 3 rows, 5 requests |
| `tenant_registry` | 2,100,980 | 2 processes, 1 portal firm, 2 platform ids, 2 entries of work, 1 in the imported ledger |
| `platform_backups` | 1,808,633 | 2 backup processes, 2 firms, 2 schedules, 3 runs, 1 edit per ledger |
| `sso_login` | 1,060,107 | 2 processes, 1 browser; 3 tokens of 2 people one at a time, 2 of one person interleaved; 3 accounts |
| `desktop_backups` | 2,263,962 | 2 processes, a day of 4 slots, 4 keys; 3 acts of the admin or of fate with one process, 2 with two |
| `references` | 2,135,221 | 2 workers, 2 years of 4 ids; 2 browsers, 3 codes |

Fairness is assumed in `DesktopBackups` alone (section 10): nothing in the rest of
the program makes a user press a button or an operator run a script, and a request
can always be aborted, so there is no liveness property elsewhere.

## 3. ClientLedger

Variables are tables: `ledger`, `cashbook` (sequences, a row's id is its
position, rows are never deleted), `fees`, `matter`, `lockedMonths`; `req[w]` is
the request that worker `w` serves, with the step it is at. Row fields are the
columns that any check or sum reads. Amounts are positive integers: the server
does not check the sign of an amount, the form's `min="0.01"` does, so this is
an assumption about the inputs (`FormsAssumption`).

| Actions | Code |
|---|---|
| `PostBegin`, `PostMonth`, `PostWrite`, `PostRefused` | `create_ledger_and_cashbook_transaction`: matter check, month check, then BEGIN IMMEDIATE with the funds check and both inserts |
| `FeeBegin`, `FeeFunds`, `FeeMonth`, `FeeWrite` | `create_transfer_fee_to_office`: four separate transactions |
| `ChequeBegin`, `ChequeMonth`, `ChequeWrite` | `update_cashbook_status` |
| `ReverseBegin`, `ReverseRead`, `ReverseWrite` | `reverse_ledger_transaction` |
| `CloseBegin`, `CloseWrite`, `Reopen` | `close_matter`, `reopen_matter`, `set_matter_status` |
| `LockMonth`, `UnlockMonth` | the effect of the reconciliation page on `month_locks` |
| `Abort` | a killed worker, an exhausted retry, an IntegrityError |

The sums are the SQL fragments of `database.py:26-46` and the five `_cursor_sum_*`
queries; ledger and cashbook each filter on their own columns, as the code does.

**Run.** `client_ledger`: two workers, two clients, two dates in two months, six
forms (receipt, later payment, transfer, payment cheque, receipt cheque,
override), one fee form.

- whatever interleaves, three rows: `TypeOK`, `BooksAgree`, `ChainSound`,
  `FeesFollowLedger`, and `DeficitCauses`, which lists the only ways a client's
  books can go below zero and shows that two ordinary payments can not. Three
  rows are enough for every pair of requests to race over a third row, and for a
  reversal of a reversal. The second client takes part one request at a time
  only: requests that race for different clients share no row.
- one at a time, four rows: `SerialCountedOnce` (`ReversedOnce`, `FeesMatch`) and
  `SerialChecksHold` (`LockedMonthsClosed`, `LockedFiguresCauses`,
  `ClosedMattersRest`, `ClearedFinal`, `FeeTransferFunded`): the promises that
  rest on a check before the write (section 12 says what becomes of them when
  requests interleave). `SerialClientMoney`: posting, reversing, reinstating,
  clearing and declining implement `ClientMoney`, where a posting is one thing
  that is counted in full or not at all and a fee is with the office exactly
  while it is out of the client's money. The refinement mapping
  (`ClientLedgerRefinement`) folds all legs of a chain onto the posting they go
  back to; four rows hold a posting reversed, reinstated and reversed again.

`MaxRows` bounds the tables (guard `Room`); with `MaxTogether` it is the only
bound on behaviour.

## 4. Reconciliation

Variables: `recs` (rows of `reconciliations`), `monthLocked`, `monthEnd` (the
client money at the end of each month as the three queries would compute it) and
`req`. By `BooksAgree` the ledger total, the cashbook total and the bank balance
are the same number at any moment, so a recorded row has one figure, and the
three reads of a lock differ only if a posting commits between them. (The bank
balance of a lock *is* computed from the cashbook, `app.py:2872`; only the first
recording takes it from the user.)

| Actions | Code |
|---|---|
| `RecordBegin`, `RecordCash`, `RecordCurrent`, `RecordWrite` | `new_reconciliation`, `create_reconciliation` |
| `LockBegin`, `LockCash`, `LockBank`, `LockCurrent`, `LockState`, `LockWrite`, `LockRefused` | `lock_month`, `lock_reconciliation_month` |
| `UnlockBegin`, `UnlockCurrent`, `UnlockWrite` | `unlock_reconciliation_month` |
| `BooksBegin`, `BooksWrite` | any posting, as a change of a month's end and all later ones |
| `Migrate` | `_migrate_reconciliation_versioning`, run by every process that opens the database |

**Run.** `reconciliation`: two workers, up to four rows.

- whatever interleaves, for one month: the versions of a month are a chain 1, 2,
  … with exactly the last one current (`VersionsChain`), whatever races and
  whenever a process restarts; what holds this together is the partial unique
  index, as the mutant without it shows.
- one at a time, for two months: `SerialRecordsAgree` (`LockAgreement`: the month
  lock and the row's agree; `VersionsDiffer`: a new version is never a copy of
  the one before) and `SerialLocksStand` (`SnapshotsStand`, `LockedAtLive`: a
  locked figure stands, and was the live one).

With two workers `LockAgreement` fails too (an unlock that read the row before a
relock replaced it); the comment at `database.py:1744` promises it only of
crashes, for which it holds, so it is not counted as a disagreement.

## 5. OfficeAccount

Variables: `office` (rows of `office_cashbook`; a row's id is its position, rows
are never deleted), `staging` (whether an upload is new, staged or gone),
`history` (for a recorded statement, its closing less its opening balance),
`lockedMonths`, `submitted` (quarters with a locked VAT return) and `req`.

| Actions | Code |
|---|---|
| `CreateBegin`, `CreateWrite`, `CreateRefused` | `create_office_transaction`: the month on a connection of its own, then BEGIN IMMEDIATE with the funds check of an expense and the insert |
| `StatusBegin`, `StatusMonth`, `StatusWrite` | `update_office_cashbook_status` (cheques) |
| `ClearBegin`, `ClearMonth`, `ClearWrite` | `clear_office_import_transaction`; its UPDATE names the status it expects |
| `ReverseBegin`, `ReverseVat`, `ReverseMonth`, `ReverseWrite` | `reverse_office_cashbook_transaction` |
| `Upload`, `CancelImport` | `create_office_import_batch`, `delete_office_import_staging` |
| `ApproveRead`, `ApproveDiscard` | `office_import_approve`: the staging is read, the reviewed rows collected; none kept is a cancel |
| `ApproveInsert`, `ApproveCleanup`, `ApproveBusy` | `approve_office_import_batch`: rows and statement history in one transaction, the deletion of the staging in a second, a locked database in either runs both again |
| `LockMonth`, `UnlockMonth`, `SubmitReturn` | other parts of the program |
| `Abort` | a killed worker, an exhausted retry |

What a user may keep, edit or leave uncleared on the review page is the constant
`Reviews`: any sequence of rows in date order, as the route sorts them. The
number of tries is the code's (`Retries`), small in the runs.

**Run.** `office_account`: two workers, two dates in two months, five forms
(income, an income cheque, an expense, a later expense, an expense cheque), one
upload with three reviews (nothing kept; one row tagged with a VAT quarter; a
receipt and an uncleared cheque), two tries, three rows. Three rows hold a batch
imported twice, or a row with two reversals, or two expenses that race for one
receipt.

- whatever interleaves: `ReversalsSound` (a reversal names an earlier row that
  is no reversal, undoes it exactly, and is never reversed or settled itself;
  a REVERSED row has a reversal), `ImportsWhole` (recorded statement and inserted
  rows agree, in the review's order, none is half imported), and `OverdraftCauses`: two expenses never spend the same money; the causes that
  remain are listed there.
- one at a time: `SerialReversedOnce` (a row is reversed at most once and then
  stays Cleared) and `SerialClosedRests` (`SubmittedRests`, `LockedMonthsTake`
  with an import, which looks at no month lock, as the one exception, and
  `GoneBatchRests`: an import finished or cancelled brings nothing more).

## 6. VatReturns

Variables: `settings` (the row of `vat_settings`: cycle and period start),
`rows` (the VAT columns of `office_cashbook`), `returns` (`vat_returns` by
quarter key: calculated boxes, boxes as shown or submitted, lock), `saved`
(`vat_saved_months`), `pages` (the return pages that browsers hold, with the form
they offer), `posted` (the boxes of every form sent, the measure for "in a posted
form") and `req`.

| Actions | Code |
|---|---|
| `ImportRead`, `ImportWrite`, `Clear` | `office_import_approve`: settings and quarter keys are read first, the rows inserted later; a pending row clears |
| `ReverseRead`, `ReverseVat`, `ReverseWrite` | `reverse_office_cashbook_transaction`: the compensating row has today's date and the original's VAT and key |
| `ExcludeBegin`, `ExcludeWrite` | `exclude_vat_transaction`, which looks at no return |
| `EditBegin`, `EditRow`, `EditVat`, `EditWrite` | `vat_edit_transaction`, `update_vat_transaction_fields` |
| `ContextSettings`, `ContextRows` | `_vat_quarter_context`, shared by the requests below |
| `ViewReturn`, `SaveDraft` | `vat_return`: opening the page of an open return drafts it; the page goes to the browser |
| `SubmitSettings`, `SubmitReturn`, `SaveDraft`, `SubmitLock`, `SubmitWrite` | `vat_return_submit`: the boxes of a page served at any time before, each left as it was or typed over, with the calculated one in the place of what is no number; a draft of the *quarter*, then the lock of the *key of the form* |
| `MonthReturn`, `MonthWrite` | `_save_vat_month_action` |
| `SetupRead`, `SetupScope`, `SetupReturn`, `SetupRows`, `SetupSave`, `SetupRecalc` | `vat_setup`: a change of cycle is refused while the current quarter has VAT not submitted; keys are recalculated in a transaction after the save |
| `Deactivate` | `deactivate_vat` |
| `Abort` | a killed worker, an exhausted retry, a refusal by a check of another module |

Dates are months, numbered on without years; a quarter is named by its last
month, as the code names it by its last day, and a cycle is the remainder of its
quarter ends divided by 3 (the tables of `lib/vat.py` are the three remainders).
Of the nine boxes it keeps 1 and 4: the others are 0, sums of these, or sums over
the same rows (6 and 7). Which quarter a page opens with is left open: a page or
a form may name any quarter of any cycle, as a page kept from before a change of
cycle does. The month in which a request is served is any of `Today`.

**Run.** `vat_returns`: two workers, two of the three cycles, two months to be
served in, a period start or none, two imports (a receipt with VAT; an uncleared
payment with VAT and a row without), edits to two amounts, one typed figure,
three rows; at most five requests. Besides `MaxRows` these are the only bounds. A
submission is sent from a page, so five requests hold activation, an import, a
page, and two that race for what it shows (two submissions; an edit or reversal
and a submission; another page and a submission), or a submission and one more
that could disturb it. When the bound is reached the system may stop, by the disjunct
`Done`; any other deadlock would be reported.

- whatever interleaves: `LockedReturnsStand` (no page, draft or edit touches a
  submitted return; only a second submission that passed its check before the
  first was stored replaces its boxes) and `DraftsFollow` (a box of an open draft
  is the one calculated with it or was in a form that was posted, whatever races
  and whoever dies). The form may be an old page's: see section 12.
- one at a time: `SerialReturnsStand`, which is `ClosedQuartersRest`,
  `SubmittedWhole` (a return of the cycle in force is submitted with the figures
  its rows have, nothing left to review) and `FiguresDrift`, which lists the only
  ways in which the rows of a submitted quarter come to give other figures than
  it was submitted with.

## 7. TenantRegistry

Variables: `firms`, `spaces` (rows of the platform database), `issued` (firm ids
drawn from `uuid4` so far), `files` (each firm's ledger file at its canonical path
and at a path a migration recorded), `cache` (each process's open `Database`
objects), `sessions`, `req`, and `entered` (how many entries the ledger has
accepted since its latest import, with those the import brought: the measure for
"no work is stranded"). A file is abstracted to whether it is missing, empty (what
`sqlite3.connect` leaves), being copied or whole, how much work it holds, which
processes have it open to copy the template into it, and three marks: the template's accounts, `provisioned_tenant`,
and the portal user's row. Firm ids stand for the values `uuid4` returns, in the
order it returns them, so they are `1..n`: an id beyond `issued` is one that nobody
has yet, which is all the code relies on. `"none"` is the model's mark of an absent
row, and no portal firm has that name.

| Actions | Code |
|---|---|
| `Launch`, `CheckSlug`, `LookupAgain` | `ensure_portal_firm_linked` |
| `CreateFirm`, `CloneTemplate`, `CopyTemplate`, `FinishCopy`, `Scrub`, `CreateWorkspace`, `MarkProvisioned`, `CreateOwner` | `provision_firm` |
| `RollbackRows`, `RollbackFile`, `ProvisionStepFails` | `_rollback_partial_provision`; a step that raises |
| `EnsureReady`, `RepairPath`, `ReplaceCanonical`, `PointAtCanonical`, `CheckSize`, `EnsureFile`, `RemoveFile`, `RereadWorkspace` | `ensure_firm_tenant_ready`, `repair_firm_tenant_database_path` |
| `CheckFirm`, `CheckWorkspace` | `resolve_active_portal_firm` |
| `EstablishSession`, `Request`, `Write` | `TenantRouter.get_database`, the session and a request of it |
| `FirmAccountStatus` | `api_ops_firm_account_status` |
| `StartRepair`, `StartImport`, `BackupTenant`, `ReplaceByLegacy`, `ApplyMetadata` | `repair_serene_sso.py`, `migrate_legacy_into_existing_tenant` |
| `Crash` | a process ends and is started again |

A clone looks for a file (`CloneTemplate`) and then opens its target, which
empties it (`CopyTemplate`), and writes it (`FinishCopy`): what another process
made of the file in between is overwritten. So it is with the removal of a bad
file (`EnsureFile`, `RemoveFile`). A process that has an unlinked file open writes
where nobody reads.

**Run.** `tenant_registry`; a behaviour has one of four schedules. *serial*:
requests and scripts one at a time, with steps that fail. *crashing*: the same,
and a process may end at any step. *racing*: the launches and requests of a new
firm interleave. *operating*: those of a migrated firm interleave with the
scripts. Two processes make every race of this code, which is always between one
step and another's check; two platform ids are a firm and the second one that a
launch would wrongly provision; two entries of work are the imported one and one
entered since. In *racing*, no request begins once the ledger holds an entry
(`NothingYet`): one entry is enough to lose.

- `IdentityKept` (serial, crashing): a firm with a session or with work stays the
  one registered for its portal firm.
- `WorkServed` (serial): between requests the file that the registry names holds
  all the work since the latest import and what that brought, through every
  provisioning, repair and relocation; and a signed-in firm's file has none of the
  template's accounts. After a crash between two steps neither need be so: a launch
  that ends after the copy and before the scrub leaves the template's accounts,
  which is why this is said of the serial schedule only. Of the work an import
  replaces it says nothing.
- `WorkLands` (serial, crashing): work lands in the file the registry names. A
  suspended firm is exempt: the router serves a cached `Database` whose
  workspace no longer resolves.
- `LossCauses`: (serial, crashing) a file loses work only to an import, and the
  import has a copy of that file; (racing, operating) the only steps in which a
  file loses work, or a firm with work its row: the rollback of an overtaken
  provisioning, a repair that judged the file before it was whole, a clone whose
  check was overtaken, a relocation, an import. It is about files: a crash between
  `ReplaceCanonical` and `PointAtCanonical` loses none, but leaves the ledger at two
  paths, and what is then entered at the old one is not in the copy.

## 8. PlatformBackups

Variables: `status`, `spaces`, `created` (the registry), `data` (each ledger as
its number of edits), `job` (each backup process's run in progress), `runs` (the
manifests, with the age of their files and whether they are still there) and
`restore`.

| Actions | Code |
|---|---|
| `StartBackup`, `BackupPlatform`, `ListFirms`, `BackupTenant`, `WriteManifest`, `ApplyRetention`, `BackupDies` | `BackupService.run_backup` |
| `NewDay` | the calendar: files get older |
| `StartRestore`, `RestorePlatform`, `RestoreTenant`, `RestoreStops`, `RestoreEnds`, `RestoreDies` | `restore_full`, `restore_platform`, `restore_tenant` |
| `CreateFirm`, `CreateWorkspace`, `UpdateFirmStatus`, `Edit` | what the servers do meanwhile, one commit each (`TenantRegistry` has the steps between) |

**Run.** `platform_backups`; three schedules. *window*: backups and restores one
at a time, the servers in between, two runs. *serving*: everything interleaves,
one run. *calendar*: daily and weekly runs of a settled platform over the days,
three runs. Daily files are kept for the day and weekly ones for one more, so
that files of both schedules pass their age within three runs.

- `ManifestsSound`: the newest manifest of a schedule has its files (retention
  runs after a manifest was written, and takes the schedule's own files only);
  and a successful run with nothing else under way holds exactly the ledgers that
  its copy of the registry has as active.
- `RestoreWhole` (window, calendar): a full restore that ends leaves registry and
  ledgers as they were copied, after any number of restores that stopped or died.
- `HalfRestoreCauses` (every schedule): a full restore that stops half-way does so
  because files were pruned or because the manifest names a firm that the run's
  own copy of the registry has no workspace for, one registered while the run was
  under way: the firms are listed after the registry was copied.

`LatestManifest` records that the file name decides, by schedule first and then by
a random run id; since the scripts accept any manifest, a restore here may name
any.

## 9. SsoLogin

Variables: `now` (seconds), `tokens` (what the Portal issued), `seen` (each
process's `_jti_seen`), `used` (how often each process accepted a token in its
time, the measure for "once"), `users`, `cookie` (a session is what the browser
holds, signed), and `at`, `req` of each process. Signatures, issuer, audience and
claims are taken as checked.

| Actions | Code |
|---|---|
| `IssueToken` | the Portal (external) |
| `StartLogin`, `RecordJti` | `validate_sso_token`, `_check_and_record_jti`: each reads the clock |
| `ResolveUser`, `LinkUser`, `SyncUser`, `ChooseName`, `InsertUser` | `resolve_portal_user`, `_sync_portal_user_roles`, `provision_portal_user`: a transaction each |
| `FinishLogin`, `LoginFails` | `handle_sso_login`: the session is copied before the last steps, and stays if one of them fails |
| `StartRequest`, `ServePage`, `ChangeRole`, `Deactivate`, `EndRequest`, `Logout` | `require_login`, `validate_sso_session_binding`, the admin's user pages |
| `Restart`, `Tick` | a process loses its memory; time |

**Run.** `sso_login`. One at a time, within one second: three launches of two
people whose addresses suggest the same user name, after two of them requests;
three launches hold an account made, linked or renamed, and a launch that finds
what the two before left. Interleaved, over two seconds: two launches of one
person, each deliverable any number of times to any process. Tokens are valid in
the second they are issued in (`TTL` 0), so both sides of the expiry are reached.

- `TokenSingleUse` (every behaviour): a process that keeps running accepts a token
  at most once before it expires. *Across* processes or restarts it may be
  accepted again: the memory is the process's own.
- `SerialOneAccount`: logins one at a time leave one account to a portal id and
  one to an address. Two at the same time may make two: neither column is unique.
- `AccountsKeepPerson` (every behaviour): an account linked to a person stays that
  person's; only a customer id gives way to the same person's user id, or the
  link of a login that was overtaken (`Overtaken`) by another of the account.

## 10. DesktopBackups

Variables: `slot` (time of day), `db` (the two settings of the ledger a backup
depends on, the encryption key and a custom folder, and whether a copy is being
written over the ledger or was broken off), `keys` (how many were
generated), `up`, `env` (the key in each process's environment), the folders
`local`, `onedrive`, `custom`, `job` (what each process does under its
`BACKUP_LOCK`), and `wait`, `lastRun` of each scheduler thread. A file carries the
key it was encrypted with and the settings in the copy, so that restoring an old
copy brings back the settings it had.

| Actions | Code |
|---|---|
| `ReadKey`, `GenerateKey` | `_get_or_create_encryption_key` |
| `CreateNow`, `Snapshot`, `OpenFile`, `WriteFile`, `CopyToCloud`, `Cleanup` | `create_backup`, `cleanup_old_backups` |
| `StartRestore`, `OpenLedger`, `OverwriteLedger`, `RestoreLegacy` | `restore_backup` of an encrypted file; of an old unencrypted one |
| `StepFails` | any step of a backup or a restore raises: a full disk, a folder that is gone |
| `SetBackupLocation` | the backup page |
| `Wake`, `Tick` | the thread of `start_backup_scheduler`; five minutes |
| `Start`, `Stop` | a process and its environment |

Two processes do not share a lock: they may write the file of one minute's name
together (`OpenFile`, `WriteFile`), which leaves one file, the other or parts of
both. A restore copies *in place* over the ledger (`OpenLedger` empties it,
`OverwriteLedger` ends the copy): a failure or the end of the process in between
leaves a broken ledger (`BrokenOff`), and another process that reads the settings
meanwhile may find none (`MisreadStep`), for `_get_config` swallows the error.

**Run.** `desktop_backups`; four schedules. *first*: one process from its first
backup, with failures, restarts, restores and a change of folder. *shared*: two
processes on a ledger that has a key. *night*: one process that nothing fails in,
while the admin takes backups at will. *faulty*: two processes from their first
backup, whose reads and writes of the settings fail as well, and legacy files;
of it only the types are claimed.

- `FilesReadable` (first, shared): through failures, restarts and restores every
  whole file holds a whole ledger under the key that the ledger has, until a
  process takes a backup of, or misses the key in, a ledger that a restore is
  copying over or was broken off over (`misread`). After such a reading it is not
  so: the next process generates a second key, or puts half a ledger into a whole
  file; `MCNext` therefore lets the backups under way end and the threads go on,
  but counts no further acts. In *faulty* it is not so either, and the schedule is there to keep those steps in the model: two
  processes that both find no key generate one each and the later one is stored;
  a failed read generates a second key over the first; a failed write leaves the
  key in the environment only, gone with the process.
- `NightlyBackup` (night): if a process stays up from some time on, again and
  again there is a whole file of the day.

**Fairness**: weak fairness of `Tick`, of each `Wake` and of each `BackupStep`.
Time passes; a thread that sleeps five minutes is scheduled before the next five
are over; and a backup that began goes on, its steps being file operations
without a wait (the lock is taken without blocking). None of the admin's actions
is fair, nor is `Start`: the property asks of a process that it stays up. A night
in which the thread finds the lock taken *counts as run* (`Wake`); what makes the
property hold is that the backup that held the lock is one of the day.

## 11. References

Variables: `year`, `counter` (`txn_id_year`, `txn_id_seq`), `rows` (the ids in each
table), `codeSeq`, `clients`, `cookie` (`reserved_client_code` in each browser's
session) and `req`. A request that reserves its ids first inserts at least one row
and reserves one id for each, however many they are.

| Actions | Code |
|---|---|
| `InsertLocked` | `create_ledger_and_cashbook_transaction`, `create_office_transaction`, `approve_office_import_batch`: id and rows under one write lock |
| `Reserve`, `ReadYear`, `ReadSeq`, `WriteCounter`, `InsertReserved` | `reserve_next_transaction_id` as a fee transfer or a reversal calls it: two reads that lock nothing, a write, and the rows later |
| `OpenForm`, `SubmitForm`, `ReadCodeSeq`, `ReadCodes`, `WriteCodeSeq`, `CreateClient`, `CreateFails`, `AnswerCreated` | `new_client`, `reserve_next_client_code`, `create_client`, the session cookie |
| `Busy`, `Abort`, `NewYear`, `Reset` | a locked database, a lost answer, the calendar, `full_system_reset` |

**Run.** `references`: a behaviour is about ids or about codes, which share no
state but the reset. Ids: one at a time with resets, or interleaved without, until
a reservation is overtaken, where the behaviour ends (so `CHECK_DEADLOCK` is off);
four ids a year hold a reservation of three and one more. Codes: one at a time, two
browsers, so that one holds a code through the requests of the other.
`NumbersUnique`: no two rows have one id and none has an id the counter is still to
give; no two forms hold one code, nor a form the code of another's client. What
makes it end is part of the statement: an overtaken reservation (section 12), and
for codes a reset that deletes the clients while forms are open.

## 12. What the code does not do

Each `*_viol_*` run checks one statement of a docstring, template or document
and TLC finds it violated; `PROJECT.json` quotes the line.

- `ReversedOnce` (two requests at once): a reversal reads that the row is active
  and writes later, naming only the id, so two reversals of one row both write.
- `StatementsMatch` (one user): the rows of a statement are committed, the
  deletion of its staging finds the database locked, and the retry inserts them
  again; or the worker dies between the two commits and the user, who still sees
  the import waiting, approves it again.
- `ReversalNeutral` (one user): a row reversed in its own quarter leaves the
  boxes, its compensating entry stays in them, and the VAT is taken back twice.

The models have further behaviours that differ from what a text or a name says;
they are described here and have no run of their own:

- Reversing a declined cheque twice makes it count: every leg of a reversal is
  Cleared (`database.py:4119`), while `SRA_COMPLIANCE_DOCUMENTATION.md:196` says
  that declined transactions never affect balances.
- A matter closed at a zero balance (`app.py:896`) still has its pending cheques
  cleared and its rows reversed, and then holds money while closed.
- A lock rewrites the figures of a row that another lock has closed since it was
  read (`database.py:1680`; `templates/reconciliation.html:484`).
- A transaction id, "Never reused" by `database.py:2057`, is reused when a
  reservation reads the counter, another request moves it, and the first writes
  what it computed: the counter goes back and its ids are given out again. The
  UNIQUE columns then refuse rows, so later postings fail until the counter has
  passed the ids that exist.
- A dry run of the legacy import points the registry at the canonical path
  (`legacy_tenant_import.py:374`). A firm whose ledger lies elsewhere is then
  served the canonical file, and a repair no longer looks at the old path unless
  it is asked to scan the whole platform.
- The import proper does the same and then copies the canonical file, if there is
  one (`legacy_tenant_import.py:293`, `:387`), while `migrate_serene_production.py:81`
  says that it creates a backup first: the ledger such a firm had stays behind at a
  path that nothing names, and no copy of it is made.
- A submission saves a draft with the boxes of its form before it locks the return
  (`app.py:2758`). If the page is older than a change to the rows, and the request
  dies between the two, the draft shows outdated boxes that nobody typed, and every
  page after keeps them as if they were overrides (`_vat_user_figures`).
- The backup key is "auto-generated on first backup" by `BUILD.md:101`. Whoever
  looks for it in a ledger that a restore is copying over (`backup_service.py:584`),
  or was broken off over, finds none and generates a second one; the files made
  before are then under a key that is stored nowhere.

Of VAT the model also shows behaviours that no text in the repository denies. An
exclusion is never refused, nor is an import into a submitted quarter or the edit
or reversal of a row without a key (`MayDrift` lists them). `needs_vat_re_review`,
which an edit sets, is never cleared, so a quarter with an edited row can no longer
be submitted. A change of cycle by deactivation and a new activation, or a worker
killed between `SetupSave` and `SetupRecalc`, leaves the keys of the old cycle:
such rows are in no return of the new one; conversely, after an ordinary change
a row of a submitted quarter is in a quarter of the new cycle again. A reversal
made in a later quarter keeps the original's key and has the new date: it is in
neither return.

The other `Serial...` properties rest on a check in one transaction and a write in
another, which other requests can overtake; no document promises more of them, so
they are stated for one request at a time. What stays true whatever interleaves is
what the runs check of every behaviour: `DeficitCauses` names the fee transfer
that was overtaken, the cheque that clears, the override and the back-dated payment
among the few ways into a deficit, `LockedFiguresCauses` the reversal as the only
way one user changes a locked month's figures, `LossCauses` the steps that lose
work. Hazards that only a `Serial...` property is about, or none, have a note in
`PROJECT.json` that says what is allowed.

## 13. Proofs

`ClientLedgerProofs`, `ReconciliationProofs`, `OfficeAccountProofs`,
`VatReturnsProofs`, `TenantRegistryProofs`, `BackupProofs`,
`SsoLoginProofs` and `ReferencesProofs` prove what the runs check for any workers,
clients, dates, forms, months, batches, reviews, cycles, imports, tokens, firms,
files, schedules, numbers and bounds that satisfy the modules' ASSUMEs. The invariants named in each paragraph
are of the proofs; the runs check what follows from them. A theorem about `Spec`
is about every interleaving. A theorem about `MCSpec` states a property
of the behaviours that the runs choose, most often those that serve requests one at
a time; the `MC` modules only restrict `Next` and bound it, so these theorems are
about instances of every size too.

**Requests one at a time.** The arguments for these share a shape. What a request
checked in one transaction is relied on in a later one, so the invariant says, of
the request under way, that what it checked *still holds* (`Checked`, `Fresh`,
`OrderInv`). Its own steps establish it; the steps of others would break it, and
there are none, because every other request is idle and an idle request claims
nothing. With that, the write is the one that a single transaction of checks and
writes would make.

**Sums.** Balances, boxes and fees are sums over tables, and `FunctionTheorems` has
no facts of the fold that computes them. The three modules about books therefore open
with what they need, the same lemmas in each, proved from the definition of
`SumFunctionOnSet`: the fold is a recursive function over the sets it
removes elements from, so it exists and is unique by induction on the size of the
set (`IterExists`, `IterUnique`), and then adding one element adds its value
(`SumAdd`), equal functions have equal sums (`SumSame`), elements of value zero do
not count (`SumSupport`), and a change at one element changes the sum by as much
(`SumChange`). The library's induction theorems take an operator and cannot be
instantiated here; `NumberInduction` and `SubsetInduction` state the same as facts
about *sets* of numbers and of subsets, and are proved from well-foundedness.

**ClientLedger.** `BooksAgree` says nothing about links, so it is not inductive.
The invariant `BooksInv` is: types, `PairsAgree` (row *i* of the ledger and row
*i* of the cashbook are linked to each other and equal in every column the sums
read) and `RequestsNameRows` (a request under way names an existing row, needed
because its row is used two transactions after it was chosen). Each action keeps
it (`BooksInvariant`); `TypeCorrect` follows; and `Agreement` follows because
under `PairsAgree` the two functions that are summed are the same function.
Chains and fees have `ChainInv` on top of it: `BooksInv`, `ChainSound` and
`FeesFollowLedger`. A leg that is only inserted undoes nothing (`ChainKept`); a
reversal inserts a new row and of the old ones changes only the mark of the one
it undoes, so every other row is compensated as before (`ChainReverse`). The fee
row a reversal adds needs `ChainSound`: the parent of the new leg is an older row,
whose own fee is the one taken back (`FeesReverse`). `ChainsSound` and
`FeesFollow` hold for chains of any length.
`OverdrawnOnlyBy` (`DeficitCauses`) is an action property: a balance that was not
negative and is, fell by what the step wrote (`NetAdds`, `DeltaIs`), and each
writer is taken in turn. An ordinary payment is inserted under its write lock, so
its own check read the balance it lowers (`InsertOverdraws`); if the balance falls
below zero at a *later* date only, the payment was back-dated (`LaterRows`).

One at a time (`SerialSpec`), `SerialInv` adds to `ChainInv`: `AllChecked`;
`ReversedOnce`; `DepthParent` (a row is a leg exactly if its depth is not zero);
`OneTip` (of the rows that go back to one posting no two are active);
`FeeRowsCleared` (the cashbook rows behind fees are cleared and no cheques, so no
later request settles them); and `AllBalanced` (for every client, and for every
posting with its chain of legs, the office's fees are the payments in the client's
books). With it a posting counts once or not at all: what `Origin` is of a row
follows by induction along the rows (`RootIs`, `OriginIs`), no write moves an old
row to another posting (`OriginOld`), and turning a leg turns the one posting it
goes back to (`HeldTurns`). `CountedOnce`, `ChecksHold` and
`OneByOneIsMoney`, the refinement of `ClientMoney`, follow: initial states map to
initial states, and every step of `SerialNext` either records a posting (`Records`),
turns one on or off (`Turns`), or stutters (`MoneyStep`). `RunsCountOnce`,
`RunsKeepChecks` and `RunsKeepMoney` are the same for `MCSpec`.

**Reconciliation.** `VersionsChain` needs `MonthsCurrent` (a month with rows has
a current one) and `HeldRows` (a lock under way still names a row of its month
and the version it read): together they give that the row a lock archives is the
last one, hence that `version + 1` is new (`VersionsInvariant`, `OneHistory`,
`TypeCorrect`).
One at a time: `RecordsInv` is `LockAgreement`, `VersionsDiffer`, and two facts they
rest on: only a first version has never been locked (`FirstUnstamped`) and a month that is locked has been recorded (`LockedRecorded`). `Fresh` says that
the figures and row a lock has read are the live ones. Under `RecordsInv` the
start-up migration changes nothing (`MigrateRests`), so a restart may come between
any two steps. `RecordsAgree` and `LocksStand` follow.

**OfficeAccount.** `ReversalsSound` needs that a request under way, whose row was
chosen two or three transactions ago, still names a row that is no reversal
(`RequestsSound`); it does, because no handler changes `reversal_of` of an
existing row (`RowsKept`), and rows that may be settled are not Cleared, which
reversals are. The three ways in which the table changes have a lemma each
(`GrowSound`, `SettleSound`, `ReverseSound`), and `InsertSound` adds a whole
batch. `OfficeInvariant`, `ReversalsUndo` and `TypeCorrect` follow. Note what is
*not* claimed of interleaved requests: two reversals of one row, which can race,
are each sound.
`OverdrawnOnlyBy` (`OverdraftCauses`) goes like that of the client's books.
`ImportsAreWhole` needs `WholeInv`: beside `ImportsWhole`, that an approval which will not
discard its batch has rows to insert (`Keeping`). An
approval adds the rows of its own batch and the line of its history together
(`WholeInserted`); what others insert beside it leaves every other batch its rows
(`OthersStand`).
One at a time, `Checked` gives `ReversedOnceEach` and `ClosedStays`.

**VatReturns.** That a submitted return stands (`SubmittedStand`) needs no
invariant: only two steps write `returns` (`ReturnsWriters`), the draft's upsert
carries the condition that the return is open (`DraftStands`), and the other step
is the second submission that the property names (`SubmitStands`).
`DraftsFollowAlways` needs `DraftInv`: a draft is saved two transactions after it
was calculated, so the draft under way must itself follow its calculation or a
posted form (`DraftReady`), and the boxes that a submission carries through its
readings are of a form that was posted (`FormPosted`). An outdated calculation does
no harm then, for figures and calculation come from one reading. That the form
itself is up to date is not claimed and not so. `Shapes` says of a request only that it is a
record with the fields its next step reads. `ClosedForOneWorker` assumes that
all workers are the same (`OneWorker`). `Moves` is the frame that all three share: a
step moves its own request, and only the checking step brings a request to its write.
`VatTypes` has the types of everything (`VatInv`), with `Sound`: a request's figures
are natural numbers because they were summed over rows of natural numbers
(`FiguresAre`), and its row exists. One at a time (`LoneInv`), the readings of the
request under way are `Fresh`: its figures are those of the rows as they are. Steps
that write rows move the figures of a quarter only if they touch one of its rows
(`FiguresStay`), and a row of a submitted quarter is touched only through its empty
key (`DriftStep`): `ReturnsStandAlone`.

**SsoLogin.** That a token was accepted once does not say that it is remembered,
so `TokenSingleUse` is not inductive. `Remembered` adds: a token that a process
accepted was issued, and is among the ones it remembers or has expired; and the
token of a request about to be recorded was issued. The step that matters is
`SsoRecordJti`: the purge drops only what has expired, so a token accepted before
is refused, or has expired and is not counted. Time only makes more tokens
expired (`SsoTick`), and an issued token is never changed (`SsoIssueToken`).
`SingleUse` follows for any number of processes, tokens and seconds.
The accounts have an invariant of their own, `Accounts`. A login works over several
steps on an account it found and a name it chose, so `Requesting` says what each
step may still rely on: the token is issued, the account is a row, and a login
about to link read an id that was absent or was the customer id of the token's
person. Other steps keep it because tokens stay and rows are only added
(`OthersRequest`); the account found is a row because a non-empty set of numbers
has a least one (`LeastRow`); the unique user names survive an insert because the
insert itself looks again (`AccountsInsertUser`). `TypeCorrect` follows, and
`KeepPerson`, since only the step that links changes an id (`OnlyLinking`).
`OneAccountEach` (logins one at a time) needs `OneInv`, whose `Unmade` says what a
login has ruled out: about to link, choose a name or insert, that any account has
the id of its token; about to choose or insert, that any has the address; and about
to link, that any but the one it found has it.

**PlatformBackups.** `Backups` has four parts. `Types`: every table, manifest, run
in progress and restore. `RoomLeft` counts the runs begun with those recorded,
which is why `BackupAssumption` says the processes are finitely many; `TypeOK`'s
bound on the manifests follows. `Retention`: a later run of a schedule is no
older, and a process about to prune has recorded a run of that schedule today; so
the file it prunes, past its age, is not of the schedule's newest run
(`RetentionApply`). `FullRestore`: the entries a full restore has to do succeeded,
and the workspaces of the run's copy are in the registry, because a restore put
them there and servers only add some. `TypeCorrect`, `NewestKept` (the part `LastRunWhole` of
`ManifestsSound`) and `HalfRestores` follow.
Where runs and restores take turns with the servers, `OrderInv` says of the run
under way that its copy of the registry is the registry as it is and that its
entries are those of the active firms it has come to (`CopyInOrder`), of every
manifest that a success has an entry for exactly the active firms of its copy
(`RunsWhole`), and of a full restore under way that the registry is the run's copy
and each ledger it has come to is the run's (`RestoreInOrder`). A run that dies
leaves no manifest and a restore that dies no claim, so neither disturbs it.
`ManifestsStandAlone` and `RestoresArePut` follow.

**TenantRegistry.** `Types` is `TypeOK` with what it leaves out and the steps rely
on: `Placed` says that a request past the look-up has found or made a firm, and
`RowsWhole` that a workspace is deleted no later than its firm. `TypeCorrect`
follows. `LossesHaveCauses` (`LossCauses`): however the steps interleave, it needs no
more, for every step is taken in turn, and those not named only open a file, which
keeps its work (`OpenedFile`, `TouchedFile`; `StepLosses`). One at a time the steps
named must be shown to lose nothing but an import's: `Books` says that a firm that
accepted no work has none and that a relocation in progress has work in hand, and
`Steady` that a file about to be replaced holds no work, or a copy of it is kept
(`OneLoses`). Both are inductive with crashes.
One at a time, with crashes anywhere, `OneAtATime` gives `IdentityIsKept`. That a
firm with a session is the only one of its portal firm does not follow from itself:
a rollback deletes rows. So `Identity` adds that portal firms are unique, that ids
not yet issued are free, and that a firm without a workspace is `Untouched` (no
work, session or cached `Database`); and `AtWork`, of the request under way, that
what it provisions and may roll back is an untouched firm. After a crash in the
middle of a provisioning that is still so, which is why crashes do no harm. `AtWork`
also has that a write is about to go to the workspace's path unless the firm is
suspended, whence `WorkIsLanded`.
`WorkIsServed` needs to know what the file holds. `Settled` says of a firm no request
is at work on that its workspace names a good file with all the work, and that a
file at another path leaves none at the canonical one; `Halfway` says label by label
how far the request under way has come from one settled state to the next: what a
provisioning has copied and scrubbed, that a relocation has the file it moves in
its hand, that an import has the canonical path. `entered` starts anew with an
import, so the theorem is about what comes after one; what an import replaces is
the matter of `LossesHaveCauses` (of the canonical file there is a copy) and of
section 12 (of a file at another path there is none). Its invariant `Sound` is of the
*serial* schedule: a crash leaves a firm half-way, as section 7 says.

**References.** `TypeInv` adds to `TypeOK` that a request has as many ids as rows
when it inserts and fewer before (`Whole`), and that a code it read is a number that
a client may have. `TypeCorrect` follows for every interleaving; that the next code
is in range is a fact about the highest of a set of numbers (`Highest`).
`NumbersStayUnique` (`NumbersUnique`) has one invariant for ids and one for codes.
Ids (`IdsSound`): everything in a row or in the hands of a request has been `Given`
out by the counter; the counter only goes forward (`GivenStays`), since a
reservation that is not overtaken writes the successor of the counter as it is, in a
year that has begun; so its id is new (`NextIdNew`), and ids held by two requests
are `Apart`. Without `Apart` and `Unused` the uniqueness of rows is not inductive:
a reserved id is inserted several steps after it was taken, and the UNIQUE columns
compare the rows of one table only. A reset sets the counter back, which is sound
because it comes when nobody holds an id (`ResetIds`).
Codes (`CodesSound`): one request at a time, the code that was read is the counter's
(`Held`, `NextCodeRead`), hence no form's and no client's; and the code a form sends
stays its own until its client is made. The theorem is about any number of
browsers, rows per request, years and codes.

**DesktopBackups.** `BackupProofs` takes this module as an instance, `Desk`, beside
the platform's backups: the two share no state, so `Desk` has parameters and
variables of its own, and its theorems assume of the parameters what the module's
ASSUME does (`Desk!Parameters`). `DeskTypes` says of a folder that no two files have
one name, and of a cloud folder that none is open (a torn one may be there), which a copy taken while a second
process writes the file of that minute would break if the copy did not tear it
(`NamedSingle`, `FolderPlaced`); and that a job past its key has one (`HasKey`).
`DesktopTypeCorrect` follows for every interleaving and fault.
`BackupsStayReadable` (`FilesReadable`) has `OneKey`: the ledger's key, what the
environments hold, what files are encrypted with and *the key inside the copies that
they hold* are one. The last is what makes a restore harmless, as it replaces the
ledger's key with the copy's; a copy that is broken off leaves that key too,
where it can be read at all. Until a misreading (`misread`), a key is generated only where none is stored,
by the one process there is, when no file exists yet (`OneKeyGenerate`); and a
restore under way implies a stored key, since the file it was given has one, so it
never generates a second. A misreading is never forgotten
(`MisreadStays`), so the invariant need hold up to the first one only.

Only model-checked: `NightlyBackup`, which is liveness under fairness and beyond the
prover's reach. Nothing is proved of `ENABLED` either.

## 14. What is not modelled

*No state that another step reads, or no step that reaches it*: bank statement
matching (its routes are disabled stubs, `app.py:2929-2953`); login lockout,
recovery and reset tokens (their routes redirect to the Portal,
`app.py:551-560`); `create_client_with_auto_code`, `create_ledger_transaction`,
`create_cashbook_transaction`, `check_user_limit` and `lib/tenant_auth.py`, which
nothing calls; permissions and packages (static tables); configuration and health
routes; the audit log (best effort, after the commit); PDF, CSV and HTML output;
`app.js`, an earlier browser-only program that the application does not load;
launchers, installers and one-off migrations and resets.

*Inside the modelled parts*:

- `ClientLedger`, `Reconciliation`: references, descriptions and names, the
  `cleared_date` of a cheque (shown, never read by a check), soft deletion (used
  only by the one-off reset of January 2026 and by branches of the migration that
  `VersionsChain` shows unreachable).
- `OfficeAccount`: reading the CSV file and flagging duplicates, the
  balance-brought-forward receipt of a first import (a row that the recorded
  closing balance leaves out), the edit of an amount by the VAT edit route
  (section 2).
- `VatReturns`: the choice of the quarter a page opens with, reminders, history
  and export pages, description rules, the split of a gross amount into net and
  VAT and its recalculation for rows with empty VAT columns, boxes 6 and 7, a
  submission with an empty key, days within a month, and the month lock of a
  reversal (in `OfficeAccount`; here a refusal).
- `TenantRegistry`: the scan of the whole platform for a database to adopt and
  the remapping of forbidden paths, file permissions, the read-only checks of
  `isolation.py` and `data_integrity.py`. A `Database` keeps no connection open,
  so a file replaced under it is the one it reads next.
- `PlatformBackups`: checksums and zip tests (whether a file is there stands for
  both), a provisioning that is rolled back during a run.
- `SsoLogin`: password hashes, the cached package, the firm's database (a login
  may fail there), tracing.
- `DesktopBackups`: copies to a USB stick; the operating system's task
  (`task_scheduler.py`, `run_backup.py`), which calls the same `create_backup`.
- `References`: the numbering of rows older than the column, and what happens
  after a reservation was overtaken.
