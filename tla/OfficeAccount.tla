---------------------------- MODULE OfficeAccount ----------------------------
(***************************************************************************)
(* The firm's own account: office_cashbook with the requests that add to   *)
(* it, settle its cheques and reverse its rows, and the import of bank     *)
(* statements through office_import_staging (database.py, app.py).         *)
(*                                                                         *)
(* As in ClientLedger an action is one database transaction of a request.  *)
(* Rows are never deleted, so the table is a sequence and a row's id its   *)
(* position.  VAT columns appear only as the quarter a row is tagged with, *)
(* which a reversal checks.                                                *)
(***************************************************************************)
EXTENDS Integers, Sequences, Functions

CONSTANTS
    Workers,        \* processes or threads that serve requests
    Dates,          \* transaction dates, ordered as numbers
    MonthOf,        \* the calendar month of a date
    Forms,          \* the income and expense forms users may submit
    Batches,        \* statement uploads (each draws a fresh uuid)
    WithOpening,    \* uploads whose statement states an opening balance
    Reviews,        \* what the review of a batch may send to be approved
    Quarters,       \* VAT quarters
    NoBatch,        \* import_batch_id IS NULL
    NoQuarter,      \* vat_quarter_key IS NULL
    Retries,        \* DB_WRITE_RETRIES
    MaxRows         \* bound on the rows of office_cashbook

Kinds == {"Receipt", "Payment"}
Sources == {"Cheque", "Other"}
Statuses == {"Pending", "Cleared", "Declined"}
Amounts == Nat \ {0}

\* What office_add_income and office_add_expense read from their forms.
Form == [date : Dates, amount : Amounts, kind : Kinds, source : Sources]

\* One row of a review: ticked, perhaps edited, uncleared if so marked.
KeptRow == [date : Dates, amount : Amounts, kind : Kinds, source : Sources,
            status : {"Pending", "Cleared"}, quarter : Quarters \cup {NoQuarter}]

\* office_import_approve sorts the kept rows by date before it calls approve.
InDateOrder(kept) == \A i, j \in DOMAIN kept : i < j => kept[i].date <= kept[j].date

ASSUME DatesAssumption == Dates \subseteq Nat
ASSUME MonthsAssumption == MonthOf \in [Dates -> Nat]
ASSUME FormsAssumption == Forms \subseteq Form
ASSUME BatchesAssumption == NoBatch \notin Batches /\ WithOpening \subseteq Batches
ASSUME QuartersAssumption == NoQuarter \notin Quarters
ASSUME ReviewsAssumption ==
    \A b \in Batches : \A kept \in Reviews[b] : kept \in Seq(KeptRow) /\ InDateOrder(kept)
ASSUME BoundsAssumption == Retries \in Nat \ {0} /\ MaxRows \in Nat

Months == {MonthOf[d] : d \in Dates}

VARIABLES
    office,         \* office_cashbook
    staging,        \* whether a batch has rows in office_import_staging
    history,        \* office_statement_history: closing less opening balance
    lockedMonths,   \* month_locks rows with locked = 1
    submitted,      \* quarters whose vat_returns row is locked
    req             \* the request each worker is serving

tables == <<office, staging, history, lockedMonths, submitted>>
vars == <<office, staging, history, lockedMonths, submitted, req>>

-----------------------------------------------------------------------------
OfficeRow == [date : Dates, amount : Amounts, kind : Kinds, source : Sources,
              status : Statuses, batch : Batches \cup {NoBatch},
              quarter : Quarters \cup {NoQuarter},
              reversed : BOOLEAN, of : Nat, depth : Nat]

NoReq == [op |-> "none"]

CreateReq == [op : {"create"}, at : {"write"}, form : Form]
StatusReq == [op : {"status"}, at : {"month", "write"},
              row : Nat, to : {"Cleared", "Declined"}]
ClearReq == [op : {"clear"}, at : {"month", "write"}, row : Nat]
ReverseReq == [op : {"reverse"}, at : {"vat", "month", "write"}, row : Nat, date : Dates]
ApproveReq == [op : {"approve"}, at : {"discard", "insert", "cleanup"},
               batch : Batches, kept : Seq(KeptRow), tries : 1..Retries]

Request == {NoReq} \cup CreateReq \cup StatusReq \cup ClearReq \cup ReverseReq \cup ApproveReq

-----------------------------------------------------------------------------
(* The balance of office_cashbook, the part of get_office_balance that the  *)
(* requests of this module change.                                          *)

UpTo(d) == {e \in Dates : e <= d}

Sign(kind) == IF kind = "Receipt" THEN 1 ELSE -1

Counts(i) ==
    /\ office[i].status = "Cleared"
    /\ ~office[i].reversed
    /\ office[i].depth % 2 = 0

OfficeNet(S) ==
    SumFunction([i \in DOMAIN office |->
        IF office[i].date \in S /\ Counts(i) THEN Sign(office[i].kind) * office[i].amount ELSE 0])

\* What a sequence of rows adds to the balance that a statement shows.
StatementNet(rows) ==
    SumFunction([k \in DOMAIN rows |-> Sign(rows[k].kind) * rows[k].amount])

MonthUnlocked(d) == MonthOf[d] \notin lockedMonths

Opposite(kind) == IF kind = "Receipt" THEN "Payment" ELSE "Receipt"

Room(n) == Len(office) + n <= MaxRows

-----------------------------------------------------------------------------
Idle(w) == req[w] = NoReq

At(w, op, step) == req[w].op = op /\ req[w].at = step

Proceed(w, ok, step) ==
    /\ req' = [req EXCEPT ![w] = IF ok THEN [@ EXCEPT !.at = step] ELSE NoReq]
    /\ UNCHANGED tables

Finish(w) == req' = [req EXCEPT ![w] = NoReq]

Init ==
    /\ office = <<>>
    /\ staging = [b \in Batches |-> "new"]
    /\ history = <<>>
    /\ lockedMonths = {}
    /\ submitted = {}
    /\ req = [w \in Workers |-> NoReq]

-----------------------------------------------------------------------------
(* create_office_transaction: income or expense. The month is checked on a  *)
(* connection of its own; the funds check of an expense and the insert are  *)
(* one BEGIN IMMEDIATE transaction.                                         *)

CreateBegin(w) ==
    \E f \in Forms :
        /\ Idle(w) /\ Room(1)
        /\ MonthUnlocked(f.date)
        /\ req' = [req EXCEPT ![w] = [op |-> "create", at |-> "write", form |-> f]]
        /\ UNCHANGED tables

\* Mutant: the balance before the expense is looked at, not the one after it.
Affordable_Before(f) == f.kind = "Payment" => OfficeNet(UpTo(f.date)) >= 0

Affordable(f) == f.kind = "Payment" => OfficeNet(UpTo(f.date)) >= f.amount

NewRow(f) ==
    [date |-> f.date, amount |-> f.amount, kind |-> f.kind, source |-> f.source,
     status |-> IF f.source = "Cheque" THEN "Pending" ELSE "Cleared",
     batch |-> NoBatch, quarter |-> NoQuarter, reversed |-> FALSE, of |-> 0, depth |-> 0]

CreateWrite(w) ==
    LET f == req[w].form IN
    /\ At(w, "create", "write")
    /\ Room(1)
    /\ Affordable(f)
    /\ office' = Append(office, NewRow(f))
    /\ Finish(w)
    /\ UNCHANGED <<staging, history, lockedMonths, submitted>>

CreateRefused(w) ==
    /\ At(w, "create", "write")
    /\ ~Affordable(req[w].form)
    /\ Finish(w)
    /\ UNCHANGED tables

-----------------------------------------------------------------------------
(* update_office_cashbook_status: a cheque is cleared or declined.          *)

StatusChangeAllowed(row, to) ==
    /\ row.source = "Cheque"
    /\ row.status # to
    /\ ~(row.status = "Cleared" /\ to = "Declined")

StatusBegin(w) ==
    \E i \in DOMAIN office, to \in {"Cleared", "Declined"} :
        /\ Idle(w)
        /\ StatusChangeAllowed(office[i], to)
        /\ req' = [req EXCEPT ![w] = [op |-> "status", at |-> "month", row |-> i, to |-> to]]
        /\ UNCHANGED tables

StatusMonth(w) ==
    /\ At(w, "status", "month")
    /\ Proceed(w, MonthUnlocked(office[req[w].row].date), "write")

StatusWrite(w) ==
    /\ At(w, "status", "write")
    /\ office' = [office EXCEPT ![req[w].row].status = req[w].to]
    /\ Finish(w)
    /\ UNCHANGED <<staging, history, lockedMonths, submitted>>

-----------------------------------------------------------------------------
(* clear_office_import_transaction: an imported row marked uncleared in its *)
(* review is cleared, by an UPDATE that names the status it expects.        *)

ClearBegin(w) ==
    \E i \in DOMAIN office :
        /\ Idle(w)
        /\ office[i].batch # NoBatch
        /\ office[i].status = "Pending"
        /\ req' = [req EXCEPT ![w] = [op |-> "clear", at |-> "month", row |-> i]]
        /\ UNCHANGED tables

ClearMonth(w) ==
    /\ At(w, "clear", "month")
    /\ Proceed(w, MonthUnlocked(office[req[w].row].date), "write")

ClearWrite(w) ==
    /\ At(w, "clear", "write")
    /\ office' = [office EXCEPT ![req[w].row].status = IF @ = "Pending" THEN "Cleared" ELSE @]
    /\ Finish(w)
    /\ UNCHANGED <<staging, history, lockedMonths, submitted>>

-----------------------------------------------------------------------------
(* reverse_office_cashbook_transaction: the row, its VAT return and the     *)
(* month of the day are read in three transactions; a later one adds the    *)
(* compensating row and marks the original.                                 *)

\* Mutant: a reversed row may be reversed again.
Reversible_Again(row) == row.of = 0 /\ row.status = "Cleared"

Reversible(row) == row.of = 0 /\ ~row.reversed /\ row.status = "Cleared"

ReverseBegin(w) ==
    \E i \in DOMAIN office, today \in Dates :
        /\ Idle(w) /\ Room(1)
        /\ Reversible(office[i])
        /\ req' = [req EXCEPT ![w] =
              [op |-> "reverse", at |-> IF office[i].quarter = NoQuarter THEN "month" ELSE "vat",
               row |-> i, date |-> today]]
        /\ UNCHANGED tables

\* Mutant: the return's lock is not looked at.
ReverseVat_Unchecked(w) == At(w, "reverse", "vat") /\ Proceed(w, TRUE, "month")

ReverseVat(w) ==
    /\ At(w, "reverse", "vat")
    /\ Proceed(w, office[req[w].row].quarter \notin submitted, "month")

ReverseMonth(w) ==
    /\ At(w, "reverse", "month")
    /\ Proceed(w, MonthUnlocked(req[w].date), "write")

\* Mutant: the compensating row keeps the direction of the original.
Leg_SameKind(i, today) ==
    [date |-> today, amount |-> office[i].amount, kind |-> office[i].kind,
     source |-> office[i].source, status |-> "Cleared", batch |-> NoBatch,
     quarter |-> office[i].quarter, reversed |-> FALSE, of |-> i, depth |-> office[i].depth + 1]

Leg(i, today) ==
    [date |-> today, amount |-> office[i].amount, kind |-> Opposite(office[i].kind),
     source |-> office[i].source, status |-> "Cleared", batch |-> NoBatch,
     quarter |-> office[i].quarter, reversed |-> FALSE, of |-> i, depth |-> office[i].depth + 1]

ReverseWrite(w) ==
    LET i == req[w].row IN
    /\ At(w, "reverse", "write")
    /\ Room(1)
    /\ office' = Append([office EXCEPT ![i].reversed = TRUE], Leg(i, req[w].date))
    /\ Finish(w)
    /\ UNCHANGED <<staging, history, lockedMonths, submitted>>

-----------------------------------------------------------------------------
(* The import of a statement: staged on upload, cancelled, or approved.     *)
(* approve_office_import_batch commits the rows with the statement history, *)
(* then deletes the staging in a second transaction of the same try block.  *)

Upload(w) ==
    \E b \in Batches :
        /\ Idle(w)
        /\ staging[b] = "new"
        /\ staging' = [staging EXCEPT ![b] = "staged"]
        /\ UNCHANGED <<office, history, lockedMonths, submitted, req>>

CancelImport(w) ==
    \E b \in Batches :
        /\ Idle(w)
        /\ staging[b] = "staged"
        /\ staging' = [staging EXCEPT ![b] = "gone"]
        /\ UNCHANGED <<office, history, lockedMonths, submitted, req>>

Approvable(b) == staging[b] = "staged"

ApproveRead(w) ==
    \E b \in Batches : \E kept \in Reviews[b] :
        /\ Idle(w)
        /\ Approvable(b)
        /\ req' = [req EXCEPT ![w] =
              [op |-> "approve", at |-> IF kept = <<>> THEN "discard" ELSE "insert",
               batch |-> b, kept |-> kept, tries |-> 1]]
        /\ UNCHANGED tables

\* No row was ticked: the import is cancelled.
ApproveDiscard(w) ==
    /\ At(w, "approve", "discard")
    /\ staging' = [staging EXCEPT ![req[w].batch] = "gone"]
    /\ Finish(w)
    /\ UNCHANGED <<office, history, lockedMonths, submitted>>

ImportedRow(row, b) ==
    [date |-> row.date, amount |-> row.amount, kind |-> row.kind, source |-> row.source,
     status |-> row.status, batch |-> b, quarter |-> row.quarter,
     reversed |-> FALSE, of |-> 0, depth |-> 0]

\* Mutant: the closing balance adds payments too.
Closing_Gross(kept) == SumFunction([k \in DOMAIN kept |-> kept[k].amount])

Closing(kept) == StatementNet(kept)

ApproveInsert(w) ==
    LET b == req[w].batch
        kept == req[w].kept
    IN
    /\ At(w, "approve", "insert")
    /\ Room(Len(kept))
    /\ office' = office \o [k \in DOMAIN kept |-> ImportedRow(kept[k], b)]
    /\ history' = IF b \in WithOpening
                  THEN [c \in DOMAIN history \cup {b} |->
                            IF c = b THEN Closing(kept) ELSE history[c]]
                  ELSE history
    /\ req' = [req EXCEPT ![w].at = "cleanup"]
    /\ UNCHANGED <<staging, lockedMonths, submitted>>

ApproveCleanup(w) ==
    /\ At(w, "approve", "cleanup")
    /\ staging' = [staging EXCEPT ![req[w].batch] = "gone"]
    /\ Finish(w)
    /\ UNCHANGED <<office, history, lockedMonths, submitted>>

\* Mutant: tried again without a limit.
ApproveBusy_Unlimited(w) ==
    /\ req[w].op = "approve" /\ req[w].at \in {"insert", "cleanup"}
    /\ req' = [req EXCEPT ![w].at = "insert", ![w].tries = @ + 1]
    /\ UNCHANGED tables

\* The insert or the cleanup finds the database locked: the whole try block
\* is run again, up to Retries times.
ApproveBusy(w) ==
    LET r == req[w] IN
    /\ r.op = "approve" /\ r.at \in {"insert", "cleanup"}
    /\ req' = [req EXCEPT ![w] =
          IF r.tries < Retries THEN [r EXCEPT !.at = "insert", !.tries = r.tries + 1] ELSE NoReq]
    /\ UNCHANGED tables

-----------------------------------------------------------------------------
(* What other parts of the program do meanwhile, one transaction each.      *)

LockMonth(w) ==
    \E m \in Months :
        /\ Idle(w)
        /\ lockedMonths' = lockedMonths \cup {m}
        /\ UNCHANGED <<office, staging, history, submitted, req>>

UnlockMonth(w) ==
    \E m \in Months :
        /\ Idle(w)
        /\ lockedMonths' = lockedMonths \ {m}
        /\ UNCHANGED <<office, staging, history, submitted, req>>

SubmitReturn(w) ==
    \E q \in Quarters :
        /\ Idle(w)
        /\ submitted' = submitted \cup {q}
        /\ UNCHANGED <<office, staging, history, lockedMonths, req>>

\* The worker is killed, or gives up on a locked database.
Abort(w) ==
    /\ ~Idle(w)
    /\ Finish(w)
    /\ UNCHANGED tables

-----------------------------------------------------------------------------
Create(w) == CreateBegin(w) \/ CreateWrite(w) \/ CreateRefused(w)
UpdateStatus(w) == StatusBegin(w) \/ StatusMonth(w) \/ StatusWrite(w)
ClearImported(w) == ClearBegin(w) \/ ClearMonth(w) \/ ClearWrite(w)
Reverse(w) == ReverseBegin(w) \/ ReverseVat(w) \/ ReverseMonth(w) \/ ReverseWrite(w)
Approve(w) ==
    ApproveRead(w) \/ ApproveDiscard(w) \/ ApproveInsert(w) \/ ApproveCleanup(w) \/ ApproveBusy(w)
Import(w) == Upload(w) \/ CancelImport(w) \/ Approve(w)
Elsewhere(w) == LockMonth(w) \/ UnlockMonth(w) \/ SubmitReturn(w)

Step(w) ==
    \/ Create(w) \/ UpdateStatus(w) \/ ClearImported(w) \/ Reverse(w)
    \/ Import(w) \/ Elsewhere(w) \/ Abort(w)

Next == \E w \in Workers : Step(w)

Spec == Init /\ [][Next]_vars

-----------------------------------------------------------------------------
(* What holds whatever the workers interleave.                              *)

\* Every table and request keeps to its columns.
TypeOK ==
    /\ office \in Seq(OfficeRow)
    /\ staging \in [Batches -> {"new", "staged", "gone"}]
    /\ DOMAIN history \subseteq Batches
    /\ lockedMonths \subseteq Months
    /\ submitted \subseteq Quarters
    /\ req \in [Workers -> Request]

\* A reversal undoes a row completely and stays: the row it names is REVERSED,
\* was not a reversal itself, and has the same amount, quarter and the opposite
\* direction; the reversal is cleared and is itself never reversed.
LegUndoes(j) ==
    LET i == office[j].of IN
    /\ i \in 1..(j - 1)
    /\ office[i].of = 0 /\ office[i].reversed
    /\ office[j].amount = office[i].amount /\ office[j].quarter = office[i].quarter
    /\ office[j].kind = Opposite(office[i].kind)
    /\ office[j].status = "Cleared" /\ ~office[j].reversed /\ office[j].depth = 1

ReversalsSound ==
    \A i \in DOMAIN office :
        /\ office[i].of # 0 => LegUndoes(i)
        /\ office[i].of = 0 => office[i].depth = 0
        /\ office[i].reversed => \E j \in DOMAIN office : office[j].of = i

\* Requests under way name rows that exist and are no reversals, and a
\* statement that is recorded was uploaded.
RequestSound(r) ==
    /\ r.op \in {"status", "clear", "reverse"} => r.row \in DOMAIN office /\ office[r.row].of = 0
    /\ r.op = "approve" => r.kept \in Reviews[r.batch] /\ staging[r.batch] # "new"

RequestsSound == \A w \in Workers : RequestSound(req[w])

\* An import is whole: a batch with rows was uploaded, and the statement
\* history holds the movement of exactly the rows that its last approval
\* inserted, which stand next to each other in the order of the review.
Inserted(b, kept, at) ==
    /\ at + Len(kept) <= Len(office)
    /\ \A k \in DOMAIN kept :
          LET row == office[at + k] IN
          /\ row.batch = b
          /\ row.date = kept[k].date /\ row.kind = kept[k].kind /\ row.amount = kept[k].amount

ImportsWhole ==
    /\ \A i \in DOMAIN office :
          office[i].batch # NoBatch =>
              /\ staging[office[i].batch] # "new"
              /\ office[i].batch \in WithOpening => office[i].batch \in DOMAIN history
    /\ \A b \in DOMAIN history :
          \E kept \in Reviews[b], at \in 0..Len(office) :
              /\ kept # <<>> /\ Inserted(b, kept, at)
              /\ history[b] = StatementNet(kept)

\* The inductive strengthening of ReversalsSound (OfficeAccountProofs).
OfficeInv == TypeOK /\ ReversalsSound /\ RequestsSound

Finished(w) == ~Idle(w) /\ req'[w] = NoReq

Overdrawn == office' # office /\ OfficeNet(Dates) >= 0 /\ OfficeNet(Dates)' < 0

\* A cleared expense dated after d.
LaterExpense(d) ==
    \E i \in DOMAIN office :
        office[i].date > d /\ Counts(i) /\ office[i].kind = "Payment"

MayOverdraw(w) ==
    \/ req[w].op = "create" /\ LaterExpense(req[w].form.date)
    \/ req[w].op = "status" /\ req[w].to = "Declined" /\ office[req[w].row].status = "Cleared"
    \/ req[w].op \in {"status", "clear"} /\ office[req[w].row].kind = "Payment"
    \/ req[w].op = "reverse" /\ office[req[w].row].kind = "Receipt"
    \/ At(w, "approve", "insert")

\* The office's own rows go below zero only by an expense dated before later
\* expenses, a payment that clears, the reversal of income, an import, or a
\* decline overtaken by the clearance of its cheque: two expenses never both
\* pass the check (BEGIN IMMEDIATE).
OverdraftCauses ==
    [][Overdrawn => \E w \in Workers : req'[w] # req[w] /\ MayOverdraw(w)]_vars

-----------------------------------------------------------------------------
(* What holds as long as requests are served one at a time (steps and       *)
(* states; MCOfficeAccount says when).                                      *)

\* A row is reversed at most once.
ReversedOnce ==
    \A i, j \in DOMAIN office : office[i].of = office[j].of /\ office[i].of # 0 => i = j

\* A reversed row was money that had moved: it stays Cleared.
ReversedCleared == \A i \in DOMAIN office : office[i].reversed => office[i].status = "Cleared"

\* A row of a submitted quarter is not reversed.
SubmittedRests ==
    \A i \in DOMAIN office :
        office[i].quarter \in submitted => office'[i].reversed = office[i].reversed

NewRows == DOMAIN office' \ DOMAIN office

\* A locked month takes no row and no change of status, except from an import,
\* which does not look at month locks.
LockedMonthsTake ==
    /\ \A i \in NewRows :
          MonthOf[office'[i].date] \in lockedMonths => office'[i].batch # NoBatch
    /\ \A i \in DOMAIN office :
          office'[i].status # office[i].status => MonthOf[office[i].date] \notin lockedMonths

\* A batch whose staging is gone, imported or cancelled, is never inserted
\* (again).
GoneBatchRests ==
    \A i \in NewRows :
        office'[i].batch # NoBatch => staging[office'[i].batch] = "staged"

-----------------------------------------------------------------------------
(* What the code says and does not do, even one at a time.                  *)

\* The rows of a batch add up to the movement of its recorded statement: no
\* crash or error leaves a batch imported in part or twice.
StatementsMatch ==
    \A b \in DOMAIN history :
        history[b] = StatementNet([i \in {i \in DOMAIN office : office[i].batch = b} |-> office[i]])
=============================================================================
