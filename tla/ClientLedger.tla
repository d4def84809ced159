----------------------------- MODULE ClientLedger -----------------------------
(***************************************************************************)
(* The client-money books: ledger_transactions, cashbook_transactions,     *)
(* office_fee_transfers, the OPEN/CLOSED status of a matter and the month  *)
(* locks, with the requests that change them (database.py, app.py).        *)
(*                                                                         *)
(* The program runs in several worker processes (gunicorn.conf.py:11) or   *)
(* threads (desktop_app.py:82).  Each database method opens connections of *)
(* its own: a SELECT is a transaction by itself, and the write lock is     *)
(* held only from the first DML statement, or BEGIN IMMEDIATE, to the      *)
(* commit.  So one action here is one database transaction of a request;   *)
(* between two of them any other request may commit.  A request that is    *)
(* under way is a record in req[w]; `at` names its next transaction.       *)
(*                                                                         *)
(* Rows are only inserted in pairs by the routes, and never deleted (the   *)
(* one-off soft reset of January 2026 and the demo resets are left out),   *)
(* so the two tables are sequences and a row id is a position in them.     *)
(***************************************************************************)
EXTENDS Integers, Sequences, Functions

CONSTANTS
    Workers,        \* processes or threads that serve requests
    Clients,        \* matters (rows of the clients table)
    Dates,          \* transaction dates, ordered as numbers
    MonthOf,        \* the calendar month of a date
    PostForms,      \* the New Transaction forms users may submit
    FeeForms,       \* the Transfer Fee to Office forms users may submit
    MaxRows         \* bound on the rows of the ledger (state constraint of a run)

TxnTypes == {"Receipt", "Payment", "Transfer"}

\* Only whether money moved by cheque matters: 'Cash', 'Bank Transfer' and
\* 'Card' are treated alike.
Sources == {"Cheque", "Other"}

Statuses == {"Pending", "Cleared", "Declined"}

Amounts == Nat \ {0}

\* What new_transaction reads from its form, and the session's override mode.
PostForm == [client : Clients, date : Dates, amount : Amounts,
             kind : TxnTypes, source : Sources, override : BOOLEAN]

FeeForm == [client : Clients, date : Dates, amount : Amounts]

ASSUME DatesAssumption == Dates \subseteq Nat
ASSUME MonthsAssumption == MonthOf \in [Dates -> Nat]
ASSUME FormsAssumption == PostForms \subseteq PostForm /\ FeeForms \subseteq FeeForm
ASSUME RowsAssumption == MaxRows \in Nat

Months == {MonthOf[d] : d \in Dates}

VARIABLES
    ledger,         \* ledger_transactions
    cashbook,       \* cashbook_transactions
    fees,           \* office_fee_transfers
    matter,         \* clients.matter_status
    lockedMonths,   \* month_locks rows with locked = 1
    req             \* the request each worker is serving

tables == <<ledger, cashbook, fees, matter, lockedMonths>>
vars == <<ledger, cashbook, fees, matter, lockedMonths, req>>

-----------------------------------------------------------------------------
(* Rows and requests. `link` is linked_cashbook_id or linked_ledger_id,     *)
(* `parent` is parent_transaction_id (0 where the column is NULL).          *)

LedgerRow == [client : Clients, date : Dates, amount : Amounts, kind : TxnTypes,
              link : Nat, reversed : BOOLEAN, depth : Nat, parent : Nat]

CashbookRow == [date : Dates, amount : Amounts, kind : {"Receipt", "Payment"},
                source : Sources, status : Statuses,
                link : Nat, reversed : BOOLEAN, depth : Nat, parent : Nat]

FeeRow == [link : Nat, client : Clients, date : Dates, amount : Int]

NoReq == [op |-> "none"]

PostReq == [op : {"post"}, at : {"month", "write"}, form : PostForm]
FeeReq == [op : {"fee"}, at : {"funds", "month", "write"}, form : FeeForm]
ChequeReq == [op : {"cheque"}, at : {"month", "write"},
              row : Nat, to : {"Cleared", "Declined"}]
ReverseReq == [op : {"reverse"}, at : {"read", "write"}, row : Nat, date : Dates]
CloseReq == [op : {"close"}, at : {"write"}, client : Clients]

Request == {NoReq} \cup PostReq \cup FeeReq \cup ChequeReq \cup ReverseReq \cup CloseReq

-----------------------------------------------------------------------------
(* The balances, as the SQL of database.py computes them. A row counts when *)
(* its cashbook side is cleared, it is not REVERSED and its reversal depth  *)
(* is even; both tables apply the rule to their own columns.                *)

UpTo(d) == {e \in Dates : e <= d}

Sign(kind) == IF kind = "Receipt" THEN 1 ELSE -1

Active(row) == ~row.reversed /\ row.depth % 2 = 0

LedgerCounts(i) == cashbook[ledger[i].link].status = "Cleared" /\ Active(ledger[i])

\* Mutant: the cashbook query without its reversal_depth test.
CashbookCounts_AnyDepth(j) == cashbook[j].status = "Cleared" /\ ~cashbook[j].reversed

CashbookCounts(j) == cashbook[j].status = "Cleared" /\ Active(cashbook[j])

\* What ledger row i adds to the net of the clients C over the dates S.
LedgerDelta(C, S) ==
    [i \in DOMAIN ledger |->
        IF ledger[i].client \in C /\ ledger[i].date \in S /\ LedgerCounts(i)
        THEN Sign(ledger[i].kind) * ledger[i].amount ELSE 0]

\* The same of cashbook row j: its client is its ledger row's.
CashbookDelta(C, S) ==
    [j \in DOMAIN cashbook |->
        IF ledger[cashbook[j].link].client \in C /\ cashbook[j].date \in S /\ CashbookCounts(j)
        THEN Sign(cashbook[j].kind) * cashbook[j].amount ELSE 0]

LedgerNet(C, S) == SumFunction(LedgerDelta(C, S))
CashbookNet(C, S) == SumFunction(CashbookDelta(C, S))

ClientBalance(c) == LedgerNet({c}, Dates)

\* The first term of get_office_balance, for one client.
FeeIncome(c) == SumFunction([f \in {f \in fees : f.client = c} |-> f.amount])

-----------------------------------------------------------------------------
(* Checks and table writes shared by the operations.                        *)

MatterOpen(c) == matter[c] = "OPEN"

MonthUnlocked(d) == MonthOf[d] \notin lockedMonths

\* Mutant: the deficit check covers 'Payment' only.
Funded_PaymentsOnly(f) ==
    \/ f.kind # "Payment"
    \/ f.override /\ CashbookNet(Clients, Dates) >= f.amount
    \/ ~f.override /\ LedgerNet({f.client}, UpTo(f.date)) >= f.amount

\* The deficit check of an ordinary posting looks at the client up to the
\* posting's own date; the override check at the whole cashbook, at any date.
Funded(f) ==
    \/ f.kind = "Receipt"
    \/ f.override /\ CashbookNet(Clients, Dates) >= f.amount
    \/ ~f.override /\ LedgerNet({f.client}, UpTo(f.date)) >= f.amount

FeeFunded(f) == LedgerNet({f.client}, UpTo(f.date)) >= f.amount

\* Mutant: the ledger's type is copied to the cashbook row.
CashbookType_Copied(kind) == kind

CashbookType(kind) == IF kind = "Receipt" THEN "Receipt" ELSE "Payment"

Opposite(kind) == IF kind = "Receipt" THEN "Payment" ELSE "Receipt"

Room == Len(ledger) < MaxRows

InsertPair(f, kind, source, status) ==
    /\ ledger' = Append(ledger,
          [client |-> f.client, date |-> f.date, amount |-> f.amount, kind |-> kind,
           link |-> Len(cashbook) + 1, reversed |-> FALSE, depth |-> 0, parent |-> 0])
    /\ cashbook' = Append(cashbook,
          [date |-> f.date, amount |-> f.amount, kind |-> CashbookType(kind),
           source |-> source, status |-> status,
           link |-> Len(ledger) + 1, reversed |-> FALSE, depth |-> 0, parent |-> 0])

\* Mutant: the original is not marked REVERSED.
Reversed_Unmarked(table, i, leg) == Append(table, leg)

\* Row i of table is marked REVERSED and its compensating leg added.
Reversed(table, i, leg) == Append([table EXCEPT ![i].reversed = TRUE], leg)

\* Mutant: the fee transfer is left as it is.
CompensatedFees_Kept(i, d) == fees

\* Mutant: the fee row is copied with its sign.
CompensatedFees_Repeated(i, d) ==
    fees \cup {[f EXCEPT !.link = Len(ledger) + 1, !.date = d] : f \in {f \in fees : f.link = i}}

\* Each fee row of leg i is compensated by one linked to the new leg.
CompensatedFees(i, d) ==
    fees \cup {[link |-> Len(ledger) + 1, client |-> f.client, date |-> d, amount |-> -f.amount] :
                   f \in {f \in fees : f.link = i}}

-----------------------------------------------------------------------------
(* Requests.                                                                *)

Idle(w) == req[w] = NoReq

At(w, op, step) == req[w].op = op /\ req[w].at = step

\* A check of the request passes and it goes on to step, or fails and the
\* request ends in an error page.
Proceed(w, ok, step) ==
    /\ req' = [req EXCEPT ![w] = IF ok THEN [@ EXCEPT !.at = step] ELSE NoReq]
    /\ UNCHANGED tables

Finish(w) == req' = [req EXCEPT ![w] = NoReq]

Init ==
    /\ ledger = <<>>
    /\ cashbook = <<>>
    /\ fees = {}
    /\ matter = [c \in Clients |-> "OPEN"]
    /\ lockedMonths = {}
    /\ req = [w \in Workers |-> NoReq]

-----------------------------------------------------------------------------
(* create_ledger_and_cashbook_transaction: a posting from the ledger or the *)
(* cashbook page. The funds check and the insert of the pair are one        *)
(* BEGIN IMMEDIATE transaction; the matter and the month were read before.  *)

PostBegin(w) ==
    \E f \in PostForms :
        /\ Idle(w) /\ Room
        /\ MatterOpen(f.client)
        /\ req' = [req EXCEPT ![w] = [op |-> "post", at |-> "month", form |-> f]]
        /\ UNCHANGED tables

PostMonth(w) ==
    /\ At(w, "post", "month")
    /\ Proceed(w, MonthUnlocked(req[w].form.date), "write")

PostWrite(w) ==
    LET f == req[w].form IN
    /\ At(w, "post", "write")
    /\ Room
    /\ Funded(f)
    /\ InsertPair(f, f.kind, f.source, IF f.source = "Cheque" THEN "Pending" ELSE "Cleared")
    /\ Finish(w)
    /\ UNCHANGED <<fees, matter, lockedMonths>>

PostRefused(w) ==
    /\ At(w, "post", "write")
    /\ ~Funded(req[w].form)
    /\ Finish(w)
    /\ UNCHANGED tables

-----------------------------------------------------------------------------
(* create_transfer_fee_to_office: check_deficit reads the balance on a      *)
(* connection of its own, before the month check and the insert.            *)

FeeBegin(w) ==
    \E f \in FeeForms :
        /\ Idle(w) /\ Room
        /\ MatterOpen(f.client)
        /\ req' = [req EXCEPT ![w] = [op |-> "fee", at |-> "funds", form |-> f]]
        /\ UNCHANGED tables

FeeFunds(w) ==
    /\ At(w, "fee", "funds")
    /\ Proceed(w, FeeFunded(req[w].form), "month")

FeeMonth(w) ==
    /\ At(w, "fee", "month")
    /\ Proceed(w, MonthUnlocked(req[w].form.date), "write")

FeeWrite(w) ==
    LET f == req[w].form IN
    /\ At(w, "fee", "write")
    /\ Room
    /\ InsertPair(f, "Payment", "Other", "Cleared")
    /\ fees' = fees \cup {[link |-> Len(ledger) + 1, client |-> f.client,
                           date |-> f.date, amount |-> f.amount]}
    /\ Finish(w)
    /\ UNCHANGED <<matter, lockedMonths>>

-----------------------------------------------------------------------------
(* update_cashbook_status: a cheque is cleared or declined. The transition  *)
(* is validated on the row as it was read; the UPDATE names only the id.    *)

\* Mutant: a cleared cheque may be declined.
StatusChangeAllowed_NotFinal(row, to) == row.source = "Cheque" /\ row.status # to

StatusChangeAllowed(row, to) ==
    /\ row.source = "Cheque"
    /\ row.status # to
    /\ ~(row.status = "Cleared" /\ to = "Declined")

ChequeBegin(w) ==
    \E i \in DOMAIN cashbook, to \in {"Cleared", "Declined"} :
        /\ Idle(w)
        /\ StatusChangeAllowed(cashbook[i], to)
        /\ req' = [req EXCEPT ![w] = [op |-> "cheque", at |-> "month", row |-> i, to |-> to]]
        /\ UNCHANGED tables

ChequeMonth(w) ==
    /\ At(w, "cheque", "month")
    /\ Proceed(w, MonthUnlocked(cashbook[req[w].row].date), "write")

ChequeWrite(w) ==
    /\ At(w, "cheque", "write")
    /\ cashbook' = [cashbook EXCEPT ![req[w].row].status = req[w].to]
    /\ Finish(w)
    /\ UNCHANGED <<ledger, fees, matter, lockedMonths>>

-----------------------------------------------------------------------------
(* reverse_ledger_transaction: the month of the reversal date is checked,   *)
(* the original is read and must not be REVERSED, and a later transaction   *)
(* writes both compensating legs, marks both originals and compensates the  *)
(* fee transfers. The amounts and links it read never change.               *)

ReverseBegin(w) ==
    \E i \in DOMAIN ledger, d \in Dates :
        /\ Idle(w) /\ Room
        /\ MonthUnlocked(d)
        /\ req' = [req EXCEPT ![w] = [op |-> "reverse", at |-> "read", row |-> i, date |-> d]]
        /\ UNCHANGED tables

\* Mutant: a REVERSED row may be reversed again.
ReverseRead_Unchecked(w) ==
    /\ At(w, "reverse", "read")
    /\ Proceed(w, TRUE, "write")

ReverseRead(w) ==
    /\ At(w, "reverse", "read")
    /\ Proceed(w, ~ledger[req[w].row].reversed, "write")

ReverseWrite(w) ==
    LET i == req[w].row
        d == req[w].date
        orig == ledger[i]
        cb == cashbook[orig.link]
    IN
    /\ At(w, "reverse", "write")
    /\ Room
    /\ ledger' = Reversed(ledger, i,
          [client |-> orig.client, date |-> d, amount |-> orig.amount,
           kind |-> Opposite(orig.kind), link |-> Len(cashbook) + 1,
           reversed |-> FALSE, depth |-> orig.depth + 1, parent |-> i])
    /\ cashbook' = Reversed(cashbook, orig.link,
          [date |-> d, amount |-> cb.amount, kind |-> Opposite(cb.kind),
           source |-> cb.source, status |-> "Cleared", link |-> Len(ledger) + 1,
           reversed |-> FALSE, depth |-> orig.depth + 1, parent |-> orig.link])
    /\ fees' = CompensatedFees(i, d)
    /\ Finish(w)
    /\ UNCHANGED <<matter, lockedMonths>>

-----------------------------------------------------------------------------
(* close_matter reads the balance, set_matter_status then writes CLOSED;    *)
(* reopening is unconditional. Month locks are set and cleared by the       *)
(* reconciliation page: here only their effect, one transaction each.       *)

CloseBegin(w) ==
    \E c \in Clients :
        /\ Idle(w)
        /\ ClientBalance(c) = 0
        /\ req' = [req EXCEPT ![w] = [op |-> "close", at |-> "write", client |-> c]]
        /\ UNCHANGED tables

CloseWrite(w) ==
    /\ At(w, "close", "write")
    /\ matter' = [matter EXCEPT ![req[w].client] = "CLOSED"]
    /\ Finish(w)
    /\ UNCHANGED <<ledger, cashbook, fees, lockedMonths>>

Reopen(w) ==
    \E c \in Clients :
        /\ Idle(w)
        /\ matter' = [matter EXCEPT ![c] = "OPEN"]
        /\ UNCHANGED <<ledger, cashbook, fees, lockedMonths, req>>

LockMonth(w) ==
    \E m \in Months :
        /\ Idle(w)
        /\ lockedMonths' = lockedMonths \cup {m}
        /\ UNCHANGED <<ledger, cashbook, fees, matter, req>>

UnlockMonth(w) ==
    \E m \in Months :
        /\ Idle(w)
        /\ lockedMonths' = lockedMonths \ {m}
        /\ UNCHANGED <<ledger, cashbook, fees, matter, req>>

\* The worker is killed (gunicorn's timeout, a crash) or its write finds the
\* database locked three times: SQLite rolls back, nothing is stored.
Abort(w) ==
    /\ ~Idle(w)
    /\ Finish(w)
    /\ UNCHANGED tables

-----------------------------------------------------------------------------
Post(w) == PostBegin(w) \/ PostMonth(w) \/ PostWrite(w) \/ PostRefused(w)
TransferFee(w) == FeeBegin(w) \/ FeeFunds(w) \/ FeeMonth(w) \/ FeeWrite(w)
UpdateCheque(w) == ChequeBegin(w) \/ ChequeMonth(w) \/ ChequeWrite(w)
Reverse(w) == ReverseBegin(w) \/ ReverseRead(w) \/ ReverseWrite(w)
Administer(w) == CloseBegin(w) \/ CloseWrite(w) \/ Reopen(w) \/ LockMonth(w) \/ UnlockMonth(w)

Step(w) == Post(w) \/ TransferFee(w) \/ UpdateCheque(w) \/ Reverse(w) \/ Administer(w) \/ Abort(w)

Next == \E w \in Workers : Step(w)

Spec == Init /\ [][Next]_vars

\* The same, one request at a time: no other worker is serving one.
Alone(w) == \A v \in Workers \ {w} : Idle(v)

SerialSpec == Init /\ [][\E w \in Workers : Step(w) /\ Alone(w)]_vars
-----------------------------------------------------------------------------
(* What holds whatever the workers interleave.                              *)

\* Every table and request keeps to its columns.
TypeOK ==
    /\ ledger \in Seq(LedgerRow)
    /\ cashbook \in Seq(CashbookRow)
    /\ fees \subseteq FeeRow
    /\ matter \in [Clients -> {"OPEN", "CLOSED"}]
    /\ lockedMonths \subseteq Months
    /\ req \in [Workers -> Request]

\* The client ledger and the client side of the cashbook, two tables updated
\* by every operation in its own way and filtered on their own columns, give
\* every client the same net up to any date (what the three-way
\* reconciliation and _post_transaction_validation look for).
BooksAgree ==
    \A c \in Clients, d \in Dates :
        LedgerNet({c}, UpTo(d)) = CashbookNet({c}, UpTo(d))

\* Why they agree: row i of one table is linked to row i of the other, and the
\* columns that the two queries filter and sum on are equal at all times.
PairsAgree ==
    /\ Len(ledger) = Len(cashbook)
    /\ \A i \in DOMAIN ledger :
          /\ ledger[i].link = i /\ cashbook[i].link = i
          /\ cashbook[i].date = ledger[i].date
          /\ cashbook[i].amount = ledger[i].amount
          /\ cashbook[i].kind = CashbookType(ledger[i].kind)
          /\ cashbook[i].reversed = ledger[i].reversed
          /\ cashbook[i].depth = ledger[i].depth

\* A cheque or a reversal under way names an existing row.
RequestsNameRows ==
    \A w \in Workers : req[w].op \in {"cheque", "reverse"} => req[w].row \in DOMAIN ledger

\* The inductive strengthening of BooksAgree (ClientLedgerProofs).
BooksInv == TypeOK /\ PairsAgree /\ RequestsNameRows

\* A reversal is never half done: a REVERSED row has its compensating leg, and
\* a leg undoes the row above it (same client and amount, opposite direction,
\* one deeper) in the ledger and in the cashbook alike.
ChainSound ==
    \A i \in DOMAIN ledger :
        LET row == ledger[i]
            up == ledger[row.parent]
        IN
        /\ row.reversed => \E j \in DOMAIN ledger : ledger[j].parent = i
        /\ row.parent # 0 =>
              /\ row.parent \in 1..(i - 1)
              /\ up.reversed
              /\ row.client = up.client /\ row.amount = up.amount
              /\ row.kind = Opposite(up.kind) /\ row.depth = up.depth + 1
              /\ cashbook[row.link].parent = up.link
              /\ cashbook[up.link].reversed

\* Office income follows the client books: every fee row mirrors the ledger
\* leg it is linked to, and a leg that undoes a fee leg takes the fee back.
FeesFollowLedger ==
    /\ \A f \in fees :
          /\ f.link \in DOMAIN ledger
          /\ f.client = ledger[f.link].client /\ f.date = ledger[f.link].date
          /\ f.amount = -Sign(ledger[f.link].kind) * ledger[f.link].amount
    /\ \A i \in DOMAIN ledger :
          ledger[i].parent # 0 =>
              ((\E f \in fees : f.link = i) <=> (\E f \in fees : f.link = ledger[i].parent))

Finished(w) == ~Idle(w) /\ req'[w] = NoReq

\* A write to the two tables takes the client below zero.
Overdraws(c) ==
    /\ <<ledger, cashbook>>' # <<ledger, cashbook>>
    /\ ClientBalance(c) >= 0 /\ ClientBalance(c)' < 0

\* A cleared outgoing row of the client dated after d.
LaterPayment(c, d) ==
    \E i \in DOMAIN ledger :
        /\ ledger[i].client = c /\ ledger[i].date > d
        /\ LedgerCounts(i) /\ ledger[i].kind # "Receipt"

\* What may take request r of client c's books below zero: an override; a
\* payment dated before later payments (its funds were counted up to its own
\* date); a fee whose funds went after they were checked; a payment cheque
\* that clears; a decline overtaken by the clearance of its cheque; the
\* reversal of incoming money.
MayOverdraw(r, c) ==
    \/ r.op = "post" /\ (r.form.override \/ LaterPayment(c, r.form.date))
    \/ r.op = "fee" /\ (~FeeFunded(r.form) \/ LaterPayment(c, r.form.date))
    \/ r.op = "cheque" /\ r.to = "Cleared" /\ cashbook[r.row].kind = "Payment"
    \/ r.op = "cheque" /\ r.to = "Declined" /\ cashbook[r.row].status = "Cleared"
    \/ r.op = "reverse" /\ ledger[r.row].kind = "Receipt"

\* A client's books go below zero only for one of those reasons: two ordinary
\* payments never both pass the deficit check (BEGIN IMMEDIATE).
DeficitCauses ==
    [][\A c \in Clients :
          Overdraws(c) =>
              \E w \in Workers : Finished(w) /\ MayOverdraw(req[w], c)]_vars

-----------------------------------------------------------------------------
(* What holds as long as requests are served one at a time (SerialSpec):    *)
(* invariants and steps.                                                    *)

\* A row is reversed at most once, so a posting has one active leg and counts
\* at most once.
ReversedOnce ==
    \A i, j \in DOMAIN ledger :
        ledger[i].parent = ledger[j].parent /\ ledger[i].parent # 0 => i = j

\* The office holds exactly the fees that the clients' books show as paid,
\* however often a transfer was reversed and reinstated.
FeesEarned(c) ==
    SumFunction([i \in {f.link : f \in {f \in fees : f.client = c}} |->
                    -LedgerDelta({c}, Dates)[i]])

FeesMatch == \A c \in Clients : FeeIncome(c) = FeesEarned(c)

\* No row is added to a month that is locked when it is added.
LockedMonthsClosed ==
    \A i \in DOMAIN ledger' \ DOMAIN ledger : MonthOf[ledger'[i].date] \notin lockedMonths

\* No posting or fee transfer is added to a closed matter; only reversals are.
ClosedMattersRest ==
    \A i \in DOMAIN ledger' \ DOMAIN ledger :
        ledger'[i].depth = 0 => matter[ledger'[i].client] = "OPEN"

\* A cleared row stays cleared.
ClearedFinal ==
    \A j \in DOMAIN cashbook :
        cashbook[j].status = "Cleared" => cashbook'[j].status = "Cleared"

\* A fee transfer leaves the client's funds at its date covered.
FeeTransferFunded ==
    \A w \in Workers, f \in FeeForms :
        At(w, "fee", "write") /\ req[w].form = f /\ Finished(w) /\ ledger' # ledger =>
            LedgerNet({f.client}, UpTo(f.date))' >= 0

\* The client money of a locked month, counted over its own rows, changes only
\* when one of them is reversed: a reversal looks at the lock of its own date's
\* month, and the row it undoes stops counting in the locked one.
MonthFigure(m) == LedgerNet(Clients, {d \in Dates : MonthOf[d] = m})

LockedFiguresCauses ==
    \A m \in lockedMonths :
        MonthFigure(m)' # MonthFigure(m) =>
            \E i \in DOMAIN ledger :
                /\ MonthOf[ledger[i].date] = m
                /\ ~ledger[i].reversed /\ ledger'[i].reversed
=============================================================================
