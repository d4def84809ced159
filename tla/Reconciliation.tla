---------------------------- MODULE Reconciliation ----------------------------
(***************************************************************************)
(* Monthly reconciliations, their versions and the month locks             *)
(* (database.py: create_reconciliation, lock_reconciliation_month,         *)
(* unlock_reconciliation_month, the startup migration; app.py: the routes  *)
(* that compute the figures).                                              *)
(*                                                                         *)
(* As in ClientLedger every action is one database transaction of a        *)
(* request.  The client-money books appear only as the month-end figure of *)
(* each month: ledger total, cashbook total and bank balance are queries   *)
(* over rows that agree at all times (ClientLedger!BooksAgree), so they    *)
(* differ only when something is posted between two of the reads, and a    *)
(* recorded row, whose three figures agree to the penny, has one.          *)
(***************************************************************************)
EXTENDS Integers, Sequences

CONSTANTS
    Workers,        \* processes or threads that serve requests
    Months,         \* calendar months, ordered as numbers
    MaxFigure,      \* bound on a month-end figure
    MaxVersions     \* bound on the reconciliation rows

ASSUME MonthsAssumption == Months \subseteq Nat
ASSUME BoundsAssumption == MaxFigure \in Nat /\ MaxVersions \in Nat

VARIABLES
    recs,           \* reconciliations
    monthLocked,    \* month_locks rows with locked = 1
    monthEnd,       \* client money at each month's end, from the books
    req             \* the request each worker is serving

tables == <<recs, monthLocked, monthEnd>>
vars == <<recs, monthLocked, monthEnd, req>>

\* `stamped` is locked_timestamp IS NOT NULL. No row is deleted (see Migrate).
RecRow == [month : Months, version : Nat, current : BOOLEAN, locked : BOOLEAN,
           stamped : BOOLEAN, figure : Int]

NoReq == [op |-> "none"]

RecordReq == [op : {"record"}, at : {"cash", "current", "write"}, month : Months, figure : Int]
LockReq == [op : {"lock"}, at : {"cash", "bank", "current"}, month : Months, figure : Int]
LockHeld == [op : {"lock"}, at : {"state", "write"}, month : Months, figure : Int,
             id : Nat, cur : RecRow]
UnlockReq == [op : {"unlock"}, at : {"current"}, month : Months]
UnlockHeld == [op : {"unlock"}, at : {"write"}, month : Months, id : Nat]
BooksReq == [op : {"books"}, at : {"write"}, month : Months]

Request == {NoReq} \cup RecordReq \cup LockReq \cup LockHeld \cup UnlockReq
                   \cup UnlockHeld \cup BooksReq

-----------------------------------------------------------------------------
\* get_current_reconciliation. The partial unique index leaves one at most.
Current(m) == {i \in DOMAIN recs : recs[i].month = m /\ recs[i].current}

Idle(w) == req[w] = NoReq

At(w, op, step) == req[w].op = op /\ req[w].at = step

Proceed(w, ok, step) ==
    /\ req' = [req EXCEPT ![w] = IF ok THEN [@ EXCEPT !.at = step] ELSE NoReq]
    /\ UNCHANGED tables

Finish(w) == req' = [req EXCEPT ![w] = NoReq]

Refuse(w) == Finish(w) /\ UNCHANGED tables

Room == Len(recs) < MaxVersions

Init ==
    /\ recs = <<>>
    /\ monthLocked = {}
    /\ monthEnd = [m \in Months |-> 0]
    /\ req = [w \in Workers |-> NoReq]

-----------------------------------------------------------------------------
(* new_reconciliation and create_reconciliation: version 1 of a month, open *)
(* for corrections. The bank figure is the user's and must agree. The date  *)
(* is taken to be the month's last; the first lock replaces the figure.     *)

RecordBegin(w) ==
    \E m \in Months :
        /\ Idle(w) /\ Room
        /\ req' = [req EXCEPT ![w] = [op |-> "record", at |-> "cash", month |-> m,
                                      figure |-> monthEnd[m]]]
        /\ UNCHANGED tables

RecordCash(w) ==
    /\ At(w, "record", "cash")
    /\ Proceed(w, monthEnd[req[w].month] = req[w].figure, "current")

RecordCurrent(w) ==
    /\ At(w, "record", "current")
    /\ Proceed(w, Current(req[w].month) = {}, "write")

\* A second current row of the month is an IntegrityError.
RecordWrite(w) ==
    LET m == req[w].month IN
    /\ At(w, "record", "write")
    /\ Room
    /\ \/ /\ Current(m) = {}
          /\ recs' = Append(recs, [month |-> m, version |-> 1, current |-> TRUE,
                                   locked |-> FALSE, stamped |-> FALSE,
                                   figure |-> req[w].figure])
          /\ Finish(w)
          /\ UNCHANGED <<monthLocked, monthEnd>>
       \/ Current(m) # {} /\ Refuse(w)

-----------------------------------------------------------------------------
(* lock_month and lock_reconciliation_month: the route reads the three live *)
(* figures, the method the current row and the month lock, and then writes  *)
(* by the row as it was read.                                               *)

LockBegin(w) ==
    \E m \in Months :
        /\ Idle(w)
        /\ req' = [req EXCEPT ![w] = [op |-> "lock", at |-> "cash", month |-> m,
                                      figure |-> monthEnd[m]]]
        /\ UNCHANGED tables

LockCash(w) ==
    /\ At(w, "lock", "cash")
    /\ Proceed(w, monthEnd[req[w].month] = req[w].figure, "bank")

LockBank(w) ==
    /\ At(w, "lock", "bank")
    /\ Proceed(w, monthEnd[req[w].month] = req[w].figure, "current")

\* Mutant: goes on when the month has no reconciliation.
LockCurrent_Missing(w) ==
    /\ At(w, "lock", "current")
    /\ Proceed(w, Current(req[w].month) = {}, "state")

LockCurrent(w) ==
    LET r == req[w] IN
    /\ At(w, "lock", "current")
    /\ \/ \E i \in Current(r.month) :
             req' = [req EXCEPT ![w] = [op |-> "lock", at |-> "state", month |-> r.month,
                                        figure |-> r.figure, id |-> i, cur |-> recs[i]]]
       \/ Current(r.month) = {} /\ Finish(w)
    /\ UNCHANGED tables

\* Mutant: a locked month may be locked again.
LockState_Unchecked(w) ==
    /\ At(w, "lock", "state")
    /\ Proceed(w, TRUE, "write")

LockState(w) ==
    /\ At(w, "lock", "state")
    /\ Proceed(w, ~(req[w].month \in monthLocked /\ req[w].cur.locked), "write")

\* The row was locked before and has been unlocked since.
Relock(cur) == cur.stamped /\ ~cur.locked

\* Mutant: without idx_recon_one_current_per_month.
ArchiveAndAdd_NoIndex(r) ==
    /\ recs' = Append([recs EXCEPT ![r.id].current = FALSE, ![r.id].locked = TRUE],
                      [month |-> r.month, version |-> r.cur.version + 1, current |-> TRUE,
                       locked |-> TRUE, stamped |-> TRUE, figure |-> r.figure])

\* Figures changed: the row read becomes history and the next version is
\* current. The unique index refuses if another row is current by now.
ArchiveAndAdd(r) ==
    /\ Current(r.month) \subseteq {r.id}
    /\ recs' = Append([recs EXCEPT ![r.id].current = FALSE, ![r.id].locked = TRUE],
                      [month |-> r.month, version |-> r.cur.version + 1, current |-> TRUE,
                       locked |-> TRUE, stamped |-> TRUE, figure |-> r.figure])

NewVersionDue(r) == Relock(r.cur) /\ r.cur.figure # r.figure

\* First lock, or a row read as locked: the figures are taken in place.
\* Otherwise (relock, unchanged) only the lock is set again.
LockInPlace(r) ==
    recs' = [recs EXCEPT ![r.id].locked = TRUE, ![r.id].stamped = TRUE,
                         ![r.id].figure = IF Relock(r.cur) THEN @ ELSE r.figure]

LockWrite(w) ==
    LET r == req[w] IN
    /\ At(w, "lock", "write")
    /\ \/ NewVersionDue(r) /\ Room /\ ArchiveAndAdd(r)
       \/ ~NewVersionDue(r) /\ LockInPlace(r)
    /\ monthLocked' = monthLocked \cup {r.month}
    /\ Finish(w)
    /\ UNCHANGED monthEnd

LockRefused(w) ==
    LET r == req[w] IN
    /\ At(w, "lock", "write")
    /\ NewVersionDue(r) /\ ~(Current(r.month) \subseteq {r.id})
    /\ Refuse(w)

-----------------------------------------------------------------------------
(* unlock_reconciliation_month: one transaction clears the month's lock and *)
(* the lock of the row that was current when it was read.                   *)

UnlockBegin(w) ==
    \E m \in monthLocked :
        /\ Idle(w)
        /\ req' = [req EXCEPT ![w] = [op |-> "unlock", at |-> "current", month |-> m]]
        /\ UNCHANGED tables

UnlockCurrent(w) ==
    LET r == req[w] IN
    /\ At(w, "unlock", "current")
    /\ \/ \E i \in Current(r.month) :
             req' = [req EXCEPT ![w] = [op |-> "unlock", at |-> "write",
                                        month |-> r.month, id |-> i]]
       \/ Current(r.month) = {} /\ Finish(w)
    /\ UNCHANGED tables

\* Mutant: only the month's lock is cleared.
UnlockWrite_MonthOnly(w) ==
    /\ At(w, "unlock", "write")
    /\ monthLocked' = monthLocked \ {req[w].month}
    /\ Finish(w)
    /\ UNCHANGED <<recs, monthEnd>>

UnlockWrite(w) ==
    /\ At(w, "unlock", "write")
    /\ monthLocked' = monthLocked \ {req[w].month}
    /\ recs' = [recs EXCEPT ![req[w].id].locked = FALSE]
    /\ Finish(w)
    /\ UNCHANGED monthEnd

-----------------------------------------------------------------------------
(* The books: a posting checks that its own month is not locked and later   *)
(* moves that month's end and every later one, locked or not; the reversal  *)
(* of an older row moves the money of the older row's month, whose lock is  *)
(* not looked at.                                                           *)

BooksBegin(w) ==
    \E m \in Months \ monthLocked, k \in Months :
        /\ Idle(w)
        /\ req' = [req EXCEPT ![w] = [op |-> "books", at |-> "write", month |-> k]]
        /\ UNCHANGED tables

BooksWrite(w) ==
    /\ At(w, "books", "write")
    /\ \E amount \in {-1, 1} :
          monthEnd' = [m \in Months |-> IF m < req[w].month THEN monthEnd[m] ELSE monthEnd[m] + amount]
    /\ \A m \in Months : monthEnd'[m] \in 0..MaxFigure
    /\ Finish(w)
    /\ UNCHANGED <<recs, monthLocked>>

-----------------------------------------------------------------------------
(* A process opens the database: _migrate_reconciliation_versioning makes   *)
(* the highest version of each month current, closes the older ones, and    *)
(* locks the current row of a locked month. Rows of equal version, which it *)
(* would delete, do not arise (VersionsChain).                              *)

Highest(i) ==
    \A j \in DOMAIN recs : recs[j].month = recs[i].month => recs[j].version <= recs[i].version

Migrate ==
    /\ recs' = [i \in DOMAIN recs |->
                  [recs[i] EXCEPT
                     !.current = Highest(i),
                     !.locked = @ \/ ~Highest(i) \/ recs[i].month \in monthLocked]]
    /\ UNCHANGED <<monthLocked, monthEnd, req>>

Abort(w) == ~Idle(w) /\ Refuse(w)

Record(w) == RecordBegin(w) \/ RecordCash(w) \/ RecordCurrent(w) \/ RecordWrite(w)
Lock(w) == LockBegin(w) \/ LockCash(w) \/ LockBank(w) \/ LockCurrent(w) \/ LockState(w)
              \/ LockWrite(w) \/ LockRefused(w)
Unlock(w) == UnlockBegin(w) \/ UnlockCurrent(w) \/ UnlockWrite(w)
Books(w) == BooksBegin(w) \/ BooksWrite(w)

Step(w) == Record(w) \/ Lock(w) \/ Unlock(w) \/ Books(w) \/ Abort(w)

Next == (\E w \in Workers : Step(w)) \/ Migrate

Spec == Init /\ [][Next]_vars

-----------------------------------------------------------------------------
(* Properties *)

\* The type invariant of the tables and of the requests in flight.
TypeOK ==
    /\ recs \in Seq(RecRow)
    /\ monthLocked \subseteq Months
    /\ monthEnd \in [Months -> 0..MaxFigure]
    /\ req \in [Workers -> Request]

SameMonth(i) == {j \in DOMAIN recs : recs[j].month = recs[i].month}

\* The history of a month: whatever the interleaving of records, locks,
\* unlocks and restarts, its versions are 1, 2, ... in the order the rows were
\* written, and exactly the last is current. A lock that computed the next
\* version from a row read earlier must not fork the chain.
VersionsChain ==
    \A i \in DOMAIN recs :
        /\ recs[i].current <=> \A j \in SameMonth(i) : j <= i
        /\ \A j \in SameMonth(i) : j < i => recs[j].version < recs[i].version
        /\ recs[i].version # 1 =>
              \E j \in SameMonth(i) : j < i /\ recs[j].version = recs[i].version - 1

\* A month with a reconciliation has a current one (the last row of it).
MonthsCurrent ==
    \A i \in DOMAIN recs : \E j \in SameMonth(i) : i <= j /\ recs[j].current

\* A lock or an unlock that has read the current row still names a row of its
\* month, of the version it read.
HeldRows ==
    \A w \in Workers :
        LET r == req[w] IN
        r.op \in {"lock", "unlock"} /\ r.at \in {"state", "write"} =>
            /\ r.id \in DOMAIN recs
            /\ recs[r.id].month = r.month
            /\ r.op = "lock" => r.cur.version = recs[r.id].version

\* The inductive strengthening of VersionsChain (ReconciliationProofs).
VersionsInv == TypeOK /\ VersionsChain /\ MonthsCurrent /\ HeldRows

-----------------------------------------------------------------------------
(* What holds as long as requests are served one at a time (invariants and  *)
(* steps; MCReconciliation says when).                                      *)

\* The two places that say a month is locked agree: a row is open for
\* corrections exactly if it is the current row of an unlocked month. unlock
\* merges its two updates into one commit so that they cannot disagree.
LockAgreement ==
    \A i \in DOMAIN recs :
        recs[i].locked <=> (~recs[i].current \/ recs[i].month \in monthLocked)

\* A locked reconciliation is a record of the past: no step changes its figure.
SnapshotsStand ==
    \A i \in DOMAIN recs : recs[i].locked => recs'[i].figure = recs[i].figure

\* lock_reconciliation_month makes a new version only if the figures changed:
\* a month's consecutive versions never show the same figure.
VersionsDiffer ==
    \A i, j \in DOMAIN recs :
        recs[i].month = recs[j].month /\ recs[i].version = recs[j].version + 1
            => recs[i].figure # recs[j].figure

\* A month is locked at its live month-end figure, on the first lock and on
\* every relock.
LockedAtLive ==
    \A m \in monthLocked' \ monthLocked :
        \A i \in DOMAIN recs' :
            recs'[i].month = m /\ recs'[i].current => recs'[i].figure = monthEnd[m]
=============================================================================
