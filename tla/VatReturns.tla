------------------------------ MODULE VatReturns ------------------------------
(***************************************************************************)
(* The VAT module: the firm's quarter cycle, the VAT columns of the rows   *)
(* of office_cashbook, and the returns that are drafted from them and      *)
(* submitted (database.py, app.py, lib/vat.py).                            *)
(*                                                                         *)
(* An action is one database transaction of a request.  Dates are calendar *)
(* months, numbered; a quarter is named, as in the code, by the month it   *)
(* ends with.  Of a row only what its VAT depends on is kept; the office   *)
(* account itself is OfficeAccount.  Of the nine boxes of a return it has  *)
(* box 1 (VAT of receipts) and box 4 (VAT of payments): boxes 6 and 7 are  *)
(* summed over the same rows, the others are 0 or a difference of these.   *)
(***************************************************************************)
EXTENDS Integers, Sequences, Functions

CONSTANTS
    Workers,    \* processes or threads that serve requests
    Cycles,     \* quarter cycles an admin may choose
    Today,      \* the months in which requests are served
    Starts,     \* period starts an admin may enter; 0 is none
    Imports,    \* what an approved import may hold: sequences of new rows
    EditedVat,  \* the VAT an edit may give a row; 0 unticks it
    Typed,      \* boxes a user may type over the calculated ones
    MaxRows,    \* bound on the rows of office_cashbook
    NoCycle, NoKey, NoBoxes   \* NULL columns

\* A cycle is the remainder that its quarter ends leave when divided by 3.
ASSUME CyclesAssumption == Cycles \subseteq 0..2 /\ NoCycle \notin Cycles
ASSUME MonthsAssumption == Today \subseteq Nat \ {0} /\ Starts \subseteq Nat
ASSUME NullsAssumption == NoKey \notin Nat
ASSUME VatAssumption == EditedVat \subseteq Nat

Kinds == {"Receipt", "Payment"}
Boxes == [output : Nat, input : Nat]
NewRow == [date : Nat \ {0}, kind : Kinds, vat : Nat, cleared : BOOLEAN]

ASSUME ImportsAssumption == Imports \subseteq Seq(NewRow)
ASSUME TypedAssumption == Typed \subseteq Boxes /\ NoBoxes \notin Boxes
ASSUME BoundAssumption == MaxRows \in Nat

VARIABLES
    settings,   \* the row of vat_settings
    rows,       \* office_cashbook, a row's id its position
    returns,    \* vat_returns by quarter_key
    saved,      \* vat_saved_months: pairs of quarter and month
    pages,      \* the pages of returns that browsers hold: the form's key and boxes
    posted,     \* the boxes of every form submitted so far
    req         \* the request each worker is serving

tables == <<settings, rows, returns, saved>>
browsers == <<pages, posted>>
vars == <<settings, rows, returns, saved, pages, posted, req>>

-----------------------------------------------------------------------------
Row == [date : Nat \ {0}, kind : Kinds, vat : Nat, cleared : BOOLEAN,
        key : Nat \cup {NoKey}, excluded : BOOLEAN, review : BOOLEAN,
        reversed : BOOLEAN, of : Nat]

Return == [calc : Boxes \cup {NoBoxes}, final : Boxes, locked : BOOLEAN]

Page == [key : Nat, final : Boxes]

NoReq == [op |-> "none"]

ImportReq == [op : {"import"}, at : {"write"}, new : Seq(Row)]
ReverseReq == [op : {"reverse"}, at : {"vat", "write"}, row : Nat, copy : Row, today : Today]
ExcludeReq == [op : {"exclude"}, at : {"write"}, row : Nat]
EditReq == [op : {"edit"}, at : {"row"}, row : Nat, vat : EditedVat]
EditKeyReq == [op : {"edit"}, at : {"vat", "write"}, row : Nat, key : Nat \cup {NoKey}, vat : EditedVat]

\* The return's page, its submission and the saving of a month begin alike;
\* the form of a submission brings boxes of its own.
ScopeReq == [op : {"view", "submit", "month"}, at : {"rows"}, form : Boxes \cup {NoBoxes},
             key : Nat, cycle : Cycles, start : Starts]
FiguresReq == [op : {"view", "submit", "month"}, at : {"return"}, form : Boxes \cup {NoBoxes},
               key : Nat, quarter : Nat,
               boxes : Boxes, active : SUBSET Nat, unreviewed : BOOLEAN]
DraftReq == [op : {"view", "submit"}, at : {"draft"}, key : Nat, quarter : Nat,
             boxes : Boxes, final : Boxes]
SubmitReq == [op : {"submit"}, at : {"lock", "write"}, key : Nat, final : Boxes]
MonthReq == [op : {"month"}, at : {"write"}, quarter : Nat, active : SUBSET Nat]

SetupReq == [op : {"setup"}, at : {"scope", "save"}, old : Cycles \cup {NoCycle},
             cycle : Cycles, start : Starts]
CheckReq == [op : {"setup"}, at : {"return", "rows"}, old : Cycles,
             cycle : Cycles, start : Starts, quarter : Nat, since : Nat]
RecalcReq == [op : {"setup"}, at : {"recalc"}, cycle : Cycles]

Request ==
    {NoReq} \cup ImportReq \cup ReverseReq \cup ExcludeReq \cup EditReq \cup EditKeyReq
    \cup ScopeReq \cup FiguresReq
    \cup DraftReq \cup SubmitReq \cup MonthReq \cup SetupReq \cup CheckReq \cup RecalcReq

-----------------------------------------------------------------------------
(* Quarters and figures.                                                    *)

\* quarter_for_date: the first quarter end of cycle c at or after month m.
QuarterEnd(c, m) == m + ((c - m) % 3)

\* A period start inside the quarter moves its beginning.
QuarterStart(q, start) == IF start \in (q - 2)..q THEN start ELSE q - 2

InPeriod(row, q, start) == row.date \in QuarterStart(q, start)..q /\ row.date >= start

\* The rows of quarter q's return: dated in the quarter, not before the period
\* start, and keyed to no other quarter.
InReturn(row, q, start) == InPeriod(row, q, start) /\ row.key \in {q, NoKey}

Counted(row) == row.cleared /\ ~row.excluded /\ ~row.reversed

\* VAT activity, for the saving of months and the change of cycle, does not
\* look at reversal_status.
Active(row) == row.vat > 0 /\ row.cleared /\ ~row.excluded

VatOf(kind, q, start) ==
    SumFunction([i \in DOMAIN rows |->
        IF InReturn(rows[i], q, start) /\ Counted(rows[i]) /\ rows[i].kind = kind
        THEN rows[i].vat ELSE 0])

Figures(q, start) ==
    [output |-> VatOf("Receipt", q, start), input |-> VatOf("Payment", q, start)]

ActiveMonths(q, start) ==
    {rows[i].date : i \in {i \in DOMAIN rows : InReturn(rows[i], q, start) /\ Active(rows[i])}}

AwaitsReview(q, start) == \E i \in DOMAIN rows : InReturn(rows[i], q, start) /\ rows[i].review

Locked(q) == q \in DOMAIN returns /\ returns[q].locked

\* The boxes a user sees: freshly calculated, except those typed over before.
Shown(final, calc, fresh) == IF final # calc THEN final ELSE fresh

\* Mutant: the stored figure is kept when nobody typed it.
UserFigures_Stale(q, fresh) == IF q \in DOMAIN returns THEN returns[q].final ELSE fresh

UserFigures(q, fresh) ==
    IF q \notin DOMAIN returns \/ returns[q].calc = NoBoxes
    THEN fresh
    ELSE LET r == returns[q] IN
         [output |-> Shown(r.final.output, r.calc.output, fresh.output),
          input |-> Shown(r.final.input, r.calc.input, fresh.input)]

\* Mutant: a type that no box is summed over.
Opposite_Refund(kind) == IF kind = "Receipt" THEN "Refund" ELSE "Receipt"

Opposite(kind) == IF kind = "Receipt" THEN "Payment" ELSE "Receipt"

Room(n) == Len(rows) + n <= MaxRows

OutputsTyped == {b.output : b \in Typed}
InputsTyped == {b.input : b \in Typed}

-----------------------------------------------------------------------------
Idle(w) == req[w] = NoReq

At(w, op, step) == req[w].op = op /\ req[w].at = step

Finish(w) == req' = [req EXCEPT ![w] = NoReq]

Begin(w, r) == Idle(w) /\ req' = [req EXCEPT ![w] = r] /\ UNCHANGED <<tables, browsers>>

\* On to request r if the check passed, refused otherwise.
Proceed(w, ok, r) ==
    /\ req' = [req EXCEPT ![w] = IF ok THEN r ELSE NoReq]
    /\ UNCHANGED <<tables, browsers>>

Init ==
    /\ settings = [cycle |-> NoCycle, start |-> 0]
    /\ rows = <<>>
    /\ returns = <<>>
    /\ saved = {}
    /\ pages = {}
    /\ posted = {}
    /\ req = [w \in Workers |-> NoReq]

-----------------------------------------------------------------------------
(* The rows: imported with a key under the cycle that was read before,      *)
(* cleared, reversed, excluded and edited.                                  *)

Keyed(new) ==
    [date |-> new.date, kind |-> new.kind, vat |-> new.vat, cleared |-> new.cleared,
     key |-> IF settings.cycle = NoCycle \/ new.vat = 0 THEN NoKey
             ELSE QuarterEnd(settings.cycle, new.date),
     excluded |-> FALSE, review |-> FALSE, reversed |-> FALSE, of |-> 0]

ImportRead(w) ==
    \E new \in Imports :
        /\ Room(Len(new))
        /\ Begin(w, [op |-> "import", at |-> "write",
                     new |-> [i \in DOMAIN new |-> Keyed(new[i])]])

ImportWrite(w) ==
    /\ At(w, "import", "write")
    /\ Room(Len(req[w].new))
    /\ rows' = rows \o req[w].new
    /\ Finish(w)
    /\ UNCHANGED <<settings, returns, saved, browsers>>

\* An uncleared row clears (OfficeAccount has the whole request).
Clear(w) ==
    \E i \in DOMAIN rows :
        /\ Idle(w)
        /\ ~rows[i].cleared
        /\ rows' = [rows EXCEPT ![i].cleared = TRUE]
        /\ UNCHANGED <<settings, returns, saved, browsers, req>>

ReverseRead(w) ==
    \E i \in DOMAIN rows, today \in Today :
        /\ Room(1)
        /\ rows[i].of = 0 /\ ~rows[i].reversed /\ rows[i].cleared
        /\ Begin(w, [op |-> "reverse", at |-> IF rows[i].key = NoKey THEN "write" ELSE "vat",
                     row |-> i, copy |-> rows[i], today |-> today])

ReverseVat(w) ==
    /\ At(w, "reverse", "vat")
    /\ Proceed(w, ~Locked(req[w].copy.key), [req[w] EXCEPT !.at = "write"])

\* The compensating row: the columns as they were read, dated today.
Leg(r) ==
    [date |-> r.today, kind |-> Opposite(r.copy.kind), vat |-> r.copy.vat, cleared |-> TRUE,
     key |-> r.copy.key, excluded |-> FALSE, review |-> FALSE, reversed |-> FALSE, of |-> r.row]

ReverseWrite(w) ==
    /\ At(w, "reverse", "write")
    /\ Room(1)
    /\ rows' = Append([rows EXCEPT ![req[w].row].reversed = TRUE], Leg(req[w]))
    /\ Finish(w)
    /\ UNCHANGED <<settings, returns, saved, browsers>>

\* exclude_vat_transaction looks at no return; twice is as once.
ExcludeBegin(w) ==
    \E i \in DOMAIN rows :
        settings.cycle # NoCycle /\ Begin(w, [op |-> "exclude", at |-> "write", row |-> i])

ExcludeWrite(w) ==
    /\ At(w, "exclude", "write")
    /\ rows' = [rows EXCEPT ![req[w].row].excluded = TRUE]
    /\ Finish(w)
    /\ UNCHANGED <<settings, returns, saved, browsers>>

EditBegin(w) ==
    \E i \in DOMAIN rows, vat \in EditedVat :
        /\ settings.cycle # NoCycle
        /\ Begin(w, [op |-> "edit", at |-> "row", row |-> i, vat |-> vat])

\* Only the return that a row's key names is looked up.
EditRow(w) ==
    LET r == req[w]
        key == rows[r.row].key
    IN
    /\ At(w, "edit", "row")
    /\ Proceed(w, TRUE, [op |-> "edit", at |-> IF key = NoKey THEN "write" ELSE "vat",
                          row |-> r.row, key |-> key, vat |-> r.vat])

EditVat(w) ==
    /\ At(w, "edit", "vat")
    /\ Proceed(w, ~Locked(req[w].key), [req[w] EXCEPT !.at = "write"])

EditWrite(w) ==
    /\ At(w, "edit", "write")
    /\ rows' = [rows EXCEPT ![req[w].row].vat = req[w].vat, ![req[w].row].review = TRUE]
    /\ Finish(w)
    /\ UNCHANGED <<settings, returns, saved, browsers>>

-----------------------------------------------------------------------------
(* _vat_quarter_context, with which the return's page, its submission and   *)
(* the saving of a month begin: settings, rows and return are read in       *)
(* transactions of their own. The key may be a quarter of another cycle (a  *)
(* page kept from before a change); the quarter is the one it falls in.     *)

Scope(op, key, form) ==
    [op |-> op, at |-> "rows", form |-> form, key |-> key,
     cycle |-> settings.cycle, start |-> settings.start]

ContextSettings(w) ==
    \E op \in {"view", "month"}, c \in Cycles, m \in Today :
        /\ settings.cycle # NoCycle
        /\ Begin(w, Scope(op, QuarterEnd(c, m), NoBoxes))

\* vat_return_submit is given the form of a page, however old, with boxes that
\* the user has left as they are or typed over.
SubmitSettings(w) ==
    \E page \in pages :
    \E form \in [output : {page.final.output} \cup OutputsTyped,
                 input : {page.final.input} \cup InputsTyped] :
        /\ Idle(w) /\ settings.cycle # NoCycle
        /\ req' = [req EXCEPT ![w] = Scope("submit", page.key, form)]
        /\ posted' = posted \cup {form}
        /\ UNCHANGED <<tables, pages>>

ContextRows(w) ==
    LET r == req[w]
        q == QuarterEnd(r.cycle, r.key)
    IN
    /\ r.op \in {"view", "submit", "month"} /\ r.at = "rows"
    /\ Proceed(w, TRUE,
           [op |-> r.op, at |-> "return", form |-> r.form, key |-> r.key, quarter |-> q,
            boxes |-> Figures(q, r.start), active |-> ActiveMonths(q, r.start),
            unreviewed |-> AwaitsReview(q, r.start)])

\* vat_return: an open return is drafted with the figures shown. The page of a
\* submitted one has the form as well.
ViewReturn(w) ==
    LET r == req[w]
        shown == UserFigures(r.quarter, r.boxes)
    IN
    /\ At(w, "view", "return")
    /\ IF Locked(r.quarter)
       THEN Finish(w) /\ pages' = pages \cup {[key |-> r.quarter, final |-> shown]}
       ELSE /\ req' = [req EXCEPT ![w] = [op |-> "view", at |-> "draft", key |-> r.key,
                                          quarter |-> r.quarter, boxes |-> r.boxes,
                                          final |-> shown]]
            /\ UNCHANGED pages
    /\ UNCHANGED <<tables, posted>>

Submittable(r) == ~Locked(r.quarter) /\ ~r.unreviewed

\* vat_return_submit: refused when submitted or with rows to review. Of a box
\* that does not read as a number the calculated figure is taken.
SubmitReturn(w) ==
    LET r == req[w] IN
    /\ At(w, "submit", "return")
    /\ \E final \in [output : {r.form.output, r.boxes.output},
                     input : {r.form.input, r.boxes.input}] :
          Proceed(w, Submittable(r),
              [op |-> "submit", at |-> "draft", key |-> r.key, quarter |-> r.quarter,
               boxes |-> r.boxes, final |-> final])

Draft(r) == [calc |-> r.boxes, final |-> r.final, locked |-> FALSE]

\* Mutant: the upsert of a draft lacks its WHERE is_locked = 0.
WithDraft_Unguarded(r) ==
    [q \in DOMAIN returns \cup {r.quarter} |-> IF q = r.quarter THEN Draft(r) ELSE returns[q]]

WithDraft(r) ==
    [q \in DOMAIN returns \cup {r.quarter} |->
        IF q = r.quarter /\ ~Locked(q) THEN Draft(r) ELSE returns[q]]

\* The request for the page then ends with the page.
SaveDraft(w) ==
    LET r == req[w] IN
    /\ r.op \in {"view", "submit"} /\ r.at = "draft"
    /\ returns' = WithDraft(r)
    /\ req' = [req EXCEPT ![w] =
          IF r.op = "submit"
          THEN [op |-> "submit", at |-> "lock", key |-> r.key, final |-> r.final]
          ELSE NoReq]
    /\ pages' = IF r.op = "view"
                THEN pages \cup {[key |-> r.quarter, final |-> r.final]} ELSE pages
    /\ UNCHANGED <<settings, rows, saved, posted>>

\* Mutant: submit_vat_return does not look whether the key is submitted.
SubmitLock_Unchecked(w) ==
    At(w, "submit", "lock") /\ Proceed(w, TRUE, [req[w] EXCEPT !.at = "write"])

\* submit_vat_return, which is given the key of the form, not the quarter.
SubmitLock(w) ==
    /\ At(w, "submit", "lock")
    /\ Proceed(w, ~Locked(req[w].key), [req[w] EXCEPT !.at = "write"])

\* The calculated boxes stay those of the draft, if there is one.
SubmitWrite(w) ==
    LET k == req[w].key IN
    /\ At(w, "submit", "write")
    /\ returns' = [q \in DOMAIN returns \cup {k} |->
          IF q # k THEN returns[q]
          ELSE [calc |-> IF k \in DOMAIN returns THEN returns[k].calc ELSE NoBoxes,
                final |-> req[w].final, locked |-> TRUE]]
    /\ Finish(w)
    /\ UNCHANGED <<settings, rows, saved, browsers>>

\* _save_vat_month_action: refused for a submitted quarter.
MonthReturn(w) ==
    LET r == req[w] IN
    /\ At(w, "month", "return")
    /\ Proceed(w, ~Locked(r.quarter) /\ r.active # {},
           [op |-> "month", at |-> "write", quarter |-> r.quarter, active |-> r.active])

\* A month already saved is left as it is.
MonthWrite(w) ==
    /\ At(w, "month", "write")
    /\ \E m \in req[w].active : saved' = saved \cup {<<req[w].quarter, m>>}
    /\ Finish(w)
    /\ UNCHANGED <<settings, rows, returns, browsers>>

-----------------------------------------------------------------------------
(* vat_setup: activation or a change of cycle. A change from one cycle to   *)
(* another is refused while the current quarter has VAT rows not submitted, *)
(* and recalculates every row's key in a transaction after the save.        *)

SetupRead(w) ==
    \E c \in Cycles, s \in Starts :
        Begin(w, [op |-> "setup",
                  at |-> IF settings.cycle \in {NoCycle, c} THEN "save" ELSE "scope",
                  old |-> settings.cycle, cycle |-> c, start |-> s])

\* has_unsubmitted_vat_in_open_quarter reads the settings again, for the
\* period start; the quarter is that of today.
SetupScope(w) ==
    LET r == req[w] IN
    \E today \in Today :
        /\ At(w, "setup", "scope")
        /\ Proceed(w, TRUE,
               [op |-> "setup", at |-> "return", old |-> r.old, cycle |-> r.cycle,
                start |-> r.start, quarter |-> QuarterEnd(r.old, today),
                since |-> settings.start])

ToSave(r) == [op |-> "setup", at |-> "save", old |-> r.old, cycle |-> r.cycle, start |-> r.start]

SetupReturn(w) ==
    LET r == req[w] IN
    /\ At(w, "setup", "return")
    /\ Proceed(w, TRUE, IF Locked(r.quarter) THEN ToSave(r) ELSE [r EXCEPT !.at = "rows"])

SetupRows(w) ==
    LET r == req[w] IN
    /\ At(w, "setup", "rows")
    /\ Proceed(w, \A i \in DOMAIN rows :
                      ~(InPeriod(rows[i], r.quarter, r.since) /\ Active(rows[i])),
               ToSave(r))

SetupSave(w) ==
    LET r == req[w] IN
    /\ At(w, "setup", "save")
    /\ settings' = [cycle |-> r.cycle, start |-> r.start]
    /\ req' = [req EXCEPT ![w] =
          IF r.old \in {NoCycle, r.cycle} THEN NoReq
          ELSE [op |-> "setup", at |-> "recalc", cycle |-> r.cycle]]
    /\ UNCHANGED <<rows, returns, saved, browsers>>

SetupRecalc(w) ==
    /\ At(w, "setup", "recalc")
    /\ rows' = [i \in DOMAIN rows |->
                   [rows[i] EXCEPT !.key = QuarterEnd(req[w].cycle, rows[i].date)]]
    /\ Finish(w)
    /\ UNCHANGED <<settings, returns, saved, browsers>>

Deactivate(w) ==
    /\ Idle(w)
    /\ settings' = [cycle |-> NoCycle, start |-> 0]
    /\ UNCHANGED <<rows, returns, saved, browsers, req>>

\* The worker is killed, or gives up on a locked database.
Abort(w) == ~Idle(w) /\ Finish(w) /\ UNCHANGED <<tables, browsers>>

-----------------------------------------------------------------------------
Import(w) == ImportRead(w) \/ ImportWrite(w)
Reverse(w) == ReverseRead(w) \/ ReverseVat(w) \/ ReverseWrite(w)
Exclude(w) == ExcludeBegin(w) \/ ExcludeWrite(w)
Edit(w) == EditBegin(w) \/ EditRow(w) \/ EditVat(w) \/ EditWrite(w)
Context(w) == ContextSettings(w) \/ SubmitSettings(w) \/ ContextRows(w)
Prepare(w) == ViewReturn(w) \/ SubmitReturn(w) \/ SaveDraft(w)
Submit(w) == SubmitLock(w) \/ SubmitWrite(w)
SaveMonth(w) == MonthReturn(w) \/ MonthWrite(w)
Setup(w) ==
    \/ SetupRead(w) \/ SetupScope(w) \/ SetupReturn(w) \/ SetupRows(w)
    \/ SetupSave(w) \/ SetupRecalc(w) \/ Deactivate(w)

Step(w) ==
    \/ Import(w) \/ Clear(w) \/ Reverse(w) \/ Exclude(w) \/ Edit(w)
    \/ Context(w) \/ Prepare(w) \/ Submit(w) \/ SaveMonth(w) \/ Setup(w) \/ Abort(w)

Next == \E w \in Workers : Step(w)

Spec == Init /\ [][Next]_vars

-----------------------------------------------------------------------------
(* What holds whatever the workers interleave.                              *)

\* Every table and request keeps to its columns.
TypeOK ==
    /\ settings \in [cycle : Cycles \cup {NoCycle}, start : Starts \cup {0}]
    /\ rows \in Seq(Row)
    /\ DOMAIN returns \subseteq Nat /\ \A q \in DOMAIN returns : returns[q] \in Return
    /\ saved \subseteq Nat \X Nat
    /\ pages \subseteq Page /\ posted \subseteq Boxes
    /\ req \in [Workers -> Request]

Resubmitted(w, q) == At(w, "submit", "write") /\ req[w].key = q

LockedReturnKept ==
    \A q \in DOMAIN returns : returns[q].locked =>
        /\ q \in DOMAIN returns' /\ returns'[q].locked
        /\ returns'[q].calc = returns[q].calc
        /\ returns'[q] # returns[q] => \E w \in Workers : Resubmitted(w, q)

\* A submitted return stays submitted with the figures it was calculated from,
\* whatever page is opened, drafted or edited meanwhile; its boxes change only
\* by a second submission that passed its check before the first was stored.
LockedReturnsStand == [][LockedReturnKept]_vars

Follows(final, calc) ==
    /\ final.output = calc.output \/ \E form \in posted : final.output = form.output
    /\ final.input = calc.input \/ \E form \in posted : final.input = form.input

\* A figure gets into the draft of an open return by its calculation or by a form
\* that was submitted, and in no other way: opening the page never keeps one that
\* was calculated before (_vat_user_figures). A submitted form may hold one that
\* was calculated for an earlier page.
DraftsFollow == \A q \in DOMAIN returns : ~returns[q].locked => Follows(returns[q].final, returns[q].calc)

-----------------------------------------------------------------------------
(* What holds as long as requests are served one at a time (steps;          *)
(* MCVatReturns says when).                                                 *)

\* A submitted quarter is closed: its return stays as it is and no month of it
\* is saved any more.
ClosedQuartersRest ==
    \A q \in DOMAIN returns : returns[q].locked =>
        /\ returns'[q] = returns[q]
        /\ \A m \in saved' \ saved : m[1] # q

InCycle(q) == settings.cycle # NoCycle /\ QuarterEnd(settings.cycle, q) = q

NewlyLocked(q) == ~Locked(q) /\ Locked(q)'

\* A return of the cycle is submitted with the figures that its rows have at
\* that moment as its calculated boxes, and with no row left to review.
SubmittedWhole ==
    \A q \in DOMAIN returns' : NewlyLocked(q) /\ InCycle(q) =>
        /\ returns'[q].calc = Figures(q, settings.start)
        /\ ~AwaitsReview(q, settings.start)

\* What may still change the figures of a submitted quarter q: an exclusion, a
\* clearance, an imported row, the edit or reversal of a row without a key, or
\* a recalculation of keys.
MayDrift(w) ==
    \/ \E i \in DOMAIN rows : rows[i].excluded # rows'[i].excluded \/ rows[i].cleared # rows'[i].cleared
    \/ At(w, "import", "write")
    \/ At(w, "edit", "write") /\ rows[req[w].row].key = NoKey
    \/ At(w, "reverse", "write") /\ req[w].copy.key = NoKey
    \/ At(w, "setup", "recalc")

\* Otherwise the rows of a submitted quarter go on to give its figures: an edit
\* or a reversal never changes them behind the return's back.
FiguresDrift ==
    \A q \in DOMAIN returns :
        (Locked(q) /\ InCycle(q) /\ settings' = settings
            /\ Figures(q, settings.start)' # Figures(q, settings.start))
        => \E w \in Workers : MayDrift(w)

-----------------------------------------------------------------------------
(* What the code says and does not do, even one at a time.                  *)

NetVat(row) == IF ~Counted(row) THEN 0 ELSE IF row.kind = "Receipt" THEN row.vat ELSE -row.vat

\* A row and the entry that reverses it in the same return owe nothing together.
ReversalNeutral ==
    \A j \in DOMAIN rows :
        LET leg == rows[j] IN
        (leg.of # 0 /\ ~leg.excluded /\ leg.key # NoKey /\ InCycle(leg.key)
            /\ InReturn(leg, leg.key, settings.start)
            /\ InReturn(rows[leg.of], leg.key, settings.start))
        => NetVat(rows[leg.of]) + NetVat(leg) = 0
=============================================================================
