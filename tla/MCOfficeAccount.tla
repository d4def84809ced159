--------------------------- MODULE MCOfficeAccount ---------------------------
(* Small instances of OfficeAccount for TLC. A behaviour either serves       *)
(* requests one at a time throughout (oneByOne) or interleaves them freely.  *)
EXTENDS OfficeAccount, TLC

CONSTANTS w1, w2, b1, q1

VARIABLE oneByOne

MCvars == <<vars, oneByOne>>

\* Two dates in two months.
TwoDates == {1, 2}
OwnMonth == [d \in TwoDates |-> d]

Income(d, a, s) == [date |-> d, amount |-> a, kind |-> "Receipt", source |-> s]
Expense(d, a, s) == [date |-> d, amount |-> a, kind |-> "Payment", source |-> s]

\* Income, expenses on either date, and a cheque paid in and out.
MixedForms ==
    {Income(1, 2, "Other"), Income(2, 1, "Cheque"),
     Expense(1, 2, "Cheque"), Expense(1, 2, "Other"), Expense(2, 1, "Other")}

Kept(d, a, k, s, t, q) ==
    [date |-> d, amount |-> a, kind |-> k, source |-> s, status |-> t, quarter |-> q]

\* The review may untick every row, keep one that is tagged with a quarter, or
\* keep two, the second an uncleared cheque.
MixedReviews ==
    [b \in Batches |->
        {<<>>,
         <<Kept(1, 2, "Receipt", "Other", "Cleared", q1)>>,
         <<Kept(1, 1, "Receipt", "Other", "Cleared", NoQuarter),
           Kept(2, 2, "Payment", "Cheque", "Pending", NoQuarter)>>}]

MCInit == Init /\ oneByOne \in BOOLEAN

MCNext ==
    /\ UNCHANGED oneByOne
    /\ \E w \in Workers :
          Step(w) /\ (oneByOne => \A v \in Workers \ {w} : Idle(v))

MCSpec == MCInit /\ [][MCNext]_MCvars

Symmetry == Permutations({w1, w2})

-----------------------------------------------------------------------------
(* One at a time: what OfficeAccount states of single requests.             *)

\* A row is reversed at most once and then stays cleared, as the checks of
\* reversal_status and of the status promise.
SerialReversedOnce == oneByOne => ReversedOnce /\ ReversedCleared

\* What is closed stays as it is: the rows of a submitted VAT quarter, a locked
\* month but for imports, an import that was finished or cancelled.
SerialClosedRests == [][oneByOne => SubmittedRests /\ LockedMonthsTake /\ GoneBatchRests]_MCvars
=============================================================================
