----------------------------- MODULE MCVatReturns -----------------------------
(* Small instances of VatReturns for TLC. A behaviour either serves requests *)
(* one at a time throughout (oneByOne) or interleaves them freely; it begins *)
(* at most MaxRequests of them, and at most MaxTogether when interleaved.    *)
EXTENDS VatReturns, TLC

CONSTANTS w1, w2, MaxRequests, MaxTogether

VARIABLES oneByOne, begun

MCvars == <<vars, oneByOne, begun>>

New(d, k, v, c) == [date |-> d, kind |-> k, vat |-> v, cleared |-> c]

\* A cleared receipt with VAT, an uncleared payment with VAT and a receipt
\* without, in two months.
MixedImports ==
    {<<New(2, "Receipt", 1, TRUE)>>,
     <<New(2, "Payment", 2, FALSE), New(1, "Receipt", 0, TRUE)>>}

\* Figures that no sum of VAT reaches.
TypedOver == {[output |-> 9, input |-> 8]}

MCInit == Init /\ oneByOne \in BOOLEAN /\ begun = 0

\* A request begins, or one that is a single transaction is served.
Begins(w) == Idle(w)

Bound == IF oneByOne THEN MaxRequests ELSE MaxTogether

Serve(w) ==
    /\ Step(w)
    /\ oneByOne => \A v \in Workers \ {w} : Idle(v)
    /\ Begins(w) => begun < Bound
    /\ begun' = IF Begins(w) THEN begun + 1 ELSE begun
    /\ UNCHANGED oneByOne

\* Every request that the bound allows has been served.
Done == begun = Bound /\ (\A w \in Workers : Idle(w)) /\ UNCHANGED MCvars

MCNext == (\E w \in Workers : Serve(w)) \/ Done

MCSpec == MCInit /\ [][MCNext]_MCvars

Symmetry == Permutations({w1, w2})

-----------------------------------------------------------------------------
(* One at a time: what VatReturns states of single requests.                *)

\* A return is submitted with the figures of its rows and nothing to review;
\* it then stays as it is and takes no saved month, and no edit or reversal of
\* a keyed row changes the figures of its rows.
SerialReturnsStand ==
    [][oneByOne => SubmittedWhole /\ ClosedQuartersRest /\ FiguresDrift]_MCvars
=============================================================================
