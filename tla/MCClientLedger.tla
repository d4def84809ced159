---------------------------- MODULE MCClientLedger ----------------------------
(* Small instances of ClientLedger for TLC. A behaviour either serves        *)
(* requests one at a time throughout (oneByOne), to MaxRows rows, or         *)
(* interleaves those for one client freely, to MaxTogether.                  *)
EXTENDS ClientLedgerRefinement, TLC

CONSTANTS c1, c2, w1, w2, MaxTogether

VARIABLE oneByOne

MCvars == <<vars, oneByOne>>

\* Two dates in two months.
TwoDates == {1, 2}
OwnMonth == [d \in TwoDates |-> d]

Form(c, d, a, k, s, o) ==
    [client |-> c, date |-> d, amount |-> a, kind |-> k, source |-> s, override |-> o]

\* Money comes in on either date, by transfer or by cheque, and goes out as an
\* ordinary payment, as a cheque, or forced by an override on the other client.
MixedForms ==
    {Form(c1, 1, 2, "Receipt", "Other", FALSE),
     Form(c1, 2, 1, "Payment", "Other", FALSE),
     Form(c1, 1, 2, "Transfer", "Other", FALSE),
     Form(c1, 1, 1, "Payment", "Cheque", FALSE),
     Form(c1, 2, 2, "Receipt", "Cheque", FALSE),
     Form(c2, 1, 1, "Payment", "Other", TRUE)}

MixedFees == {[client |-> c1, date |-> 1, amount |-> 2]}

MCInit == Init /\ oneByOne \in BOOLEAN

\* A request that adds rows begins, or adds them.
Adds ==
    \/ Len(ledger') # Len(ledger)
    \/ \E w \in Workers : Idle(w) /\ req'[w].op \in {"post", "fee", "reverse"}

\* The second client's matter stays open, and money goes in and out of it only
\* one request at a time.
SecondClient ==
    /\ matter'[c2] = matter[c2]
    /\ \A w \in Workers : req'[w].op = "post" /\ req'[w].form.client = c2 => oneByOne

MCNext ==
    /\ UNCHANGED oneByOne
    /\ \E w \in Workers :
          Step(w) /\ (oneByOne => Alone(w))
    /\ SecondClient
    /\ ~oneByOne /\ Len(ledger) >= MaxTogether => ~Adds

MCSpec == MCInit /\ [][MCNext]_MCvars

Symmetry == Permutations({w1, w2})

-----------------------------------------------------------------------------
(* One at a time: what ClientLedger states of single requests.              *)

\* A posting has one active leg and counts at most once, and the office has
\* the fees that the clients' books show as paid.
SerialCountedOnce == oneByOne => ReversedOnce /\ FeesMatch

\* What a request promises by its checks it does: locked months and closed
\* matters take no rows, cleared rows stay cleared, fees are covered.
SerialChecksHold ==
    [][oneByOne =>
          /\ LockedMonthsClosed /\ LockedFiguresCauses
          /\ ClosedMattersRest /\ ClearedFinal /\ FeeTransferFunded]_MCvars

\* Requests only ever record postings and turn them on and off, as ClientMoney
\* says (ImplementsClientMoney of the behaviours that serve one at a time); a
\* step that leaves the three tables alone leaves the postings.
SerialClientMoney ==
    /\ oneByOne => Money!Init
    /\ [][oneByOne => UNCHANGED <<ledger, cashbook, fees>> \/ [Money!Next]_Postings]_MCvars
=============================================================================
