------------------------ MODULE ClientLedgerRefinement ------------------------
(***************************************************************************)
(* ClientLedger served one request at a time implements ClientMoney: a     *)
(* posting is a row of depth 0 with all the legs that reversals hung below *)
(* it.                                                                     *)
(***************************************************************************)
EXTENDS ClientLedger

\* The posting that row i goes back to.
Origin[i \in DOMAIN ledger] ==
    IF ledger[i].parent = 0 THEN i ELSE Origin[ledger[i].parent]

Legs(i) == {j \in DOMAIN ledger : Origin[j] = i}

PostingOf(i) ==
    [client |-> ledger[i].client,
     sum    |-> Sign(ledger[i].kind) * ledger[i].amount,
     isFee  |-> \E f \in fees : f.link = i,
     held   |-> SumFunctionOnSet(LedgerDelta(Clients, Dates), Legs(i)),
     office |-> SumFunction([f \in {f \in fees : f.link \in Legs(i)} |-> f.amount])]

Postings == [i \in {i \in DOMAIN ledger : ledger[i].depth = 0} |-> PostingOf(i)]

Money == INSTANCE ClientMoney WITH postings <- Postings

\* Requests only ever record postings and turn them on and off: reversing and
\* reinstating a posting any number of times, clearing and declining its
\* cheque, never counts it twice or in part, in the client's books or in the
\* office's.
ImplementsClientMoney == Money!Spec
=============================================================================
