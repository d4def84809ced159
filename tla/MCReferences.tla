----------------------------- MODULE MCReferences -----------------------------
(* Small instances of References for TLC. A behaviour is about transaction   *)
(* ids or about client codes (topic). It serves requests one at a time       *)
(* throughout (oneByOne), or interleaves those about ids freely, without a   *)
(* reset, until a reservation is overtaken.                                  *)
EXTENDS References, TLC

CONSTANTS w1, w2, b1, b2

VARIABLES
    topic,
    oneByOne,
    overtaken, \* whether a reservation was overtaken
    wiped      \* whether a reset has deleted the clients

MCvars == <<vars, topic, oneByOne, overtaken, wiped>>

\* A posting; a fee transfer, and the reversal of a posting.
Postings == {<<"ledger", "cashbook">>}
Reserved == {<<"ledger", "cashbook", "fees">>, <<"ledger", "cashbook">>}

MCInit ==
    /\ Init
    /\ topic \in {"ids", "codes"}
    /\ oneByOne \in IF topic = "ids" THEN BOOLEAN ELSE {TRUE}
    /\ overtaken = FALSE
    /\ wiped = FALSE

MCStep(w) ==
    \/ /\ topic = "ids"
       /\ IdStep(w)
       /\ overtaken' = Overtaken(w)
       /\ UNCHANGED wiped
    \/ topic = "codes" /\ CodeStep(w) /\ UNCHANGED <<overtaken, wiped>>
    \/ (Busy(w) \/ Abort(w)) /\ UNCHANGED <<overtaken, wiped>>
    \/ oneByOne /\ Reset(w, FALSE) /\ UNCHANGED <<overtaken, wiped>>
    \/ topic = "codes" /\ Reset(w, TRUE) /\ wiped' = TRUE /\ UNCHANGED overtaken

MCNext ==
    /\ ~overtaken
    /\ UNCHANGED <<topic, oneByOne>>
    /\ \/ topic = "ids" /\ NewYear /\ UNCHANGED <<overtaken, wiped>>
       \/ \E w \in Workers :
             MCStep(w) /\ (oneByOne => \A v \in Workers \ {w} : Idle(v))

MCSpec == MCInit /\ [][MCNext]_MCvars

Symmetry == Permutations({w1, w2}) \cup Permutations({b1, b2})

-----------------------------------------------------------------------------
\* Every number names one thing: an id one row, until a reservation is
\* overtaken; and one at a time, until the clients are deleted under open
\* forms, a code one form or client (reserve_next_transaction_id, new_client).
NumbersUnique ==
    /\ ~overtaken => IdsUnique
    /\ ~wiped => CodesApart
=============================================================================
