--------------------------- MODULE MCReconciliation ---------------------------
(* Small instances of Reconciliation for TLC. A behaviour either serves      *)
(* requests one at a time throughout (oneByOne), for every month and to      *)
(* MaxVersions rows, or interleaves those of one month freely, to            *)
(* MaxTogether.                                                              *)
EXTENDS Reconciliation, TLC

CONSTANTS w1, w2, MaxTogether

VARIABLE oneByOne

MCvars == <<vars, oneByOne>>

MCInit == Init /\ oneByOne \in BOOLEAN

\* What the bounds of an interleaved behaviour allow.
Bounded ==
    /\ Len(recs') <= MaxTogether
    /\ \A w \in Workers : Idle(w) /\ ~Idle(w)' => req'[w].month = 1

MCNext ==
    /\ UNCHANGED oneByOne
    /\ \/ Migrate
       \/ \E w \in Workers :
             Step(w) /\ (oneByOne => \A v \in Workers \ {w} : Idle(v))
    /\ ~oneByOne => Bounded

MCSpec == MCInit /\ [][MCNext]_MCvars

Symmetry == Permutations({w1, w2})

-----------------------------------------------------------------------------
(* One at a time: what Reconciliation states of single requests.            *)

\* The two places that say a month is locked agree, and versions differ.
SerialRecordsAgree == oneByOne => LockAgreement /\ VersionsDiffer

\* A locked reconciliation keeps its figure, which was the live one.
SerialLocksStand == [][oneByOne => SnapshotsStand /\ LockedAtLive]_MCvars
=============================================================================
