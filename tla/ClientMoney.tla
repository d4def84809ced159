----------------------------- MODULE ClientMoney -----------------------------
(***************************************************************************)
(* What the client-money books promise, without rows, cheques or legs: a   *)
(* posting moves a fixed sum for one client, and at any time it either     *)
(* counts in full or not at all.  A fee posting moves its sum into the     *)
(* office account exactly while it is out of the client's.  One step       *)
(* records one posting, or turns one posting on or off.                    *)
(***************************************************************************)
EXTENDS Integers

VARIABLE postings   \* by id: whose money, the sum, whether it is a fee, and
                    \* what the client's and the office's books hold of it

\* All or nothing, and the office has what a fee took from the client.
Settled(p) ==
    /\ p.held \in {0, p.sum}
    /\ p.office = IF p.isFee THEN -p.held ELSE 0

Turned(p) ==
    LET held == p.sum - p.held
    IN  [p EXCEPT !.held = held, !.office = IF p.isFee THEN -held ELSE 0]

Init == postings = [id \in {} |-> {}]

Record ==
    \E id \in DOMAIN postings' \ DOMAIN postings :
        /\ Settled(postings'[id])
        /\ postings' = [p \in DOMAIN postings \cup {id} |->
                           IF p = id THEN postings'[id] ELSE postings[p]]

Turn == \E id \in DOMAIN postings : postings' = [postings EXCEPT ![id] = Turned(@)]

Next == Record \/ Turn

Spec == Init /\ [][Next]_postings
=============================================================================
