------------------------------ MODULE MCSsoLogin ------------------------------
(* Small instances of SsoLogin for TLC: within a second, three launches of   *)
(* two people, after two of them requests, one at a time (oneByOne); or over *)
(* two seconds, two launches of one person, interleaved.                     *)
EXTENDS SsoLogin, TLC

CONSTANTS w1, w2, t1, t2, t3, p1, p2, e1, e2

VARIABLE oneByOne

MCvars == <<vars, oneByOne>>

\* Requests, which alone look at whether an account is active, are served one
\* at a time.
MCInit ==
    /\ Init
    /\ oneByOne \in BOOLEAN
    /\ oneByOne \/ \A u \in Rows : users[u].active

Issued == {t \in Tokens : tokens[t] # NoToken}

\* To keep the search small the early tokens carry the role of staff.
Issue(t) ==
    /\ IssueToken(t)
    /\ tokens'[t].admin <=> tokens'[t].id.kind = "user"
    /\ oneByOne \/ \A s \in Issued : Issued = {s} /\ tokens'[t].id.of = tokens[s].id.of

OthersIdle(w) == \A v \in Workers \ {w} : At(v, "idle")

MCNext ==
    /\ UNCHANGED oneByOne
    /\ \/ \E t \in Tokens : Issue(t)
       \/ \E w \in Workers :
             \/ LoginStep(w) /\ (oneByOne => OthersIdle(w))
             \/ RequestStep(w) /\ oneByOne /\ OthersIdle(w) /\ Cardinality(Issued) <= 2
             \/ Restart(w)
       \/ Tick /\ ~oneByOne

MCSpec == MCInit /\ [][MCNext]_MCvars

Symmetry ==
    Permutations({w1, w2}) \cup Permutations({t1, t2, t3})
        \cup Permutations({p1, p2}) \cup Permutations({e1, e2})

Names == [email \in Emails |-> "clerk"]

-----------------------------------------------------------------------------
\* Logins one at a time, whatever fails in them, leave one account to a portal
\* id and one to an address: none is provisioned while another can be resolved
\* (portal_bridge.py, ensure_portal_user_in_ledger).
SerialOneAccount ==
    oneByOne =>
        \A u, v \in Rows :
            users[u].id = users[v].id \/ users[u].email = users[v].email => u = v
=============================================================================
