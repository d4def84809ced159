\* Two processes, one browser, two people whose two addresses suggest one user
\* name; launches one at a time or interleaved.
CONSTANTS
    w1 = w1
    w2 = w2
    t1 = t1
    t2 = t2
    t3 = t3
    p1 = p1
    p2 = p2
    e1 = e1
    e2 = e2
    Workers = {w1, w2}
    Browsers = {"b1"}
    Tokens = {t1, t2, t3}
    People = {p1, p2}
    Emails = {e1, e2}
    NameOf <- Names
    TTL = 0
    Timeout = 0
    MaxTime = 1
    MaxUsers = 3
SPECIFICATION MCSpec
SYMMETRY Symmetry
INVARIANTS
    TypeOK
    TokenSingleUse
    SerialOneAccount
PROPERTIES
    AccountsKeepPerson
