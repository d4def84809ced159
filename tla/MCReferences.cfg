\* Two workers; two years of four ids; two browsers and three codes.
\* A behaviour ends when a reservation is overtaken.
CONSTANTS
    w1 = w1
    w2 = w2
    b1 = b1
    b2 = b2
    Workers = {w1, w2}
    Browsers = {b1, b2}
    LockedKinds <- Postings
    OpenKinds <- Reserved
    MaxYear = 2
    MaxSeq = 4
    MaxCode = 3
SPECIFICATION MCSpec
SYMMETRY Symmetry
INVARIANTS
    TypeOK
    NumbersUnique
CHECK_DEADLOCK FALSE
