\* Two workers, every operation: every interleaving of their transactions, or
\* more requests one at a time.
CONSTANTS
    c1 = c1
    c2 = c2
    w1 = w1
    w2 = w2
    Workers = {w1, w2}
    Clients = {c1, c2}
    Dates <- TwoDates
    MonthOf <- OwnMonth
    PostForms <- MixedForms
    FeeForms <- MixedFees
    MaxRows = 4
    MaxTogether = 3
SPECIFICATION MCSpec
SYMMETRY Symmetry
INVARIANTS
    TypeOK
    BooksAgree
    ChainSound
    FeesFollowLedger
    SerialCountedOnce
PROPERTIES
    DeficitCauses
    SerialChecksHold
    SerialClientMoney
