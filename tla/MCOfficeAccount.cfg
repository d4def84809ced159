\* Two workers; every interleaving, or one request at a time.
CONSTANTS
    w1 = w1
    w2 = w2
    b1 = b1
    q1 = q1
    Workers = {w1, w2}
    Dates <- TwoDates
    MonthOf <- OwnMonth
    Forms <- MixedForms
    Batches = {b1}
    WithOpening = {b1}
    Reviews <- MixedReviews
    Quarters = {q1}
    NoBatch = NoBatch
    NoQuarter = NoQuarter
    Retries = 2
    MaxRows = 3
SPECIFICATION MCSpec
SYMMETRY Symmetry
INVARIANTS
    TypeOK
    ReversalsSound
    ImportsWhole
    SerialReversedOnce
PROPERTIES
    OverdraftCauses
    SerialClosedRests
