\* One worker: what a crash between the two commits of an approval leaves.
CONSTANTS
    w1 = w1
    w2 = w2
    b1 = b1
    q1 = q1
    Workers = {w1}
    Dates <- TwoDates
    MonthOf <- OwnMonth
    Forms <- MixedForms
    Batches = {b1}
    WithOpening = {b1}
    Reviews <- MixedReviews
    Quarters = {q1}
    NoBatch = NoBatch
    NoQuarter = NoQuarter
    Retries = 2
    MaxRows = 3
SPECIFICATION MCSpec
INVARIANT StatementsMatch
