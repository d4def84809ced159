\* Two workers: does the check survive an interleaving?
CONSTANTS
    c1 = c1
    c2 = c2
    w1 = w1
    w2 = w2
    Workers = {w1, w2}
    Clients = {c1, c2}
    Dates <- TwoDates
    MonthOf <- OwnMonth
    PostForms <- MixedForms
    FeeForms <- MixedFees
    MaxRows = 3
    MaxTogether = 3
SPECIFICATION MCSpec
INVARIANT ReversedOnce
