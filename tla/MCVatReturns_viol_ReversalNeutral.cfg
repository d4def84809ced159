\* As MCVatReturns: a reversal inside its own quarter.
CONSTANTS
    w1 = w1
    w2 = w2
    Workers = {w1, w2}
    Cycles = {0, 1}
    Today = {2, 4}
    Starts = {0, 2}
    Imports <- MixedImports
    EditedVat = {0, 3}
    Typed <- TypedOver
    MaxRows = 3
    MaxRequests = 5
    MaxTogether = 5
    NoCycle = NoCycle
    NoKey = NoKey
    NoBoxes = NoBoxes
SPECIFICATION MCSpec
SYMMETRY Symmetry
INVARIANT
    ReversalNeutral
