\* Two workers lock, unlock, post and restart: in every order for one month, or
\* one request at a time for two.
CONSTANTS
    w1 = w1
    w2 = w2
    Workers = {w1, w2}
    Months = {1, 2}
    MaxFigure = 1
    MaxVersions = 4
    MaxTogether = 4
SPECIFICATION MCSpec
SYMMETRY Symmetry
INVARIANTS
    TypeOK
    VersionsChain
    SerialRecordsAgree
PROPERTY SerialLocksStand
