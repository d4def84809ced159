\* Two processes, one portal firm and two platform ids; serial with and without
\* crashes, and interleaved.
CONSTANTS
    w1 = w1
    w2 = w2
    p1 = p1
    Workers = {w1, w2}
    PortalFirms = {p1}
    FirmIds = {1, 2}
    MaxWork = 2
    LegacyWork = 1
SPECIFICATION MCSpec
SYMMETRY Symmetry
INVARIANTS
    TypeOK
    IdentityKept
    WorkServed
PROPERTIES
    WorkLands
    LossCauses
