\* Two backup processes, two firms, daily and weekly runs; restores in a window
\* of their own or while the servers work.
CONSTANTS
    b1 = b1
    b2 = b2
    Backers = {b1, b2}
    Firms = {1, 2}
    Schedules = {"daily", "weekly"}
    Keep <- KeepDays
    MaxRuns = 3
    MaxEdits = 1
SPECIFICATION MCSpec
SYMMETRY Symmetry
INVARIANTS
    TypeOK
    ManifestsSound
PROPERTIES
    RestoreWhole
    HalfRestoreCauses
