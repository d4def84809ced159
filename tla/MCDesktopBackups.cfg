\* Two processes, days of four slots with two at night, files kept for the day.
CONSTANTS
    q1 = q1
    q2 = q2
    Processes = {q1, q2}
    DayLen = 4
    Night = {1, 2}
    Hour = 2
    RetentionDays = 0
    MaxKeys = 4
    MaxActs = 3
SPECIFICATION MCSpec
INVARIANTS
    TypeOK
    FilesReadable
PROPERTIES
    NightlyBackup
