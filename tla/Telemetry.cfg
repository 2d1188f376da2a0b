\* Two process numbers, both in use at the start, room for one row.
CONSTANTS
    Pids = {1, 2}
    Boot = {1, 2}
    MAX_PROCS = 1
    MemReadings <- MCMemReadings
    MaxJiffies = 2
    MaxForks = 1
SPECIFICATION Spec
INVARIANTS
    UsageWithin
    ChargedWhatItUsed
    SameInterval
PROPERTIES
    PublishedComplete
