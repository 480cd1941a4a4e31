CONSTANTS
    m1 = m1
    m2 = m2
    None = None
    Maintainers <- OneMaintainer
    LastWeek = 4
    Migrated = {0, 1, 2}
    WeekTicks = 2
    Start = 3
    MaxClock = 6
    Ahead = 1
    Behinds = {1}
    Keeps = {2, 4}
    Skews <- Exact
    Tolerance = 0
    MaxRows = 1
    MaxFaults = 2
    Operator = TRUE
SPECIFICATION FairSpec
CHECK_DEADLOCK FALSE
INVARIANTS
    NoOrphan
    CountNeverTooHigh
PROPERTIES
    HorizonIsNeverDropped
    PastIsDropped
