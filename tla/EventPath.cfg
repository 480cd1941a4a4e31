CONSTANTS
    m1 = m1
    None = None
    Unreadable = Unreadable
    Maintainers <- OneMaintainer
    LastWeek = 5
    Migrated = {0, 1, 2}
    WeekTicks = 2
    Start = 3
    MaxClock = 6
    Ahead = 1
    Behinds = {1}
    Keeps = {0, 1, 2}
    Skews <- Fast
    Tolerance = 0
    MaxRows = 1
    MaxFaults = 2
    Operator = FALSE
    Chain <- ShortLadder
    Parked <- ParkedTopic
    DLQ <- DLQTopic
    MaxRedelivered = 1
    MaxReplayed = 1
SPECIFICATION EventSpec
CHECK_DEADLOCK FALSE
INVARIANTS
    NoOrphan
    CountIsExact
    NoWeekReturns
    EnsureCovers
    CountedOnce
    OnTheBooks
    NothingVanishes
PROPERTIES
    HorizonIsNeverDropped
