CONSTANTS
    m1 = m1
    m2 = m2
    None = None
    Maintainers <- TwoMaintainers
    LastWeek = 4
    Migrated = {0, 1, 2}
    WeekTicks = 2
    Start = 3
    MaxClock = 5
    Ahead = 1
    Behinds = {1}
    Keeps = {2}
    Skews <- Exact
    Tolerance = 0
    MaxRows = 1
    MaxFaults = 0
    Operator = FALSE
SPECIFICATION Spec
CHECK_DEADLOCK FALSE
INVARIANTS
    NoWeekReturns
