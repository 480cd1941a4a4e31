CONSTANTS
    m1 = m1
    m2 = m2
    p1 = p1
    p2 = p2
    Members <- TwoMembers
    Partitions <- OnePartition
    Delay = 1
    HasSink = TRUE
    LogSize = 1
    MaxClock = 2
    MaxFaults = 0
    MaxChurn = 2
SPECIFICATION FairSpec
CHECK_DEADLOCK FALSE

PROPERTY
    EventuallyAccounted
