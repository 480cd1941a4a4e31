CONSTANTS
    m1 = m1
    m2 = m2
    p1 = p1
    p2 = p2
    Members <- OneMember
    Partitions <- TwoPartitions
    Delay = 1
    HasSink = FALSE
    LogSize = 2
    MaxClock = 1
    MaxFaults = 1
    MaxChurn = 1
SPECIFICATION FairSpec
CHECK_DEADLOCK FALSE
INVARIANTS
    OnlyDiscardsLose
    WaitingIsForTheCursor
PROPERTIES
    AccountedUnlessStranded
    ImplementsAtLeastOnce
    ShutdownEnds
