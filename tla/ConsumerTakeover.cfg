CONSTANTS
    m1 = m1
    m2 = m2
    p1 = p1
    p2 = p2
    Members <- TwoMembers
    Partitions <- OnePartition
    Delay = 0
    HasSink = TRUE
    LogSize = 2
    MaxClock = 0
    MaxFaults = 1
    MaxChurn = 1
SPECIFICATION FairSpec
CHECK_DEADLOCK FALSE
INVARIANTS
    TypeOK
    NoLoss
    NoRedeliveryWithoutFault
    ExclusiveBatch
PROPERTIES
    CommitNeverGoesBack
    ImplementsAtLeastOnce
    EventuallyAccounted
    ShutdownEnds
