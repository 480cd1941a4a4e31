CONSTANTS
    m1 = m1
    m2 = m2
    p1 = p1
    p2 = p2
    Members <- OneMember
    Partitions <- TwoPartitions
    Delay = 1
    HasSink = TRUE
    LogSize = 2
    MaxClock = 2
    MaxFaults = 0
    MaxChurn = 0
SPECIFICATION Spec
CHECK_DEADLOCK FALSE
SYMMETRY Symmetry
INVARIANT
    NoLoss
