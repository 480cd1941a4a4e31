CONSTANTS
    Chain <- Ladder
    Parked <- ParkedTopic
    DLQ <- DLQTopic
    None = None
    Unreadable = Unreadable
    SourceMarks <- AnyMarks
    MaxClock = 3
    MaxRedelivered = 2
SPECIFICATION FairSpec
CHECK_DEADLOCK FALSE
INVARIANTS
    TypeOK
    NeverVanishes
    RoundsTellTheWay
    VerdictMatchesTopic
    FirstFailureIsKept
    IdIsKept
    OnlyFatalHalts
PROPERTY
    Settles
