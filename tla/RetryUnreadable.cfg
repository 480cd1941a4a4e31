CONSTANTS
    Chain <- Ladder
    Parked <- ParkedTopic
    DLQ <- DLQTopic
    None = None
    Unreadable = Unreadable
    SourceMarks <- WithUnreadableRound
    MaxClock = 1
    MaxRedelivered = 2
SPECIFICATION FairSpec
CHECK_DEADLOCK FALSE
PROPERTIES
    PoisonReachesDLQ
