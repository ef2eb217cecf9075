SPECIFICATION FairSpec
CONSTANTS
    Streams = {"video"}
    QueueSize = 1
    VoiceEnabled = TRUE
    MaxGuidance = 2
    MaxConnections = 2
INVARIANTS
    TypeOK
    AckAnswersCommand
    GuidanceInOrder
    OneItemAfterStop
PROPERTIES
    LastingLinkDrains
    StopEndsThreads
CHECK_DEADLOCK FALSE
