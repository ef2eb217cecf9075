SPECIFICATION FairSpec
CONSTANTS
    Sessions = {s1}
    MaxSeq = 2
PROPERTY
    WatchdogStopsRobot
CHECK_DEADLOCK FALSE
