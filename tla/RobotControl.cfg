SPECIFICATION FairSpec
CONSTANTS
    Sessions = {s1, s2}
    MaxSeq = 2
INVARIANTS
    EstopHolds
    TrippedMeansStopped
PROPERTIES
    EstopIsFinal
    SilenceStopsRobot
CHECK_DEADLOCK FALSE
