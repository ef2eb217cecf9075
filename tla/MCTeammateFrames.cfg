SPECIFICATION FramesSpec
CONSTANTS
    Sessions <- MCSessions
    Headers <- MCHeaders
    NoFrame = NoFrame
    NoPose = NoPose
    camera_height = 2
    floor_height = 0
    HistorySize = 2
    MaxDelta = 1
    Horizon = 2
CONSTRAINT Brief
INVARIANTS
    FramesCompose
    FramePosed
