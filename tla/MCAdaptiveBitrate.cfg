SPECIFICATION FairSpec
CONSTANTS
    front = front
    rear = rear
    Tracks <- Cameras
    bitrate_kbit <- Rates
    min_bitrate_kbit <- Minima
    max_bitrate_kbit <- Maxima
    Step = 2
    GoodSamplesRequired = 2
    NackBurst = 1
    Reports <- Reports2
    NoSample = NoSample
    MaxEvents = 1
    MaxFaults = 2
INVARIANTS
    SharesFollowSession
PROPERTIES
    RaiseIsEarned
    CongestionReachesMinimum
