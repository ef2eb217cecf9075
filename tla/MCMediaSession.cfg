SPECIFICATION FairSpec
CONSTANTS
    None = None
    Faults <- FaultKinds
    MaxFaults = 1
INVARIANTS
    TypeOK
    NegotiationOutstanding
PROPERTIES
    SettledFaultsRecover
    SignallingSettles
CHECK_DEADLOCK FALSE
