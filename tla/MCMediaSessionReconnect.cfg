SPECIFICATION FairSpec
CONSTANTS
    None = None
    Faults <- MachineRestarts
    MaxFaults = 1
PROPERTY
    MachineReconnects
CHECK_DEADLOCK FALSE
