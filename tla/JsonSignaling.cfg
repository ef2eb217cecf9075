SPECIFICATION FairSpec
CONSTANTS
    Conns = {c1, c2}
    None = None
    Messages = {a, b}
    MaxPending = 1
INVARIANTS
    TypeOK
    ReadyIsConnected
PROPERTIES
    OnlyCurrentAnnounced
    ClientConnectionAnnounced
CHECK_DEADLOCK FALSE
