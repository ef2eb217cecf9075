SPECIFICATION FairSpec
CONSTANTS
    r1 = r1
    r2 = r2
    m1 = m1
    robotBefore = robotBefore
    robotAfter = robotAfter
    NoSession = NoSession
    None = None
    Conns <- MCConns
    Sessions <- MCSessions
    RoleOf <- MCRoleOf
    SessionOf <- MCSessionOf
    MaxSignals <- MCMaxSignals
    MaxPending = 2
    ResetRobotOnMachineJoin = TRUE
INVARIANTS
    TypeOK
    OpenMeansPeer
    PendingForAbsent
    LatestNegotiationOnly
    NothingHeldOverClose
    PresenceAgrees
PROPERTY
    ClosedConnectionsLeave
CHECK_DEADLOCK FALSE
