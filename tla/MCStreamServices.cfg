SPECIFICATION ServicesSpec
CONSTANTS
    Hosts <- MCHosts
    Documents <- Sessions
    Unreadable = Unreadable
    RobotDocuments <- RobotSessions
    NoMode = NoMode
    NoName = NoName
    NoRoom = NoRoom
    NoTopic = NoTopic
CONSTRAINT Calm
INVARIANTS
    MonitorExact
    TracksRouted
