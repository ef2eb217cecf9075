SPECIFICATION FairSpec
CONSTANTS
    Operators = {o1, o2}
    Teammates = {f1, f2}
    CallIds = {c1, c2}
    Ttl = 1
    None = None
INVARIANTS
    TypeOK
    PartiesKnow
PROPERTIES
    KeepsContract
    ParticipantsOnly
    AbandonedCallEnds
