SPECIFICATION Spec
CONSTANTS
    TIMEOUT_NS = 2
    None = None
    MaxClock = 9
    MaxFeeds = 2
INVARIANTS
    TypeOK
    GateFollowsFeeds
PROPERTY ImplementsSupervision
