SPECIFICATION FairSpec
CONSTANTS
    Builders <- MCBuilders
    Keys <- MCKeys
    InKey <- MCInKey
    OutKey <- MCOutKey
    MaxTries <- MCMaxTries
    None = None
    Cores <- MCCores
    Priorities <- MCPriorities
    MaxAffinity = 3
    Unset = Unset
INVARIANTS
    OwnApplication
    EndsOnce
    CleanRunLeavesNothing
    BestEffort
PROPERTIES
    ParkedIsSafe
    JoinReturns
CHECK_DEADLOCK FALSE
