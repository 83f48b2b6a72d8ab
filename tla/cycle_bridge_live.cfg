SPECIFICATION FairSpec
CONSTANTS
    MState <- Counts
    MInit = 0
    Out <- Answers
    FsmStep <- CountStep
    MaxBatch = 2
    InboundBounded = TRUE
    InboundCapacity = 0
    TransportMayFail = TRUE
    MaxSent = 3
    MaxCycles = 2
    MaxClock = 1
PROPERTIES
    IterationCompletes
    ShutdownCompletes
    BlockedSendReturns
INVARIANT AcceptedOnce
