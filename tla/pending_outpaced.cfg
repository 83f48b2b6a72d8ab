SPECIFICATION Spec
CONSTANTS
    MState <- Counts
    MInit = 0
    Out <- Answers
    FsmStep <- CountStep
    MaxBatch = 2
    InboundBounded = TRUE
    InboundCapacity = 2
    TransportMayFail = FALSE
    MaxSent = 3
    MaxCycles = 2
    MaxClock = 0
INVARIANT PendingMeansOutpaced
