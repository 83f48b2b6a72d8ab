SPECIFICATION Spec
CONSTANTS
    MState <- Counts
    MInit = 0
    Out <- Answers
    FsmStep <- CountStep
    MaxBatch = 2
    InboundBounded = TRUE
    InboundCapacity = 2
    TransportMayFail = TRUE
    MaxSent = 3
    MaxCycles = 3
    MaxClock = 2
INVARIANTS
    TypeOK
    MessagesInOrder
    CycleTimeCoversEvents
    UnderfullCycleEmptiesQueue
    BoundedLatency
    ReplayReproduces
    OutputsInOrder
    LiveEqualsLog
    LoopNeverWaits
PROPERTY
    ImplementsPipeline
