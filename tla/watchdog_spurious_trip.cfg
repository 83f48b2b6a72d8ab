SPECIFICATION Spec
CONSTANTS
    MState <- Machines
    MInit <- MachineDefault
    Out <- Alarms
    FsmStep <- WatchdogStep
    None = None
    TIMEOUT_NS = 1
    MaxBatch = 2
    InboundBounded = FALSE
    InboundCapacity = 0
    TransportMayFail = FALSE
    MaxSent = 2
    MaxCycles = 2
    MaxClock = 3
INVARIANT TripMeansNoFeed
