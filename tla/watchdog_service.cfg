SPECIFICATION Spec
CONSTANTS
    MState <- Machines
    MInit <- MachineDefault
    Out <- Alarms
    FsmStep <- WatchdogStep
    None = None
    TIMEOUT_NS = 1
    MaxBatch = 1
    InboundBounded = FALSE
    InboundCapacity = 0
    TransportMayFail = FALSE
    MaxSent = 2
    MaxCycles = 4
    MaxClock = 4
INVARIANTS
    TripMeansSilence
    ArmedMeansRecentFeed
    DamageNoticed
    HolesNoticed
    ControlDiverges
PROPERTY
    ImplementsSupervision
