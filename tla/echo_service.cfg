SPECIFICATION FairSpec
CONSTANTS
    Stages = 1
    MState <- Counts
    MInit = 0
    FsmStep <- EchoStep
    Payload <- Payloads
    Inputs = 3
    Extra = 3
    TimeoutsFire = FALSE
    MaxClock = 1
    None = None
INVARIANTS
    GateNoticesLostEchoes
    EchoesNumbered
    InTimeIsEchoed
PROPERTY
    RunLiveReturns
