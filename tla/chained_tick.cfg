SPECIFICATION Spec
CONSTANTS
    Stages = 2
    MState <- MCState
    MInit = 0
    FsmStep <- MCStep
    Payload <- MCPayload
    Inputs = 2
    Extra = 1
    TimeoutsFire = FALSE
    MaxClock = 1
    None = None
INVARIANT
    ChainReplays
