SPECIFICATION Spec
CONSTANTS
    Stages = 2
    MState <- MCState
    MInit = 0
    FsmStep <- MCStep
    Payload <- MCPayload
    Inputs = 3
    Extra = 1
    TimeoutsFire = TRUE
    MaxClock = 2
    None = None
INVARIANTS
    TypeOK
    InputsInOrder
    TickMeansDrained
    ReplayReproduces
    NoSilentDrop
    EchoesInOrder
PROPERTY
    ImplementsPipeline
