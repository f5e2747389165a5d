SPECIFICATION ControllerSpec
CONSTANTS
    Desired = 3
    MaxHand = 2
    MaxRuns = 4
    Beside <- TheBeside
    Actions <- TheActions
    Scenarios <- TheScenarios
    b1 = b1
    Streams <- OneBrowser
    Capacity = 2
    Other = Other
    None = None
INVARIANTS
    ControllerTypeOK
    PodsOutnumberSwaps
    MendedAtRest
    StreamsMissNothing
PROPERTIES
    EveryRunEnds
    SubscribersServedOrDropped
CHECK_DEADLOCK FALSE
