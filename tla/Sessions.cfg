SPECIFICATION FairSpec
CONSTANTS
    s1 = s1
    s2 = s2
    None = None
    Slots <- TwoSlots
    MaxTokens = 3
    Threshold = 2
    CountCap = 4
INVARIANTS
    TypeOK
    OneTokenPerSession
    OneLateResponse
    BoundedOvershoot
PROPERTIES
    DeadStaysDead
    LockEnds
