SPECIFICATION FairSpec
CONSTANTS
    None = None
    r1 = r1
    r2 = r2
    r3 = r3
    FailureThreshold = 3
    RecoveryTimeout = 2
    MaxAttempts = 3
    Requests <- ThreeRequests
INVARIANTS
    RetrySafety
    BreakerInv
PROPERTIES
    CooldownRespected
    FollowsDiagram
    CircuitRecovers
