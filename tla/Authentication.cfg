SPECIFICATION Spec
CONSTANTS
    g1 = g1
    g2 = g2
    s1 = s1
    s2 = s2
    r1 = r1
    None = None
    Gateways <- TwoGateways
    Signers <- TwoSigners
    Requests <- OneRequest
    JwtLife = 3
    MaxAge = 1
    MaxAttempts = 2
    AttemptTime = 1
    Delay = 1
SYMMETRY Symmetry
INVARIANTS
    TypeOK
    TokensSurviveRotation
    StaleAuthorityIsBounded
    StaleOnlyIfSlow
