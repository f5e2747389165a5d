SPECIFICATION LimiterSpec
CONSTANTS
    ip = ip
    user = user
    r1 = r1
    r2 = r2
    Nobody = nobody
    Shared = shared
    Unresolved = unresolved
    Incoming = {q1, q2, q3}
    Replicas <- TheReplicas
    Clients <- TheClients
    LimitOf <- TheLimits
    Window = 3
    MaxFailures = 2
    MaxDelay = 1
    MaxTracked = 1
    MaxTime = 3
SYMMETRY Symmetric
INVARIANTS
    LimiterTypeOK
    NeverOverLimit
CHECK_DEADLOCK FALSE
