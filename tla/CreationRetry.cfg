SPECIFICATION Spec
CONSTANTS
    s1 = s1
    s2 = s2
    u1 = u1
    u2 = u2
    k1 = k1
    k2 = k2
    k3 = k3
    long = long
    short = short
    t1 = t1
    t2 = t2
    t3 = t3
    NoKey = NoKey
    None = None
    Keys <- OneKey
    SafeKeys <- OneKey
    SafeKey <- SameKey
    TaskIds <- ThreeTasks
    Slots <- TwoSlots
    Users <- OneUser
INVARIANTS
    AtMostOneTaskPerKey
