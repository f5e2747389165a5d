SPECIFICATION FairSpec
CONSTANTS
    p1 = p1
    p2 = p2
    c1 = c1
    c2 = c2
    u1 = u1
    u2 = u2
    done = done
    Todo = todo
    Unset = unset
    None = None
    Requests = {q1, q2}
    Statuses = {todo, done}
    Users = {u1, u2}
    Creator = u1
    Assigned = {u1}
    Asks <- TheAsks
    Pods <- ThePods
    Receivers <- TheReceivers
    Clients <- TheClients
    UserOf <- TheUserOf
    PodOf <- ThePodOf
    MaxDeliveries = 2
    QueueSize = 1
    MaxCrashes = 1
INVARIANTS
    TypeOK
PROPERTIES
    EveryChangeIsAnnounced
    DeliveryIsBestEffort
    EventuallySettled
CHECK_DEADLOCK FALSE
