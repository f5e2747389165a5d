SPECIFICATION FairSpec
CONSTANTS
    p1 = p1
    p2 = p2
    p3 = p3
    s1 = s1
    s2 = s2
    s3 = s3
    s4 = s4
    None = None
    Publishers <- ThreePublishers
    Senders <- FourSenders
INVARIANTS
    TypeOK
    NoConnectionLeaks
PROPERTIES
    EventsFlowAgain
