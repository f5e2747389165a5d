-------------------------- MODULE MCEventPublisher --------------------------
EXTENDS EventPublisher
CONSTANTS p1, p2, p3, s1, s2, s3, s4
ThreePublishers == {p1, p2, p3}
FourSenders == {s1, s2, s3, s4}
=============================================================================
