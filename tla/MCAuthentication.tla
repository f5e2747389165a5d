-------------------------- MODULE MCAuthentication --------------------------
EXTENDS Authentication, TLC
CONSTANTS g1, g2, s1, s2, r1
TwoGateways == {g1, g2}
TwoSigners == {s1, s2}
OneRequest == {r1}
Symmetry == Permutations(TwoGateways) \cup Permutations(TwoSigners)
=============================================================================
