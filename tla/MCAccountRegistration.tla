----------------------- MODULE MCAccountRegistration -----------------------
EXTENDS AccountRegistration, TLC
CONSTANTS s1, s2
TwoSlots == {s1, s2}
Symmetry == Permutations(TwoSlots)
=============================================================================
