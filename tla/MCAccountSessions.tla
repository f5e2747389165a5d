-------------------------- MODULE MCAccountSessions --------------------------
EXTENDS AccountSessions
CONSTANTS s1, s2
TwoSlots == {s1, s2}
=============================================================================
