--------------------------- MODULE MCTaskCreation ---------------------------
EXTENDS TaskCreation, TLC
CONSTANTS s1, s2, u1, u2, k1, k2, k3, long, short, t1, t2, t3
TwoSlots == {s1, s2}
TwoUsers == {u1, u2}
OneUser == {u1}
(* k1 and k2 have their first 128 characters in common, k3 is another.     *)
ThreeKeys == {k1, k2, k3}
CutKeys == [k \in ThreeKeys |-> IF k = k3 THEN short ELSE long]
BothSafe == {short, long}
OneKey == {k1}
SameKey == [k \in OneKey |-> k]
ThreeTasks == {t1, t2, t3}
TwoTasks == {t1, t2}
Symmetry == Permutations(TwoSlots) \cup Permutations(TwoUsers)
            \cup Permutations({k1, k2}) \cup Permutations(ThreeTasks)
=============================================================================
