---------------------------- MODULE MCRateLimiter ----------------------------
EXTENDS RateLimiter, TLC
CONSTANTS ip, user, r1, r2
TheReplicas == {r1, r2}
TheClients == {[ip |-> ip, user |-> Nobody], [ip |-> ip, user |-> user]}
TheLimits == (ip :> 2) @@ (user :> 1)
Symmetric == Permutations(Incoming) \cup Permutations(TheReplicas)
=============================================================================
