------------------------ MODULE BreakerStateMachine ------------------------
(***************************************************************************)
(* What the breaker promises: the diagram in the docstring of              *)
(* app/circuit_breaker.py (lines 22-26) and nothing else.                  *)
(*                                                                         *)
(*   CLOSED --[N failures]--> OPEN --[timeout elapsed]--> HALF_OPEN        *)
(*   HALF_OPEN --[probe success]--> CLOSED                                 *)
(*   HALF_OPEN --[probe failure]--> OPEN                                   *)
(***************************************************************************)
VARIABLE state

Init == state = "CLOSED"

Trip        == state = "CLOSED"    /\ state' = "OPEN"
CoolOff     == state = "OPEN"      /\ state' = "HALF_OPEN"
ProbePasses == state = "HALF_OPEN" /\ state' = "CLOSED"
ProbeFails  == state = "HALF_OPEN" /\ state' = "OPEN"

Next == Trip \/ CoolOff \/ ProbePasses \/ ProbeFails

Spec == Init /\ [][Next]_state
=============================================================================
