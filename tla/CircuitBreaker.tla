--------------------------- MODULE CircuitBreaker ---------------------------
(***************************************************************************)
(* One circuit breaker of the gateway (app/circuit_breaker.py): its three  *)
(* fields and what its methods do to them.  A registry hands out one       *)
(* breaker per upstream service and breakers never read each other, so a   *)
(* module has one.                                                         *)
(*                                                                         *)
(* Two quantities of the code have no bound and are represented by what    *)
(* the code compares them with:                                            *)
(*   _failure_count     is only compared with failure_threshold, so it     *)
(*                      saturates there;                                   *)
(*   _last_failure_time is only used as monotonic() - _last_failure_time   *)
(*                      >= recovery_timeout, so sinceFailure is that       *)
(*                      difference, saturating at RecoveryTimeout.         *)
(***************************************************************************)
EXTENDS Naturals

CONSTANTS FailureThreshold,  \* failures in a row that open the circuit
          RecoveryTimeout,   \* cooling-off period, in clock ticks
          None               \* Python's None

ASSUME BreakerAssumption ==
    /\ FailureThreshold \in Nat \ {0}
    /\ RecoveryTimeout \in Nat \ {0}
    /\ None \notin Nat

VARIABLES state,         \* _state
          failureCount,  \* _failure_count, up to the threshold
          sinceFailure   \* time since _last_failure_time, or None

breakerVars == <<state, failureCount, sinceFailure>>

BreakerTypeOK ==
    /\ state \in {"CLOSED", "OPEN", "HALF_OPEN"}
    /\ failureCount \in 0..FailureThreshold
    /\ sinceFailure \in (0..RecoveryTimeout) \cup {None}

BreakerInit ==
    /\ state = "CLOSED"
    /\ failureCount = 0
    /\ sinceFailure = None

-----------------------------------------------------------------------------
(* Mutants: plausible slips in the definitions that follow.                *)
MutEarlyProbe ==
    IF /\ state = "OPEN"
       /\ sinceFailure # None
       /\ sinceFailure >= RecoveryTimeout - 1
    THEN "HALF_OPEN" ELSE state
MutNeverLapses ==
    IF state = "OPEN" /\ sinceFailure = None THEN "HALF_OPEN" ELSE state
MutLapsesToClosed ==
    IF /\ state = "OPEN"
       /\ sinceFailure # None
       /\ sinceFailure >= RecoveryTimeout
    THEN "CLOSED" ELSE state
MutSuccessKeepsCount ==
    /\ state' = "CLOSED"
    /\ sinceFailure' = None
    /\ UNCHANGED failureCount
MutSuccessIgnoredInHalfOpen ==
    /\ failureCount' = 0
    /\ sinceFailure' = None
    /\ state' = IF state = "OPEN" THEN "CLOSED" ELSE state

-----------------------------------------------------------------------------
(* The `state` property: an OPEN circuit whose recovery window has elapsed *)
(* reads as HALF_OPEN.                                                     *)
CurrentState ==
    IF /\ state = "OPEN"
       /\ sinceFailure # None
       /\ sinceFailure >= RecoveryTimeout
    THEN "HALF_OPEN" ELSE state

(* Every read of the property stores what it returns.                      *)
ReadState ==
    /\ state' = CurrentState
    /\ UNCHANGED <<failureCount, sinceFailure>>

(* record_success(): unconditional, whatever the state.                    *)
RecordSuccess ==
    /\ failureCount' = 0
    /\ sinceFailure' = None
    /\ state' = "CLOSED"

(* record_failure(): tests the stored field _state, not the property.      *)
RecordFailure ==
    LET counted == IF failureCount < FailureThreshold
                   THEN failureCount + 1 ELSE failureCount IN
    /\ failureCount' = counted
    /\ sinceFailure' = 0
    /\ state' = IF state = "HALF_OPEN" \/ counted >= FailureThreshold
                THEN "OPEN" ELSE state

(* The monotonic clock, as far as the breaker looks at it.                 *)
ClockTick ==
    /\ sinceFailure # None
    /\ sinceFailure < RecoveryTimeout
    /\ sinceFailure' = sinceFailure + 1
    /\ UNCHANGED <<state, failureCount>>
=============================================================================
