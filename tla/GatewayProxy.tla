---------------------------- MODULE GatewayProxy ----------------------------
(***************************************************************************)
(* The gateway's dispatch of requests to one upstream service              *)
(* (app/routes/proxy.py): the circuit-breaker check, the attempts of       *)
(* _dispatch_with_retry with their backoff, and the SSE pass-through,      *)
(* all sharing one CircuitBreaker.                                         *)
(*                                                                         *)
(* The gateway is one asyncio event loop: code between two awaits is one   *)
(* step.  A request that awaits (the upstream's answer, the backoff, the   *)
(* next chunk of a stream) leaves the loop to the others, and nothing      *)
(* reads the breaker again before its next attempt.                        *)
(***************************************************************************)
EXTENDS CircuitBreaker

CONSTANTS Requests,     \* slots for concurrently handled requests
          MaxAttempts   \* len(_BACKOFF_SCHEDULE)

ASSUME ProxyAssumption == MaxAttempts \in Nat \ {0}

VARIABLES pc,       \* where each request's coroutine is
          kind,     \* "GET", "other" (any other method) or "SSE"
          attempt,  \* attempts made so far
          healthy,  \* environment: does the upstream answer?
          serial    \* environment, fixed: do requests come one at a time?

requestVars == <<pc, kind, attempt>>
environment == <<healthy, serial>>
vars == <<breakerVars, requestVars, environment>>

Kinds == {"GET", "other", "SSE"}

TypeOK ==
    /\ BreakerTypeOK
    /\ pc \in [Requests -> {"idle", "sending", "backoff", "streaming"}]
    /\ kind \in [Requests -> Kinds]
    /\ attempt \in [Requests -> 0..MaxAttempts]
    /\ healthy \in BOOLEAN
    /\ serial \in BOOLEAN

Init ==
    /\ BreakerInit
    /\ pc = [r \in Requests |-> "idle"]
    /\ kind = [r \in Requests |-> "other"]
    /\ attempt = [r \in Requests |-> 0]
    /\ healthy = TRUE
    /\ serial \in BOOLEAN

-----------------------------------------------------------------------------
(* A finished slot forgets its request, so that it can serve another.      *)
Finish(r) ==
    /\ pc' = [pc EXCEPT ![r] = "idle"]
    /\ kind' = [kind EXCEPT ![r] = "other"]
    /\ attempt' = [attempt EXCEPT ![r] = 0]
    /\ UNCHANGED environment

(* A mutant of MayRetry.                                                   *)
MutRetryOnceMore(r) == kind[r] = "GET" /\ attempt[r] <= MaxAttempts

-----------------------------------------------------------------------------
(* A request arrives: is_open() and, in the same step, either the fast     *)
(* 503 or the first attempt.                                               *)
Receive(r, k) ==
    /\ pc[r] = "idle"
    /\ serial => \A q \in Requests : pc[q] = "idle"
    /\ ReadState
    /\ CurrentState # "OPEN"
    /\ pc' = [pc EXCEPT ![r] = "sending"]
    /\ kind' = [kind EXCEPT ![r] = k]
    /\ attempt' = [attempt EXCEPT ![r] = 1]
    /\ UNCHANGED environment

FastFail(r) ==
    /\ pc[r] = "idle"
    /\ CurrentState = "OPEN"
    /\ ReadState
    /\ UNCHANGED <<requestVars, environment>>

(* Only a GET has more than one attempt.                                   *)
MayRetry(r) == kind[r] = "GET" /\ attempt[r] < MaxAttempts

(* An attempt met 502/503/504, a connect error or a timeout, and another   *)
(* attempt is left: sleep, recording nothing.                              *)
TransientFailure(r) ==
    /\ pc[r] = "sending"
    /\ ~healthy
    /\ MayRetry(r)
    /\ pc' = [pc EXCEPT ![r] = "backoff"]
    /\ UNCHANGED <<breakerVars, kind, attempt, environment>>

(* The sleep is over: the next attempt goes out, the breaker unread.       *)
Resend(r) ==
    /\ pc[r] = "backoff"
    /\ pc' = [pc EXCEPT ![r] = "sending"]
    /\ attempt' = [attempt EXCEPT ![r] = attempt[r] + 1]
    /\ UNCHANGED <<breakerVars, kind, environment>>

(* The last attempt failed so: one record_failure for all of them.         *)
GiveUp(r) ==
    /\ pc[r] = "sending"
    /\ kind[r] # "SSE"
    /\ ~healthy
    /\ ~MayRetry(r)
    /\ RecordFailure
    /\ Finish(r)

(* Any other status, 4xx and 500 included, counts as a success.            *)
Answered(r) ==
    /\ pc[r] = "sending"
    /\ kind[r] # "SSE"
    /\ RecordSuccess
    /\ Finish(r)

(* The coroutine ends with an exception that no handler records: another   *)
(* httpx error (ReadError, RemoteProtocolError, ...) of a buffered         *)
(* request, or the cancellation of any request whose client has left.      *)
EndsUnrecorded(r) ==
    /\ pc[r] # "idle"
    /\ Finish(r)
    /\ UNCHANGED breakerVars

(* The SSE generator: a success as soon as response headers arrive,        *)
(* whatever their status; a failure for any exception, also one that       *)
(* breaks a stream long after it connected.                                *)
StreamConnects(r) ==
    /\ pc[r] = "sending"
    /\ kind[r] = "SSE"
    /\ RecordSuccess
    /\ pc' = [pc EXCEPT ![r] = "streaming"]
    /\ UNCHANGED <<kind, attempt, environment>>

StreamFails(r) ==
    /\ kind[r] = "SSE"
    /\ pc[r] \in {"sending", "streaming"}
    /\ ~healthy
    /\ RecordFailure
    /\ Finish(r)

StreamEnds(r) ==
    /\ pc[r] = "streaming"
    /\ Finish(r)
    /\ UNCHANGED breakerVars

(* GET /health/ready reports all_states(), which reads the property.       *)
ReadinessProbe ==
    /\ ReadState
    /\ UNCHANGED <<requestVars, environment>>

Tick == ClockTick /\ UNCHANGED <<requestVars, environment>>

UpstreamFlips ==
    /\ healthy' = ~healthy
    /\ UNCHANGED <<breakerVars, requestVars, serial>>

RequestStep(r) ==
    \/ \E k \in Kinds : Receive(r, k)
    \/ FastFail(r)
    \/ TransientFailure(r)
    \/ Resend(r)
    \/ GiveUp(r)
    \/ Answered(r)
    \/ EndsUnrecorded(r)
    \/ StreamConnects(r)
    \/ StreamFails(r)
    \/ StreamEnds(r)

Next ==
    \/ \E r \in Requests : RequestStep(r)
    \/ ReadinessProbe
    \/ Tick
    \/ UpstreamFlips

Spec == Init /\ [][Next]_vars

(***************************************************************************)
(* Fairness.  Time passes; a sleeping coroutine wakes up; the HTTP client  *)
(* bounds every buffered attempt with a timeout, so an attempt ends; some  *)
(* clients keep sending requests and, of the requests that the upstream    *)
(* does answer, not every one is abandoned just before (strong fairness).  *)
(* A stream may last for ever.                                             *)
(***************************************************************************)
AttemptEnds(r) ==
    \/ TransientFailure(r)
    \/ GiveUp(r)
    \/ Answered(r)
    \/ StreamConnects(r)

FairSpec ==
    /\ Spec
    /\ WF_vars(Tick)
    /\ \A r \in Requests :
        /\ WF_vars(Resend(r))
        /\ WF_vars(AttemptEnds(r))
        /\ WF_vars(\E k \in Kinds : Receive(r, k))
    /\ SF_vars(\E r \in Requests : Answered(r) \/ StreamConnects(r))

-----------------------------------------------------------------------------
(* The circuit is CLOSED exactly while fewer than FailureThreshold         *)
(* failures have been recorded since the last recorded success             *)
(* (record_failure / record_success, from any interleaving of requests):   *)
(* an opened circuit that half-opens is one failure away from reopening.   *)
ClosedBelowThreshold == state = "CLOSED" <=> failureCount < FailureThreshold

(* A circuit that is not CLOSED has a failure time: without one the state  *)
(* property could never leave OPEN, and the service would be cut off until *)
(* the gateway restarts.                                                   *)
OpenHasTimer == state # "CLOSED" => sinceFailure # None

(* HALF_OPEN is only ever stored once the recovery window has elapsed, and *)
(* a failure recorded while HALF_OPEN, by whichever request, leaves it.    *)
HalfOpenIsRested == state = "HALF_OPEN" => sinceFailure = RecoveryTimeout

BreakerInv == ClosedBelowThreshold /\ OpenHasTimer /\ HalfOpenIsRested

(* "RETRY SAFETY" in proxy.py: only a GET is ever sent again, and a GET    *)
(* that sleeps still has an attempt left, so it is sent at most            *)
(* MaxAttempts times.                                                      *)
RetrySafety ==
    \A r \in Requests :
        /\ pc[r] = "backoff" => kind[r] = "GET" /\ attempt[r] < MaxAttempts
        /\ attempt[r] > 1 => kind[r] = "GET"
        /\ attempt[r] <= MaxAttempts

(* A request is admitted only if the circuit is CLOSED or the last         *)
(* recorded failure, whoever recorded it, is RecoveryTimeout old.          *)
CooldownRespected ==
    [][\A r \in Requests :
          pc[r] = "idle" /\ pc'[r] # "idle"
            => state = "CLOSED" \/ sinceFailure = RecoveryTimeout]_vars

(* Under continuing traffic no circuit stays OPEN for ever, although late  *)
(* failures of requests admitted before it opened restart its timer; and   *)
(* once the upstream answers for good, its circuit closes for good, unless *)
(* every probe is abandoned by its client.                                 *)
CircuitRecovers ==
    /\ state = "OPEN" ~> state # "OPEN"
    /\ <>[]healthy => <>[](state = "CLOSED")

(* Requests that come one at a time take the breaker through the           *)
(* documented state machine (circuit_breaker.py:22-26) and no other        *)
(* transition.  (With two under way it takes others: the success of one    *)
(* admitted before the circuit opened closes it out of OPEN.)              *)
Documented == INSTANCE BreakerStateMachine
                  WITH state <- IF serial THEN state ELSE "CLOSED"
FollowsDiagram == Documented!Spec
=============================================================================
