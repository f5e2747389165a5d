---------------------------- MODULE GatewayProofs ----------------------------
(***************************************************************************)
(* Proofs about the gateway: GatewayProxy for any number of requests, any  *)
(* failure threshold, any cooling-off period and any number of attempts,   *)
(* and RateLimiter for any finite set of requests, any replicas, keys,     *)
(* limits and window.                                                      *)
(***************************************************************************)
EXTENDS GatewayProxy, RateLimiter, FunctionTheorems, FiniteSetTheorems,
        SequenceTheorems, TLAPS

(* The four ways a step of the system can touch the breaker.               *)
LEMMA BreakerSteps ==
    ASSUME [Next]_vars
    PROVE  \/ ReadState
           \/ RecordSuccess
           \/ RecordFailure
           \/ ClockTick
           \/ UNCHANGED breakerVars
  BY DEF Next, RequestStep, Receive, FastFail, TransientFailure, Resend,
         GiveUp, Answered, EndsUnrecorded, StreamConnects, StreamFails,
         StreamEnds, ReadinessProbe, Tick, UpstreamFlips, vars

-----------------------------------------------------------------------------
(* The breaker's fields keep their types and agree with each other.        *)
LEMMA BreakerInductive ==
    ASSUME BreakerTypeOK, BreakerInv, [Next]_vars
    PROVE  BreakerTypeOK' /\ BreakerInv'
<1> USE BreakerAssumption
<1> USE DEF BreakerTypeOK, BreakerInv, ClosedBelowThreshold, OpenHasTimer,
            HalfOpenIsRested
<1>1. CASE ReadState
  BY <1>1 DEF ReadState, CurrentState
<1>2. CASE RecordSuccess
  BY <1>2 DEF RecordSuccess
<1>3. CASE RecordFailure
  BY <1>3 DEF RecordFailure
<1>4. CASE ClockTick
  BY <1>4 DEF ClockTick
<1>5. CASE UNCHANGED breakerVars
  BY <1>5 DEF breakerVars
<1>6. QED
  BY <1>1, <1>2, <1>3, <1>4, <1>5, BreakerSteps

(* The dispatcher's variables keep their types, and retries stay within    *)
(* the budget: a sleeping request is a GET with an attempt left.           *)
DispatchTypeOK ==
    /\ pc \in [Requests -> {"idle", "sending", "backoff", "streaming"}]
    /\ kind \in [Requests -> Kinds]
    /\ attempt \in [Requests -> 0..MaxAttempts]
    /\ healthy \in BOOLEAN
    /\ serial \in BOOLEAN

LEMMA DispatchInductive ==
    ASSUME DispatchTypeOK, RetrySafety, [Next]_vars
    PROVE  DispatchTypeOK' /\ RetrySafety'
<1> USE ProxyAssumption DEF DispatchTypeOK, RetrySafety, Kinds, environment
<1>1. ASSUME NEW r \in Requests, RequestStep(r)
      PROVE  DispatchTypeOK' /\ RetrySafety'
  <2>1. ASSUME NEW k \in Kinds, Receive(r, k)
        PROVE  DispatchTypeOK' /\ RetrySafety'
    BY <2>1 DEF Receive
  <2>2. CASE FastFail(r)
    BY <2>2 DEF FastFail, requestVars, environment
  <2>3. CASE TransientFailure(r)
    BY <2>3 DEF TransientFailure, MayRetry
  <2>4. CASE Resend(r)
    BY <2>4 DEF Resend
  <2>5. CASE GiveUp(r)
    BY <2>5 DEF GiveUp, Finish
  <2>6. CASE Answered(r)
    BY <2>6 DEF Answered, Finish
  <2>7. CASE EndsUnrecorded(r)
    BY <2>7 DEF EndsUnrecorded, Finish
  <2>8. CASE StreamConnects(r)
    BY <2>8 DEF StreamConnects
  <2>9. CASE StreamFails(r)
    BY <2>9 DEF StreamFails, Finish
  <2>10. CASE StreamEnds(r)
    BY <2>10 DEF StreamEnds, Finish
  <2>11. QED
    BY <1>1, <2>1, <2>2, <2>3, <2>4, <2>5, <2>6, <2>7, <2>8, <2>9, <2>10
       DEF RequestStep
<1>2. CASE ReadinessProbe
  BY <1>2 DEF ReadinessProbe, requestVars, environment
<1>3. CASE Tick
  BY <1>3 DEF Tick, requestVars, environment
<1>4. CASE UpstreamFlips
  BY <1>4 DEF UpstreamFlips, requestVars, environment
<1>5. CASE UNCHANGED vars
  BY <1>5 DEF vars, requestVars, environment
<1>6. QED
  BY <1>1, <1>2, <1>3, <1>4, <1>5 DEF Next

-----------------------------------------------------------------------------
(* Type correctness together with the breaker's and the dispatcher's       *)
(* invariants: the conjunction is inductive.                               *)
LEMMA Invariance == Spec => [](TypeOK /\ BreakerInv /\ RetrySafety)
<1>1. Init => TypeOK /\ BreakerInv /\ RetrySafety
  BY BreakerAssumption, ProxyAssumption
     DEF Init, BreakerInit, TypeOK, BreakerTypeOK, BreakerInv, Kinds,
         ClosedBelowThreshold, OpenHasTimer, HalfOpenIsRested, RetrySafety
<1>2. TypeOK /\ BreakerInv /\ RetrySafety /\ [Next]_vars
        => (TypeOK /\ BreakerInv /\ RetrySafety)'
  BY BreakerInductive, DispatchInductive DEF TypeOK, DispatchTypeOK
<1>3. QED
  BY <1>1, <1>2, PTL DEF Spec

(* Every variable of the breaker and the dispatcher keeps its type.        *)
THEOREM TypeCorrect == Spec => []TypeOK
  BY Invariance, PTL

(* The circuit is CLOSED exactly below the threshold, and an open circuit  *)
(* always has the failure time it needs to half-open.                      *)
THEOREM BreakerConsistent == Spec => []BreakerInv
  BY Invariance, PTL

(* Only GETs are sent again, and never beyond the retry budget.            *)
THEOREM RetriesAreSafe == Spec => []RetrySafety
  BY Invariance, PTL

(* No request is admitted within RecoveryTimeout of the last recorded      *)
(* failure unless the circuit is CLOSED.                                   *)
THEOREM CooldownIsRespected == Spec => CooldownRespected
<1>1. TypeOK /\ BreakerInv /\ [Next]_vars
        => [\A r \in Requests :
              pc[r] = "idle" /\ pc'[r] # "idle"
                => state = "CLOSED" \/ sinceFailure = RecoveryTimeout]_vars
  <2> SUFFICES ASSUME TypeOK, BreakerInv, Next,
                      NEW r \in Requests, pc[r] = "idle", pc'[r] # "idle"
               PROVE  state = "CLOSED" \/ sinceFailure = RecoveryTimeout
    OBVIOUS
  <2>1. PICK k \in Kinds : Receive(r, k)
    BY DEF Next, RequestStep, Receive, FastFail, TransientFailure, Resend,
           GiveUp, Answered, EndsUnrecorded, StreamConnects, StreamFails,
           StreamEnds, ReadinessProbe, Tick, UpstreamFlips, Finish,
           requestVars, TypeOK
  <2>2. CurrentState # "OPEN"
    BY <2>1 DEF Receive
  <2>3. QED
    BY <2>2, BreakerAssumption
       DEF CurrentState, BreakerInv, HalfOpenIsRested, TypeOK, BreakerTypeOK
<1>2. QED
  BY <1>1, Invariance, PTL DEF Spec, CooldownRespected

-----------------------------------------------------------------------------
(* What Next does to `serial`, and, with requests that come one at a time, *)
(* to the others while one is under way.                                   *)
LEMMA SerialIsFixed ==
    ASSUME [Next]_vars
    PROVE  UNCHANGED serial
  BY DEF Next, RequestStep, Receive, FastFail, TransientFailure, Resend,
         GiveUp, Answered, EndsUnrecorded, StreamConnects, StreamFails,
         StreamEnds, Finish, ReadinessProbe, Tick, UpstreamFlips,
         environment, vars

(* With requests served one at a time, at most one is under way, and it    *)
(* was admitted by the circuit as it still is.                             *)
NeverStale ==
    serial => \A r \in Requests :
        /\ pc[r] # "idle" => state # "OPEN"
        /\ pc[r] = "streaming" => state = "CLOSED"
        /\ \A q \in Requests : pc[r] # "idle" /\ pc[q] # "idle" => q = r

(* Served one at a time, requests take the breaker only through the        *)
(* transitions of the documented diagram: what breaks the diagram is that  *)
(* results arrive after the circuit has moved on.                          *)
THEOREM SerialFollowsDiagram == Spec => FollowsDiagram
<1> DEFINE mapped == IF serial THEN state ELSE "CLOSED"
<1>1. Init => Documented!Init /\ NeverStale
  BY DEF Init, BreakerInit, Documented!Init, NeverStale
<1>2. ASSUME TypeOK, BreakerInv, NeverStale, [Next]_vars
      PROVE  NeverStale' /\ [Documented!Next]_mapped
  <2> USE DEF NeverStale, Documented!Next, Documented!Trip,
              Documented!CoolOff, Documented!ProbePasses,
              Documented!ProbeFails, environment
  <2>0. /\ state \in {"CLOSED", "OPEN", "HALF_OPEN"}
        /\ pc \in [Requests -> {"idle", "sending", "backoff", "streaming"}]
        /\ UNCHANGED serial
    BY <1>2, SerialIsFixed DEF TypeOK, BreakerTypeOK
  <2>1. CASE ~serial
    BY <2>0, <2>1
  <2>2. ASSUME serial, NEW r \in Requests, RequestStep(r)
        PROVE  NeverStale' /\ [Documented!Next]_mapped
    <3>0. \A q \in Requests : pc[r] # "idle" /\ pc[q] # "idle" => q = r
      BY <1>2, <2>2
    <3>1. ASSUME NEW k \in Kinds, Receive(r, k)
          PROVE  NeverStale' /\ [Documented!Next]_mapped
      BY <2>0, <2>2, <3>1 DEF Receive, ReadState, CurrentState
    <3>2. CASE FastFail(r)
      BY <1>2, <2>0, <2>2, <3>2 DEF FastFail, ReadState, CurrentState,
                                    requestVars
    <3>3. CASE TransientFailure(r)
      BY <1>2, <2>0, <2>2, <3>0, <3>3 DEF TransientFailure, breakerVars
    <3>4. CASE Resend(r)
      BY <1>2, <2>0, <2>2, <3>0, <3>4 DEF Resend, breakerVars
    <3>5. CASE GiveUp(r)
      BY <1>2, <2>0, <2>2, <3>0, <3>5 DEF GiveUp, RecordFailure, Finish
    <3>6. CASE Answered(r)
      BY <1>2, <2>0, <2>2, <3>0, <3>6 DEF Answered, RecordSuccess, Finish
    <3>7. CASE EndsUnrecorded(r)
      BY <1>2, <2>0, <2>2, <3>0, <3>7 DEF EndsUnrecorded, Finish, breakerVars
    <3>8. CASE StreamConnects(r)
      BY <1>2, <2>0, <2>2, <3>0, <3>8 DEF StreamConnects, RecordSuccess
    <3>9. CASE StreamFails(r)
      BY <1>2, <2>0, <2>2, <3>0, <3>9 DEF StreamFails, RecordFailure, Finish
    <3>10. CASE StreamEnds(r)
      BY <1>2, <2>0, <2>2, <3>0, <3>10 DEF StreamEnds, Finish, breakerVars
    <3>11. QED
      BY <2>2, <3>1, <3>2, <3>3, <3>4, <3>5, <3>6, <3>7, <3>8, <3>9, <3>10
         DEF RequestStep
  <2>3. CASE ReadinessProbe
    BY <1>2, <2>0, <2>3 DEF ReadinessProbe, ReadState, CurrentState,
                            requestVars
  <2>4. CASE Tick
    BY <1>2, <2>4 DEF Tick, ClockTick, requestVars
  <2>5. CASE UpstreamFlips
    BY <1>2, <2>5 DEF UpstreamFlips, breakerVars, requestVars
  <2>6. CASE UNCHANGED vars
    BY <1>2, <2>6 DEF vars, breakerVars, requestVars
  <2>7. QED
    BY <1>2, <2>1, <2>2, <2>3, <2>4, <2>5, <2>6 DEF Next
<1>3. QED
  BY <1>1, <1>2, Invariance, PTL DEF Spec, FollowsDiagram, Documented!Spec

-----------------------------------------------------------------------------
(* RateLimiter: types.                                                     *)
Bucket == [key : Keys, hits : SUBSET Hits]
OnePerKey(buckets) ==
    \A i, j \in DOMAIN buckets : buckets[i].key = buckets[j].key => i = j

Sent == {"ip sent", "user sent"}
Early == {"idle", "pinging", "ip", "ip sent"}

LimiterTypes ==
    /\ now \in Times
    /\ store \in [Replicas -> Stores \cup {Unresolved}]
    /\ redis \in [Keys -> SUBSET Hits]
    /\ memory \in [Incoming -> Seq(Bucket)]
    /\ place \in [Incoming -> Places]
    /\ client \in [Incoming -> Clients \cup {Nobody}]
    /\ replica \in [Incoming -> Replicas \cup {Unresolved}]
    /\ uses \in [Incoming -> Stores \cup {Unresolved}]
    /\ stamp \in [Incoming -> Times]
    /\ over \in [Incoming -> BOOLEAN]
    /\ ran \in [Incoming -> [Keys -> Times \cup {Never}]]
    /\ open \in [Incoming -> SUBSET Keys]
    /\ fresh \in [Keys -> Nat]
    /\ failures \in 0..MaxFailures

BucketsFit ==
    \A m \in Incoming : Len(memory[m]) <= MaxTracked /\ OnePerKey(memory[m])

(* What a request carries at each of its places.                           *)
Carries(q) ==
    /\ place[q] \notin {"idle", "passed", "limited"} =>
         client[q] \in Clients /\ replica[q] \in Replicas
    /\ place[q] \in {"user", "user sent"} => client[q].user \in Keys
    /\ place[q] = "ip" => uses[q] \in Incoming
    /\ place[q] \in {"ip", "ip sent", "user", "user sent"} => uses[q] \in Stores
    /\ place[q] \in Sent => stamp[q] <= now /\ now <= stamp[q] + MaxDelay
    /\ place[q] \in Early => \A k \in Keys : ran[q][k] = Never
    /\ place[q] = "passed" => over[q] = FALSE
    /\ \A k \in Keys : ran[q][k] <= now

LimiterInv == LimiterTypes /\ BucketsFit /\ \A q \in Incoming : Carries(q)

-----------------------------------------------------------------------------
LEMMA RemoveAtProperties ==
    ASSUME NEW S, NEW s \in Seq(S), NEW i \in DOMAIN s
    PROVE  /\ RemoveAt(s, i) \in Seq(S)
           /\ Len(RemoveAt(s, i)) = Len(s) - 1
           /\ \A j \in DOMAIN RemoveAt(s, i) :
                RemoveAt(s, i)[j] = IF j < i THEN s[j] ELSE s[j + 1]
<1> DEFINE low == SubSeq(s, 1, i - 1)
           high == SubSeq(s, i + 1, Len(s))
<1>1. Len(s) \in Nat /\ i \in 1..Len(s) /\ \A j \in 1..Len(s) : s[j] \in S
  BY LenProperties, ElementOfSeq
<1>2. /\ low \in Seq(S) /\ Len(low) = i - 1
      /\ \A j \in 1..(i - 1) : low[j] = s[j]
  <2>1. \A j \in 1..(i - 1) : s[j] \in S
    BY <1>1
  <2>2. 1 \in Int /\ i - 1 \in Int
    BY <1>1
  <2>3. /\ low \in Seq(S)
        /\ Len(low) = IF 1 <= i - 1 THEN i - 1 - 1 + 1 ELSE 0
        /\ \A j \in 1..(i - 1 - 1 + 1) : low[j] = s[1 + j - 1]
    BY <2>1, <2>2, SubSeqProperties
  <2>4. QED
    BY <1>1, <2>3
<1>3. /\ high \in Seq(S) /\ Len(high) = Len(s) - i
      /\ \A j \in 1..(Len(s) - i) : high[j] = s[i + j]
  <2>1. \A j \in (i + 1)..Len(s) : s[j] \in S
    BY <1>1
  <2>2. i + 1 \in Int /\ Len(s) \in Int
    BY <1>1
  <2>3. /\ high \in Seq(S)
        /\ Len(high) = IF i + 1 <= Len(s) THEN Len(s) - (i + 1) + 1 ELSE 0
        /\ \A j \in 1..(Len(s) - (i + 1) + 1) : high[j] = s[i + 1 + j - 1]
    BY <2>1, <2>2, SubSeqProperties
  <2>4. QED
    BY <1>1, <2>3
<1> HIDE DEF low, high
<1>4. RemoveAt(s, i) = low \o high
  BY DEF RemoveAt, low, high
<1>5. /\ low \o high \in Seq(S)
      /\ Len(low \o high) = Len(low) + Len(high)
      /\ \A j \in 1..(Len(low) + Len(high)) :
           (low \o high)[j] = IF j <= Len(low) THEN low[j] ELSE high[j - Len(low)]
  BY <1>2, <1>3, ConcatProperties
<1>6. DOMAIN (low \o high) = 1..(Len(s) - 1)
  <2>1. Len(low) + Len(high) = Len(s) - 1
    BY <1>1, <1>2, <1>3
  <2>2. DOMAIN (low \o high) = 1..Len(low \o high)
    BY <1>5, LenProperties
  <2>3. QED
    BY <1>5, <2>1, <2>2
<1>7. ASSUME NEW j \in 1..(Len(s) - 1)
      PROVE  (low \o high)[j] = IF j < i THEN s[j] ELSE s[j + 1]
  <2>1. (low \o high)[j] = IF j <= i - 1 THEN low[j] ELSE high[j - (i - 1)]
    <3>1. Len(low) = i - 1 /\ Len(low) + Len(high) = Len(s) - 1
      BY <1>1, <1>2, <1>3
    <3>2. QED
      BY <1>5, <3>1
  <2>2. CASE j < i
    BY <1>1, <1>2, <2>1, <2>2
  <2>3. CASE ~(j < i)
    <3>1. j - (i - 1) \in 1..(Len(s) - i) /\ i + (j - (i - 1)) = j + 1
      BY <1>1, <2>3
    <3>2. high[j - (i - 1)] = s[j + 1]
      BY <1>3, <3>1
    <3>3. QED
      BY <1>1, <2>1, <2>3, <3>2
  <2>4. QED
    BY <2>2, <2>3
<1>8. Len(low \o high) = Len(s) - 1
  BY <1>1, <1>2, <1>3, <1>5
<1> HIDE DEF low, high
<1>9. QED
  BY <1>4, <1>5, <1>6, <1>7, <1>8

(* With one bucket for a key, BucketOf is the hits of that one.            *)
LEMMA TheBucket ==
    ASSUME NEW buckets, OnePerKey(buckets),
           NEW i \in DOMAIN buckets, NEW k, buckets[i].key = k
    PROVE  /\ HasBucket(buckets, k)
           /\ BucketAt(buckets, k) = i
           /\ BucketOf(buckets, k) = buckets[i].hits
BY DEF OnePerKey, HasBucket, BucketAt, BucketOf

(* What a count under k is to leave of a store's buckets: they still fit,  *)
(* one per key, k's holds the hits counted, and any other that is there    *)
(* was there before, unchanged.                                            *)
CountLeaves(buckets, k, hits, after) ==
    /\ after \in Seq(Bucket) /\ Len(after) <= MaxTracked /\ OnePerKey(after)
    /\ HasBucket(after, k) /\ BucketOf(after, k) = hits
    /\ \A o \in Keys \ {k} : HasBucket(after, o) =>
         /\ HasBucket(buckets, o)
         /\ BucketOf(after, o) = BucketOf(buckets, o)

(* What _get_bucket and the count leave of a store's buckets.              *)
LEMMA BucketsAfterCount ==
    ASSUME NEW buckets \in Seq(Bucket), Len(buckets) <= MaxTracked, OnePerKey(buckets),
           NEW k \in Keys, NEW hits \in SUBSET Hits
    PROVE  CountLeaves(buckets, k, hits,
                      Append(Kept(buckets, k), [key |-> k, hits |-> hits]))
<1> DEFINE kept == Kept(buckets, k)
           new == [key |-> k, hits |-> hits]
           after == Append(kept, new)
<1>1. Len(buckets) \in Nat /\ DOMAIN buckets = 1..Len(buckets) /\ MaxTracked \in Nat \ {0}
  BY LenProperties, LimiterAssumption
<1>2. /\ kept \in Seq(Bucket) /\ Len(kept) < MaxTracked
      /\ \E i \in 1..(Len(buckets) + 1) : \A j \in DOMAIN kept :
           /\ kept[j] = IF j < i THEN buckets[j] ELSE buckets[j + 1]
           /\ (IF j < i THEN j ELSE j + 1) \in DOMAIN buckets
           /\ kept[j].key # k
  <2>1. CASE HasBucket(buckets, k)
    <3>1. PICK i \in DOMAIN buckets : buckets[i].key = k
      BY <2>1 DEF HasBucket
    <3>2. kept = RemoveAt(buckets, i)
      BY <2>1, <3>1, TheBucket DEF Kept
    <3>3. /\ kept \in Seq(Bucket) /\ Len(kept) = Len(buckets) - 1
          /\ \A j \in DOMAIN kept : kept[j] = IF j < i THEN buckets[j] ELSE buckets[j + 1]
      BY <3>2, RemoveAtProperties
    <3> HIDE DEF kept
    <3>4. DOMAIN kept = 1..(Len(buckets) - 1)
      BY <3>3, LenProperties
    <3>5. ASSUME NEW j \in DOMAIN kept
          PROVE  /\ (IF j < i THEN j ELSE j + 1) \in DOMAIN buckets
                 /\ (IF j < i THEN j ELSE j + 1) # i
      BY <1>1, <3>1, <3>4
    <3>6. \A j \in DOMAIN kept : kept[j].key # k
      BY <3>1, <3>3, <3>5 DEF OnePerKey
    <3>7. i \in 1..(Len(buckets) + 1) /\ Len(kept) < MaxTracked
      BY <1>1, <3>1, <3>3
    <3>8. QED
      BY <3>3, <3>5, <3>6, <3>7
  <2>2. CASE ~HasBucket(buckets, k) /\ Len(buckets) >= MaxTracked
    <3>1. kept = Tail(buckets) /\ buckets # << >>
      BY <1>1, <2>2 DEF Kept
    <3>2. /\ kept \in Seq(Bucket) /\ Len(kept) = Len(buckets) - 1
          /\ \A j \in 1..Len(kept) : kept[j] = buckets[j + 1]
      BY <3>1, HeadTailProperties
    <3> HIDE DEF kept
    <3>3. DOMAIN kept = 1..(Len(buckets) - 1)
      BY <3>2, LenProperties
    <3>4. ASSUME NEW j \in DOMAIN kept
          PROVE  /\ kept[j] = IF j < 1 THEN buckets[j] ELSE buckets[j + 1]
                 /\ (IF j < 1 THEN j ELSE j + 1) \in DOMAIN buckets
                 /\ kept[j].key # k
      BY <1>1, <2>2, <3>2, <3>3 DEF HasBucket
    <3>5. 1 \in 1..(Len(buckets) + 1) /\ Len(kept) < MaxTracked
      BY <1>1, <3>2
    <3>6. QED
      BY <3>2, <3>4, <3>5
  <2>3. CASE ~HasBucket(buckets, k) /\ ~(Len(buckets) >= MaxTracked)
    <3>1. kept = buckets
      BY <2>3 DEF Kept
    <3>2. ASSUME NEW j \in DOMAIN buckets
          PROVE  j < Len(buckets) + 1 /\ buckets[j].key # k
      BY <1>1, <2>3 DEF HasBucket
    <3>3. Len(buckets) + 1 \in 1..(Len(buckets) + 1) /\ Len(buckets) < MaxTracked
      BY <1>1, <2>3
    <3>4. QED
      BY <3>1, <3>2, <3>3
  <2>4. QED
    BY <2>1, <2>2, <2>3
<1> HIDE DEF kept
<1>3. new \in Bucket /\ new.key = k /\ new.hits = hits
  BY DEF Bucket
<1> HIDE DEF new
<1>4. /\ after \in Seq(Bucket) /\ Len(after) = Len(kept) + 1
      /\ \A j \in 1..Len(kept) : after[j] = kept[j]
      /\ after[Len(kept) + 1] = new
  BY <1>2, <1>3, AppendProperties
<1>5. Len(kept) \in Nat /\ DOMAIN kept = 1..Len(kept) /\ DOMAIN after = 1..(Len(kept) + 1)
  BY <1>2, <1>4, LenProperties
<1> HIDE DEF after
<1>6. PICK i \in 1..(Len(buckets) + 1) : \A j \in DOMAIN kept :
           /\ kept[j] = IF j < i THEN buckets[j] ELSE buckets[j + 1]
           /\ (IF j < i THEN j ELSE j + 1) \in DOMAIN buckets
           /\ kept[j].key # k
  BY <1>2
<1>7. OnePerKey(after)
  <2> SUFFICES ASSUME NEW a \in DOMAIN after, NEW b \in DOMAIN after,
                      after[a].key = after[b].key
               PROVE  a = b
    BY DEF OnePerKey
  <2>1. CASE a \in DOMAIN kept /\ b \in DOMAIN kept
    <3>1. kept[a].key = kept[b].key
      BY <1>4, <1>5, <2>1
    <3>2. (IF a < i THEN a ELSE a + 1) = (IF b < i THEN b ELSE b + 1)
      BY <1>6, <2>1, <3>1 DEF OnePerKey
    <3>3. QED
      BY <1>1, <1>5, <2>1, <3>2
  <2>2. CASE a \notin DOMAIN kept \/ b \notin DOMAIN kept
    <3>1. \A j \in DOMAIN kept : after[j].key # k
      BY <1>4, <1>5, <1>6
    <3>2. after[Len(kept) + 1].key = k
      BY <1>3, <1>4
    <3>3. QED
      BY <1>5, <2>2, <3>1, <3>2
  <2>3. QED
    BY <2>1, <2>2
<1>8. HasBucket(after, k) /\ BucketOf(after, k) = hits
  <2>1. Len(kept) + 1 \in DOMAIN after /\ after[Len(kept) + 1].key = k
        /\ after[Len(kept) + 1].hits = hits
    BY <1>3, <1>4, <1>5
  <2>2. QED
    BY <1>7, <2>1, TheBucket
<1>9. ASSUME NEW o \in Keys \ {k}, HasBucket(after, o)
      PROVE  HasBucket(buckets, o) /\ BucketOf(after, o) = BucketOf(buckets, o)
  <2>1. PICK j \in DOMAIN after : after[j].key = o
    BY <1>9 DEF HasBucket
  <2>2. j \in DOMAIN kept /\ after[j] = kept[j]
    BY <1>3, <1>4, <1>5, <1>9, <2>1
  <2>3. PICK a \in DOMAIN buckets : after[j] = buckets[a]
    BY <1>6, <2>2
  <2>4. BucketOf(after, o) = after[j].hits
    BY <1>7, <2>1, TheBucket
  <2>5. HasBucket(buckets, o) /\ BucketOf(buckets, o) = buckets[a].hits
    BY <2>1, <2>3, TheBucket
  <2>6. QED
    BY <2>3, <2>4, <2>5
<1>10. Len(after) <= MaxTracked
  BY <1>1, <1>2, <1>4, <1>5
<1>11. QED
  <2>1. CountLeaves(buckets, k, hits, after)
    BY <1>4, <1>7, <1>8, <1>9, <1>10 DEF CountLeaves
  <2>2. QED
    BY <2>1 DEF after, kept, new
-----------------------------------------------------------------------------
LEMMA LimiterTimes ==
    /\ MaxTime \in Nat /\ Window \in Nat /\ MaxDelay \in Nat /\ MaxDelay <= Window
    /\ Never \in Int /\ Never < 0 /\ Never \notin Times
    /\ \A t \in Times : t \in Nat /\ t <= MaxTime
    /\ \A t \in Nat : t <= MaxTime => t \in Times
    /\ 0 \in Times /\ \A t \in Times : 0 <= t /\ t <= t /\ Never <= t
BY LimiterAssumption DEF Never, Times

LEMMA LimiterStart == LimiterInit => LimiterInv
<1> SUFFICES ASSUME LimiterInit PROVE LimiterInv
  OBVIOUS
<1>1. 0 \in Times
  BY LimiterTimes
<1>2. << >> \in Seq(Bucket) /\ Len(<< >>) = 0 /\ OnePerKey(<< >>)
  BY EmptySeq DEF OnePerKey
<1>3. LimiterTypes
  BY <1>1, <1>2, LimiterAssumption DEF LimiterInit, LimiterTypes, Places, Stores
<1>4. BucketsFit
  BY <1>2, LimiterAssumption DEF LimiterInit, BucketsFit
<1>5. ASSUME NEW q \in Incoming PROVE Carries(q)
  BY LimiterTimes DEF LimiterInit, Carries, Sent, Early
<1>6. QED
  BY <1>3, <1>4, <1>5 DEF LimiterInv

(* The three ways in which a count can go on.                              *)
OnToUser(q, k, isOver) ==
    /\ place[q] \in {"ip", "ip sent"} /\ client[q].user \in Keys
    /\ place' = [place EXCEPT ![q] = "user"]
    /\ over' = [over EXCEPT ![q] = over[q] \/ isOver]
    /\ ran' = [ran EXCEPT ![q] = [ran[q] EXCEPT ![k] = now]]
    /\ client' = client /\ replica' = replica /\ uses' = uses

Ends(q) ==
    /\ over' = [over EXCEPT ![q] = FALSE]
    /\ client' = [client EXCEPT ![q] = Nobody]
    /\ replica' = [replica EXCEPT ![q] = Unresolved]
    /\ uses' = [uses EXCEPT ![q] = Unresolved]

Passes(q, k, isOver) ==
    /\ place' = [place EXCEPT ![q] = "passed"]
    /\ over[q] = FALSE /\ ~isOver
    /\ ran' = [ran EXCEPT ![q] = [ran[q] EXCEPT ![k] = now]]
    /\ Ends(q)

IsLimited(q) ==
    /\ place' = [place EXCEPT ![q] = "limited"]
    /\ ran' = [ran EXCEPT ![q] = [x \in Keys |-> Never]]
    /\ Ends(q)

LEMMA AfterCount ==
    ASSUME LimiterTypes, NEW q \in Incoming, Carries(q),
           place[q] \in {"ip", "ip sent", "user", "user sent"},
           NEW k \in Keys, NEW isOver, Counted(q, k, isOver)
    PROVE  /\ stamp' = [stamp EXCEPT ![q] = 0]
           /\ OnToUser(q, k, isOver) \/ Passes(q, k, isOver) \/ IsLimited(q)
<1> USE DEF Ends
<1> DEFINE limited == over[q] \/ isOver
           more == place[q] \in {"ip", "ip sent"} /\ client[q].user # Nobody
<1>1. /\ place' = [place EXCEPT ![q] =
                     IF more THEN "user" ELSE IF limited THEN "limited" ELSE "passed"]
      /\ over' = [over EXCEPT ![q] = more /\ limited]
      /\ ran' = [ran EXCEPT ![q] = IF more \/ ~limited THEN [ran[q] EXCEPT ![k] = now]
                                   ELSE [x \in Keys |-> Never]]
      /\ client' = [client EXCEPT ![q] = IF more THEN client[q] ELSE Nobody]
      /\ replica' = [replica EXCEPT ![q] = IF more THEN replica[q] ELSE Unresolved]
      /\ uses' = [uses EXCEPT ![q] = IF more THEN uses[q] ELSE Unresolved]
      /\ stamp' = [stamp EXCEPT ![q] = 0]
  BY DEF Counted
<1>2. over[q] \in BOOLEAN /\ client[q] \in Clients
  BY DEF LimiterTypes, Carries
<1>3. CASE more
  <2>1. client[q].user \in Keys
    BY <1>2, <1>3, LimiterAssumption
  <2>2. (more /\ limited) = limited
    BY <1>3, Zenon
  <2>3. client' = client /\ replica' = replica /\ uses' = uses
    BY <1>1, <1>3 DEF LimiterTypes
  <2>4. over' = [over EXCEPT ![q] = limited]
    BY <1>1, <2>2, Zenon
  <2>5. QED
    BY <1>1, <1>3, <2>1, <2>3, <2>4 DEF OnToUser
<1>4. CASE ~more /\ ~limited
  <2>1. over[q] = FALSE /\ ~isOver
    BY <1>2, <1>4
  <2>2. (more /\ limited) = FALSE
    BY <1>4, Zenon
  <2>3. over' = [over EXCEPT ![q] = FALSE]
    BY <1>1, <2>2, Zenon
  <2>4. QED
    BY <1>1, <1>4, <2>1, <2>3 DEF Passes
<1>5. CASE ~more /\ limited
  <2>1. (more /\ limited) = FALSE
    BY <1>5, Zenon
  <2>2. over' = [over EXCEPT ![q] = FALSE]
    BY <1>1, <2>1, Zenon
  <2>3. QED
    BY <1>1, <1>5, <2>2 DEF IsLimited
<1>6. QED
  BY <1>3, <1>4, <1>5

(* So much for the variables of the requests, whatever was counted where.  *)
LEMMA CountKeeps ==
    ASSUME LimiterInv, NEW q \in Incoming,
           place[q] \in {"ip", "ip sent", "user", "user sent"},
           NEW k \in Keys, NEW isOver, Counted(q, k, isOver),
           UNCHANGED <<now, store>>,
           redis' \in [Keys -> SUBSET Hits],
           memory' \in [Incoming -> Seq(Bucket)], BucketsFit',
           open' \in [Incoming -> SUBSET Keys],
           fresh' \in [Keys -> Nat], failures' \in 0..MaxFailures
    PROVE  LimiterInv'
<1>0. LimiterTypes /\ Carries(q) /\ now \in Times
  BY DEF LimiterInv, LimiterTypes
<1>1. Unresolved \notin Stores
  BY LimiterAssumption DEF Stores
<1>2. /\ stamp' = [stamp EXCEPT ![q] = 0]
      /\ OnToUser(q, k, isOver) \/ Passes(q, k, isOver) \/ IsLimited(q)
  BY <1>0, AfterCount
<1>3. PICK y \in [Keys -> Times \cup {Never}] :
        ran' = [ran EXCEPT ![q] = y] /\ \A x \in Keys : y[x] <= now
  <2>1. CASE OnToUser(q, k, isOver) \/ Passes(q, k, isOver)
    <3> DEFINE y == [ran[q] EXCEPT ![k] = now]
    <3>1. ran' = [ran EXCEPT ![q] = y]
      BY <2>1 DEF OnToUser, Passes
    <3>2. ran[q] \in [Keys -> Times \cup {Never}]
      BY <1>0 DEF LimiterTypes
    <3>3. y \in [Keys -> Times \cup {Never}]
      BY <1>0, <3>2
    <3>4. now <= now
      BY <1>0, LimiterTimes
    <3>5. \A x \in Keys : y[x] <= now
      BY <1>0, <3>2, <3>4 DEF Carries
    <3>6. QED
      BY <3>1, <3>3, <3>5
  <2>2. CASE IsLimited(q)
    <3>1. Never <= now
      BY <1>0, LimiterTimes
    <3> DEFINE y == [x \in Keys |-> Never]
    <3>2. y \in [Keys -> Times \cup {Never}] /\ \A x \in Keys : y[x] <= now
      BY <3>1
    <3>3. ran' = [ran EXCEPT ![q] = y]
      BY <2>2 DEF IsLimited
    <3>4. QED
      BY <3>2, <3>3
  <2>3. QED
    BY <1>2, <2>1, <2>2
<1>4. LimiterTypes'
  <2>1. over' \in [Incoming -> BOOLEAN]
    <3>1. (over[q] \/ isOver) \in BOOLEAN
      BY Zenon
    <3>2. QED
      BY <1>0, <1>2, <3>1 DEF OnToUser, Passes, IsLimited, Ends, LimiterTypes
  <2>2. ran' \in [Incoming -> [Keys -> Times \cup {Never}]]
    BY <1>0, <1>3 DEF LimiterTypes
  <2>3. place' \in [Incoming -> Places]
    BY <1>0, <1>2 DEF OnToUser, Passes, IsLimited, LimiterTypes, Places
  <2>4. /\ client' \in [Incoming -> Clients \cup {Nobody}]
        /\ replica' \in [Incoming -> Replicas \cup {Unresolved}]
        /\ uses' \in [Incoming -> Stores \cup {Unresolved}]
    BY <1>0, <1>2 DEF OnToUser, Passes, IsLimited, Ends, LimiterTypes
  <2>5. stamp' \in [Incoming -> Times] /\ now' \in Times
        /\ store' \in [Replicas -> Stores \cup {Unresolved}]
    <3>1. 0 \in Times
      BY LimiterTimes
    <3>2. QED
      BY <1>0, <1>2, <3>1 DEF LimiterTypes
  <2>6. QED
    BY <2>1, <2>2, <2>3, <2>4, <2>5 DEF LimiterTypes
<1>5. ASSUME NEW p \in Incoming PROVE Carries(p)'
  <2>1. CASE p # q
    <3>1. Carries(p)
      BY DEF LimiterInv
    <3>2. place'[p] = place[p] /\ ran'[p] = ran[p]
      BY <1>0, <1>2, <2>1 DEF OnToUser, Passes, IsLimited, LimiterTypes
    <3>3. /\ client'[p] = client[p] /\ replica'[p] = replica[p]
          /\ over'[p] = over[p] /\ uses'[p] = uses[p] /\ stamp'[p] = stamp[p]
      BY <1>0, <1>2, <2>1 DEF OnToUser, Passes, IsLimited, Ends, LimiterTypes
    <3>4. QED
      BY <3>1, <3>2, <3>3 DEF Carries
  <2>2. CASE p = q
    <3>1. ran'[q] = y
      BY <1>0, <1>3 DEF LimiterTypes
    <3>2. \A x \in Keys : ran'[q][x] <= now
      BY <1>3, <3>1
    <3>3. CASE OnToUser(q, k, isOver)
      <4>1. /\ place'[q] = "user" /\ client'[q].user \in Keys /\ client'[q] = client[q]
            /\ replica'[q] = replica[q] /\ uses'[q] = uses[q]
        BY <1>0, <3>3 DEF OnToUser, LimiterTypes
      <4>2. uses[q] \in Stores /\ client[q] \in Clients /\ replica[q] \in Replicas
        BY <1>0, <3>3 DEF OnToUser, Carries
      <4>3. QED
        BY <2>2, <3>2, <4>1, <4>2 DEF Carries, Sent, Early
    <3>4. CASE Passes(q, k, isOver) \/ IsLimited(q)
      <4>1. place'[q] \in {"passed", "limited"} /\ over'[q] = FALSE
        BY <1>0, <3>4 DEF Passes, IsLimited, Ends, LimiterTypes
      <4>2. QED
        BY <2>2, <3>2, <4>1 DEF Carries, Sent, Early
    <3>5. QED
      BY <1>2, <3>3, <3>4
  <2>3. QED
    BY <2>1, <2>2
<1>6. QED
  BY <1>4, <1>5 DEF LimiterInv

LEMMA KeyIsKey ==
    ASSUME LimiterInv, NEW q \in Incoming,
           place[q] \in {"ip", "ip sent", "user", "user sent"}
    PROVE  KeyOf(q) \in Keys
<1>1. Carries(q)
  BY DEF LimiterInv
<1>2. QED
  BY <1>1, LimiterAssumption DEF Carries, KeyOf

LEMMA SlidHits ==
    ASSUME LimiterInv, NEW q \in Incoming, NEW k \in Keys, NEW t \in Times
    PROVE  /\ Slid(redis[k], q, t) \in SUBSET Hits
           /\ [redis EXCEPT ![k] = Slid(redis[k], q, t)] \in [Keys -> SUBSET Hits]
<1>1. redis \in [Keys -> SUBSET Hits] /\ <<q, t>> \in Hits
  BY DEF LimiterInv, LimiterTypes, Hits
<1>2. Slid(redis[k], q, t) \in SUBSET Hits
  BY <1>1 DEF Slid, Hit
<1>3. QED
  BY <1>1, <1>2

LEMMA BucketHits ==
    ASSUME LimiterInv, NEW m \in Incoming, NEW k \in Keys
    PROVE  BucketOf(memory[m], k) \in SUBSET Hits
<1>1. memory[m] \in Seq(Bucket) /\ OnePerKey(memory[m])
  BY DEF LimiterInv, LimiterTypes, BucketsFit
<1>2. CASE HasBucket(memory[m], k)
  <2>1. PICK i \in DOMAIN memory[m] : memory[m][i].key = k
    BY <1>2 DEF HasBucket
  <2>2. memory[m][i] \in Bucket
    BY <1>1
  <2>3. QED
    BY <1>1, <2>1, <2>2, TheBucket DEF Bucket
<1>3. CASE ~HasBucket(memory[m], k)
  BY <1>3 DEF BucketOf
<1>4. QED
  BY <1>2, <1>3

LEMMA HitsAreFinite == \A S \in SUBSET Hits : IsFiniteSet(S) /\ Cardinality(S) \in Nat
<1>1. IsFiniteSet(Times)
  BY LimiterAssumption, FS_Interval DEF Times
<1>2. IsFiniteSet(Hits)
  BY <1>1, LimiterAssumption, FS_Product DEF Hits
<1>3. QED
  BY <1>2, FS_Subset, FS_CardinalityType

LEMMA LimiterStep ==
    ASSUME LimiterInv, [LimiterNext]_limiterVars
    PROVE  LimiterInv'
<1>1. LimiterTypes /\ BucketsFit /\ now \in Times
  BY DEF LimiterInv, LimiterTypes
<1>2. CASE Elapse
  <2>1. /\ now' = now + 1 /\ now < MaxTime
        /\ UNCHANGED <<store, redis, memory, fresh, failures>>
        /\ UNCHANGED <<place, client, replica, uses, stamp, over, ran, open>>
    BY <1>2 DEF Elapse, request
  <2>2. now' \in Times
    BY <1>1, <2>1, LimiterTimes
  <2>3. LimiterTypes' /\ BucketsFit'
    BY <1>1, <2>1, <2>2 DEF LimiterTypes, BucketsFit
  <2>4. ASSUME NEW q \in Incoming PROVE Carries(q)'
    <3>1. Carries(q) /\ stamp[q] \in Times
          /\ \A k \in Keys : ran[q][k] \in Times \cup {Never}
      BY <1>1 DEF LimiterInv, LimiterTypes
    <3>2. place[q] \in Sent => stamp[q] <= now' /\ now' <= stamp[q] + MaxDelay
      <4>1. place[q] \in Sent => now < stamp[q] + MaxDelay /\ stamp[q] <= now
        BY <1>2, <3>1 DEF Elapse, Carries, Sent
      <4>2. QED
        BY <1>1, <2>1, <3>1, <4>1, LimiterTimes
    <3>3. ASSUME NEW k \in Keys PROVE ran[q][k] <= now'
      <4>1. ran[q][k] <= now /\ ran[q][k] \in Int
        <5>1. ran[q][k] \in Times \cup {Never} /\ ran[q][k] <= now
          BY <3>1 DEF Carries
        <5>2. QED
          BY <5>1, LimiterTimes
      <4>2. QED
        BY <1>1, <2>1, <4>1, LimiterTimes
    <3>4. QED
      BY <2>1, <3>1, <3>2, <3>3 DEF Carries
  <2>5. QED
    BY <2>3, <2>4 DEF LimiterInv
<1>3. ASSUME NEW q \in Incoming, NEW s \in Stores, Begin(q, s),
             client'[q] \in Clients, replica'[q] \in Replicas,
             client' \in [Incoming -> Clients \cup {Nobody}],
             replica' \in [Incoming -> Replicas \cup {Unresolved}],
             store' \in [Replicas -> Stores \cup {Unresolved}],
             \A p \in Incoming \ {q} : client'[p] = client[p] /\ replica'[p] = replica[p],
             place[q] \in Early,
             UNCHANGED <<now, redis, memory, over, ran, open, fresh>>,
             failures' \in 0..MaxFailures
      PROVE  LimiterInv'
  <2>1. /\ uses' = [uses EXCEPT ![q] = s]
        /\ place' = [place EXCEPT ![q] = IF s = Shared THEN "ip sent" ELSE "ip"]
        /\ stamp' = [stamp EXCEPT ![q] = IF s = Shared THEN now ELSE 0]
    BY <1>3 DEF Begin
  <2>2. LimiterTypes' /\ BucketsFit'
    BY <1>1, <1>3, <2>1, LimiterTimes DEF LimiterTypes, BucketsFit, Places
  <2>3. ASSUME NEW p \in Incoming PROVE Carries(p)'
    <3>1. Carries(p)
      BY DEF LimiterInv
    <3>2. CASE p # q
      BY <1>1, <1>3, <2>1, <3>1, <3>2 DEF LimiterTypes, Carries
    <3>3. CASE p = q /\ s = Shared
      <4>1. place'[q] = "ip sent" /\ uses'[q] \in Stores /\ stamp'[q] = now
        BY <1>1, <1>3, <2>1, <3>3 DEF LimiterTypes
      <4>2. now <= now + MaxDelay /\ now <= now
        BY <1>1, LimiterTimes
      <4>3. QED
        BY <1>1, <1>3, <3>1, <3>3, <4>1, <4>2 DEF Carries, Sent, Early
    <3>4. CASE p = q /\ s # Shared
      <4>1. place'[q] = "ip" /\ uses'[q] \in Incoming /\ uses'[q] \in Stores
        BY <1>1, <1>3, <2>1, <3>4 DEF LimiterTypes, Stores
      <4>2. QED
        BY <1>1, <1>3, <3>1, <3>4, <4>1 DEF Carries, Sent, Early
    <3>5. QED
      BY <3>2, <3>3, <3>4
  <2>4. QED
    BY <2>2, <2>3 DEF LimiterInv
<1>4. ASSUME NEW q \in Incoming, NEW c \in Clients, NEW r \in Replicas, Arrive(q, c, r)
      PROVE  LimiterInv'
  <2>1. /\ place[q] = "idle" /\ store' = store
        /\ client' = [client EXCEPT ![q] = c] /\ replica' = [replica EXCEPT ![q] = r]
        /\ UNCHANGED <<now, redis, memory, over, ran, open, fresh, failures>>
    BY <1>4 DEF Arrive
  <2>2. /\ client'[q] \in Clients /\ replica'[q] \in Replicas
        /\ client' \in [Incoming -> Clients \cup {Nobody}]
        /\ replica' \in [Incoming -> Replicas \cup {Unresolved}]
        /\ \A p \in Incoming \ {q} : client'[p] = client[p] /\ replica'[p] = replica[p]
    BY <1>1, <2>1 DEF LimiterTypes
  <2>3. CASE store[r] # Unresolved
    <3>1. Begin(q, store[r]) /\ store[r] \in Stores
      BY <1>1, <1>4, <2>3 DEF Arrive, LimiterTypes
    <3>2. /\ store' \in [Replicas -> Stores \cup {Unresolved}] /\ place[q] \in Early
          /\ failures' \in 0..MaxFailures
      BY <1>1, <2>1 DEF LimiterTypes, Early
    <3>3. QED
      BY <1>3, <2>1, <2>2, <3>1, <3>2
  <2>4. CASE store[r] = Unresolved
    <3>1. place' = [place EXCEPT ![q] = "pinging"] /\ uses' = uses /\ stamp' = stamp
      BY <1>4, <2>4 DEF Arrive
    <3>2. LimiterTypes' /\ BucketsFit'
      BY <1>1, <2>1, <2>2, <3>1 DEF LimiterTypes, BucketsFit, Places
    <3>3. ASSUME NEW p \in Incoming PROVE Carries(p)'
      <4>1. Carries(p)
        BY DEF LimiterInv
      <4>2. CASE p # q
        BY <1>1, <2>1, <2>2, <3>1, <4>1, <4>2 DEF LimiterTypes, Carries
      <4>3. CASE p = q
        <5>1. place'[q] = "pinging"
          BY <1>1, <3>1 DEF LimiterTypes
        <5>2. QED
          BY <2>1, <2>2, <4>1, <4>3, <5>1 DEF Carries, Sent, Early
      <4>4. QED
        BY <4>2, <4>3
    <3>4. QED
      BY <3>2, <3>3 DEF LimiterInv
  <2>5. QED
    BY <2>3, <2>4
<1>5. ASSUME NEW q \in Incoming, NEW answered \in BOOLEAN, Resolve(q, answered)
      PROVE  LimiterInv'
  <2> DEFINE s == IF answered THEN Shared ELSE q
  <2>1. /\ place[q] = "pinging" /\ Begin(q, s)
        /\ store' = [store EXCEPT ![replica[q]] = s]
        /\ UNCHANGED <<now, redis, memory, client, replica, over, ran, open, fresh>>
    BY <1>5 DEF Resolve
  <2>2. Carries(q)
    BY DEF LimiterInv
  <2>3. client'[q] \in Clients /\ replica'[q] \in Replicas
    BY <2>1, <2>2 DEF Carries
  <2>4. s \in Stores
    BY DEF Stores
  <2>5. failures' \in 0..MaxFailures
    BY <1>1, <1>5, LimiterAssumption DEF Resolve, Fails, LimiterTypes
  <2>6. store' \in [Replicas -> Stores \cup {Unresolved}]
    BY <1>1, <2>1, <2>4 DEF LimiterTypes
  <2>7. /\ client' \in [Incoming -> Clients \cup {Nobody}]
        /\ replica' \in [Incoming -> Replicas \cup {Unresolved}]
    BY <1>1, <2>1 DEF LimiterTypes
  <2>8. place[q] \in Early
    BY <2>1 DEF Early
  <2> HIDE DEF s
  <2>9. QED
    BY <1>3, <2>1, <2>3, <2>4, <2>5, <2>6, <2>7, <2>8
<1>6. ASSUME NEW q \in Incoming, SendToRedis(q)
      PROVE  LimiterInv'
  <2>1. /\ place[q] = "user" /\ stamp' = [stamp EXCEPT ![q] = now]
        /\ place' = [place EXCEPT ![q] = "user sent"]
        /\ UNCHANGED <<now, store, redis, memory, client, replica, uses, over, ran,
                       open, fresh, failures>>
    BY <1>6 DEF SendToRedis
  <2>2. LimiterTypes' /\ BucketsFit'
    BY <1>1, <2>1 DEF LimiterTypes, BucketsFit, Places
  <2>3. ASSUME NEW p \in Incoming PROVE Carries(p)'
    <3>1. Carries(p)
      BY DEF LimiterInv
    <3>2. CASE p # q
      BY <1>1, <2>1, <3>1, <3>2 DEF LimiterTypes, Carries
    <3>3. CASE p = q
      <4>1. place'[q] = "user sent" /\ stamp'[q] = now
        BY <1>1, <2>1 DEF LimiterTypes
      <4>2. now <= now + MaxDelay /\ now <= now
        BY <1>1, LimiterTimes
      <4>3. QED
        BY <2>1, <3>1, <3>3, <4>1, <4>2 DEF Carries, Sent, Early
    <3>4. QED
      BY <3>2, <3>3
  <2>4. QED
    BY <2>2, <2>3 DEF LimiterInv
<1>7. ASSUME NEW q \in Incoming, CountInRedis(q)
      PROVE  LimiterInv'
  <2>1. PICK k \in Keys : k = KeyOf(q)
    BY <1>7, KeyIsKey DEF CountInRedis
  <2>2. PICK b :
          b = (Cardinality(Slid(redis[k], q, stamp[q])) > LimitOf[k])
    OBVIOUS
  <2>3. /\ place[q] \in {"ip", "ip sent", "user", "user sent"}
        /\ redis' = [redis EXCEPT ![k] = Slid(redis[k], q, stamp[q])]
        /\ UNCHANGED <<now, store, memory, open, fresh, failures>>
    BY <1>7, <2>1 DEF CountInRedis
  <2>4. Counted(q, k, b)
    BY <1>7, <2>1, <2>2, Zenon DEF CountInRedis
  <2>5. redis' \in [Keys -> SUBSET Hits] /\ BucketsFit'
    BY <1>1, <2>3, SlidHits DEF LimiterTypes, BucketsFit
  <2>6. /\ memory' \in [Incoming -> Seq(Bucket)]
        /\ open' \in [Incoming -> SUBSET Keys]
        /\ fresh' \in [Keys -> Nat] /\ failures' \in 0..MaxFailures
    BY <1>1, <2>3 DEF LimiterTypes
  <2>7. QED
    BY <2>3, <2>4, <2>5, <2>6, CountKeeps
<1>8. ASSUME NEW q \in Incoming, FailOpen(q)
      PROVE  LimiterInv'
  <2>1. PICK k \in Keys : k = KeyOf(q)
    BY <1>8, KeyIsKey DEF FailOpen
  <2>2. /\ place[q] \in {"ip", "ip sent", "user", "user sent"}
        /\ redis' \in {redis, [redis EXCEPT ![k] = Slid(redis[k], q, stamp[q])]}
        /\ open' = [open EXCEPT ![q] = open[q] \cup {k}]
        /\ Counted(q, k, FALSE)
        /\ UNCHANGED <<now, store, memory, fresh>>
    BY <1>8, <2>1 DEF FailOpen
  <2>3. redis' \in [Keys -> SUBSET Hits] /\ BucketsFit'
    <3>1. stamp[q] \in Times /\ redis \in [Keys -> SUBSET Hits]
      BY <1>1 DEF LimiterTypes
    <3>2. [redis EXCEPT ![k] = Slid(redis[k], q, stamp[q])] \in [Keys -> SUBSET Hits]
      BY <3>1, SlidHits
    <3>3. QED
      BY <1>1, <2>2, <3>1, <3>2 DEF BucketsFit
  <2>4. failures' \in 0..MaxFailures
    <3>1. failures' = failures + 1 /\ failures' <= MaxFailures /\ failures \in 0..MaxFailures
      BY <1>1, <1>8 DEF FailOpen, Fails, LimiterTypes
    <3>2. QED
      BY <3>1, LimiterAssumption
  <2>5. memory' \in [Incoming -> Seq(Bucket)] /\ fresh' \in [Keys -> Nat]
    <3>1. memory \in [Incoming -> Seq(Bucket)] /\ fresh \in [Keys -> Nat]
      BY <1>1 DEF LimiterTypes
    <3>2. QED
      BY <2>2, <3>1
  <2>6. open' \in [Incoming -> SUBSET Keys]
    <3>1. open \in [Incoming -> SUBSET Keys] /\ open[q] \cup {k} \in SUBSET Keys
      BY <1>1 DEF LimiterTypes
    <3>2. QED
      BY <2>2, <3>1
  <2>7. QED
    BY <2>2, <2>3, <2>4, <2>5, <2>6, CountKeeps
<1>9. ASSUME NEW q \in Incoming, CountInMemory(q)
      PROVE  LimiterInv'
  <2>1. PICK k \in Keys : k = KeyOf(q)
    BY <1>9, KeyIsKey DEF CountInMemory
  <2>2. PICK m \in Incoming : m = uses[q]
    BY <1>9 DEF CountInMemory
  <2>3. PICK hits : hits =
          {h \in BucketOf(memory[m], k) : h[2] >= now - Window} \cup {Hit(q, now)}
    OBVIOUS
  <2>4. PICK b : b = (Cardinality(hits) > LimitOf[k])
    OBVIOUS
  <2>5. /\ place[q] \in {"ip", "ip sent", "user", "user sent"}
        /\ memory' = [memory EXCEPT ![m] =
                        Append(Kept(memory[m], k), [key |-> k, hits |-> hits])]
        /\ fresh' = IF HasBucket(memory[m], k) THEN fresh
                    ELSE [fresh EXCEPT ![k] = fresh[k] + 1]
        /\ UNCHANGED <<now, store, redis, open, failures>>
    BY <1>9, <2>1, <2>2, <2>3 DEF CountInMemory
  <2>6. Counted(q, k, b)
    BY <1>9, <2>1, <2>2, <2>3, <2>4, Zenon DEF CountInMemory
  <2>7. memory[m] \in Seq(Bucket) /\ Len(memory[m]) <= MaxTracked /\ OnePerKey(memory[m])
    BY <1>1 DEF LimiterTypes, BucketsFit
  <2>8. hits \in SUBSET Hits
    <3>1. BucketOf(memory[m], k) \in SUBSET Hits
      BY BucketHits
    <3>2. Hit(q, now) \in Hits
      BY <1>1 DEF Hit, Hits
    <3>3. QED
      BY <2>3, <3>1, <3>2
  <2>9. /\ memory'[m] \in Seq(Bucket) /\ Len(memory'[m]) <= MaxTracked
        /\ OnePerKey(memory'[m])
    <3>1. CountLeaves(memory[m], k, hits, memory'[m])
      BY <1>1, <2>5, <2>7, <2>8, BucketsAfterCount DEF LimiterTypes
    <3>2. QED
      BY <3>1 DEF CountLeaves
  <2>10. memory' \in [Incoming -> Seq(Bucket)] /\ BucketsFit'
    BY <1>1, <2>5, <2>9 DEF LimiterTypes, BucketsFit
  <2>11. fresh' \in [Keys -> Nat]
    <3>1. fresh \in [Keys -> Nat] /\ fresh[k] + 1 \in Nat
      BY <1>1 DEF LimiterTypes
    <3>2. QED
      BY <2>5, <3>1
  <2>12. /\ redis' \in [Keys -> SUBSET Hits] /\ open' \in [Incoming -> SUBSET Keys]
         /\ failures' \in 0..MaxFailures
    BY <1>1, <2>5 DEF LimiterTypes
  <2>13. QED
    BY <2>5, <2>6, <2>10, <2>11, <2>12, CountKeeps
<1>10. CASE UNCHANGED limiterVars
  BY <1>1, <1>10 DEF limiterVars, request, LimiterInv, LimiterTypes, BucketsFit, Carries
<1>11. QED
  BY <1>2, <1>4, <1>5, <1>6, <1>7, <1>8, <1>9, <1>10 DEF LimiterNext

LEMMA LimiterInvariance == LimiterSpec => []LimiterInv
  BY LimiterStart, LimiterStep, PTL DEF LimiterSpec

(* Every variable keeps its type; no store tracks more than MaxTracked     *)
(* keys, and each at most once.                                            *)
THEOREM LimiterTypeCorrect == LimiterSpec => []LimiterTypeOK
<1>1. ASSUME LimiterInv PROVE LimiterTypeOK
  <2>1. LimiterTypes
    BY <1>1 DEF LimiterInv
  <2>2. ASSUME NEW m \in Incoming
        PROVE  /\ Len(memory[m]) <= MaxTracked
               /\ \A i \in DOMAIN memory[m] :
                    memory[m][i].key \in Keys /\ memory[m][i].hits \subseteq Hits
               /\ \A i, j \in DOMAIN memory[m] :
                    memory[m][i].key = memory[m][j].key => i = j
    <3>1. Len(memory[m]) <= MaxTracked /\ OnePerKey(memory[m])
      BY <1>1 DEF LimiterInv, BucketsFit
    <3>2. ASSUME NEW i \in DOMAIN memory[m] PROVE memory[m][i] \in Bucket
      BY <2>1 DEF LimiterTypes
    <3>3. QED
      BY <3>1, <3>2 DEF OnePerKey, Bucket
  <2>3. ASSUME NEW q \in Incoming
        PROVE  place[q] \notin {"idle", "passed", "limited"} =>
                 client[q] \in Clients /\ replica[q] \in Replicas
    BY <1>1 DEF LimiterInv, Carries
  <2>4. QED
    BY <2>1, <2>2, <2>3 DEF LimiterTypes, LimiterTypeOK
<1>2. LimiterInv => LimiterTypeOK
  BY <1>1
<1>3. QED
  BY <1>2, LimiterInvariance, PTL
-----------------------------------------------------------------------------
(* Who has been let through.  The memory buckets made for a key are        *)
(* numbered from 1, Redis is number 0: `counted` gives the bucket in which *)
(* a request was last counted for a key, `number` the bucket that a memory *)
(* store has for it.                                                       *)
Accepted(q, k) ==
    /\ place[q] \in {"user", "user sent", "passed"}
    /\ over[q] = FALSE
    /\ ran[q][k] # Never
    /\ k \notin open[q]

Numbered(counted, number) ==
    /\ counted \in [Incoming -> [Keys -> Nat]]
    /\ number \in [Incoming -> [Keys -> Nat]]
    /\ \A k \in Keys, q \in Incoming :
         /\ counted[q][k] <= fresh[k]
         /\ HasBucket(memory[q], k) => number[q][k] \in 1..fresh[k]
         /\ \A m \in Incoming :
              HasBucket(memory[q], k) /\ HasBucket(memory[m], k)
                /\ number[q][k] = number[m][k] => q = m

(* As long as it matters, a bucket still holds the hit of a request that   *)
(* was counted in it.                                                      *)
Shorter == Window - MaxDelay
KeptInRedis(counted) ==
    \A q \in Incoming, k \in Keys :
        Accepted(q, k) /\ counted[q][k] = 0 /\ ran[q][k] > now - Shorter =>
            \E h \in redis[k] : h[1] = q /\ h[2] >= ran[q][k] - MaxDelay
KeptInMemory(counted, number) ==
    \A q \in Incoming, m \in Incoming, k \in Keys :
        Accepted(q, k) /\ HasBucket(memory[m], k) /\ counted[q][k] = number[m][k]
          /\ ran[q][k] >= now - Window =>
            <<q, ran[q][k]>> \in BucketOf(memory[m], k)

(* So no bucket has let more than the limit through in a stretch of time.  *)
Through(counted, k, i, t) ==
    {q \in Incoming : /\ Accepted(q, k)
                      /\ counted[q][k] = i
                      /\ ran[q][k] \in (t - Shorter + 1)..t}
Limited(counted) ==
    \A k \in Keys, i \in Nat, t \in 0..now :
        Cardinality(Through(counted, k, i, t)) <= LimitOf[k]

LimitsKept(counted, number) ==
    /\ Numbered(counted, number)
    /\ KeptInRedis(counted)
    /\ KeptInMemory(counted, number)
    /\ Limited(counted)

CountInv == \E counted, number : LimitsKept(counted, number)

-----------------------------------------------------------------------------
LEMMA IncomingIsFinite ==
    \A S \in SUBSET Incoming : IsFiniteSet(S) /\ Cardinality(S) \in Nat
BY LimiterAssumption, FS_Subset, FS_CardinalityType

LEMMA FewerThrough ==
    ASSUME NEW S \in SUBSET Incoming, NEW T \in SUBSET S, NEW n \in Nat,
           Cardinality(S) <= n
    PROVE  Cardinality(T) <= n
<1>1. IsFiniteSet(S) /\ Cardinality(S) \in Nat /\ Cardinality(T) \in Nat
  BY IncomingIsFinite
<1>2. Cardinality(T) <= Cardinality(S)
  BY <1>1, FS_Subset
<1>3. QED
  BY <1>1, <1>2

(* Requests that have each a hit of their own are no more than the hits.   *)
LEMMA OneHitEach ==
    ASSUME NEW S \in SUBSET Incoming, NEW hits \in SUBSET Hits,
           \A q \in S : \E h \in hits : h[1] = q
    PROVE  Cardinality(S) <= Cardinality(hits)
<1> DEFINE hit == [q \in S |-> CHOOSE h \in hits : h[1] = q]
<1>1. \A q \in S : hit[q] \in hits /\ hit[q][1] = q
  OBVIOUS
<1>2. hit \in [S -> hits]
  BY <1>1
<1> HIDE DEF hit
<1>3. hit \in Injection(S, hits)
  BY <1>1, <1>2 DEF Injection, IsInjective
<1>4. QED
  BY <1>3, HitsAreFinite, FS_Injection

LEMMA RanIsTime ==
    ASSUME LimiterInv
    PROVE  /\ now \in Int
           /\ \A q \in Incoming, k \in Keys : ran[q][k] \in Int /\ ran[q][k] <= now
           /\ Shorter \in Nat /\ Shorter <= Window /\ Shorter + MaxDelay = Window
           /\ Window \in Nat /\ MaxDelay \in Nat
<1>1. \A q \in Incoming, k \in Keys : ran[q][k] \in Times \cup {Never} /\ ran[q][k] <= now
  <2>1. ran \in [Incoming -> [Keys -> Times \cup {Never}]]
    BY DEF LimiterInv, LimiterTypes
  <2>2. \A q \in Incoming : \A k \in Keys : ran[q][k] <= now
    BY DEF LimiterInv, Carries
  <2>3. QED
    BY <2>1, <2>2
<1>2. now \in Times
  BY DEF LimiterInv, LimiterTypes
<1>3. \A q \in Incoming, k \in Keys : ran[q][k] \in Int
  BY <1>1, LimiterTimes
<1>4. /\ Shorter \in Nat /\ Shorter <= Window /\ Shorter + MaxDelay = Window
      /\ Window \in Nat /\ MaxDelay \in Nat
  <2>1. Window \in Nat /\ MaxDelay \in Nat /\ MaxDelay <= Window
    BY LimiterTimes
  <2>2. QED
    BY <2>1 DEF Shorter
<1>5. now \in Int
  BY <1>2, LimiterTimes
<1>6. QED
  BY <1>1, <1>3, <1>4, <1>5

LEMMA CountStart == LimiterInit => CountInv
<1> SUFFICES ASSUME LimiterInit PROVE CountInv
  OBVIOUS
<1> DEFINE zero == [q \in Incoming |-> [k \in Keys |-> 0]]
<1>1. \A q \in Incoming, k \in Keys : ~Accepted(q, k) /\ ~HasBucket(memory[q], k)
  BY DEF LimiterInit, Accepted, HasBucket
<1>2. Numbered(zero, zero)
  BY <1>1 DEF LimiterInit, Numbered
<1>3. KeptInRedis(zero) /\ KeptInMemory(zero, zero)
  BY <1>1 DEF KeptInRedis, KeptInMemory
<1>4. Limited(zero)
  <2>1. \A k \in Keys, i \in Nat, t \in 0..now : Through(zero, k, i, t) = {}
    BY <1>1 DEF Through
  <2>2. Cardinality({}) = 0 /\ \A k \in Keys : LimitOf[k] \in Nat
    BY FS_EmptySet, LimiterAssumption
  <2>3. \A k \in Keys : 0 <= LimitOf[k]
    BY <2>2
  <2> HIDE DEF zero
  <2>4. QED
    BY <2>1, <2>2, <2>3 DEF Limited
<1> HIDE DEF zero
<1>5. LimitsKept(zero, zero)
  BY <1>2, <1>3, <1>4 DEF LimitsKept
<1>6. QED
  BY <1>5 DEF CountInv

-----------------------------------------------------------------------------
(* Steps at which nothing is counted and no time passes.                   *)
LEMMA QuietStep ==
    ASSUME LimiterInv, NEW counted, NEW number, LimitsKept(counted, number),
           UNCHANGED <<now, redis, memory, fresh>>,
           \A q \in Incoming, k \in Keys :
               Accepted(q, k)' => Accepted(q, k) /\ ran'[q][k] = ran[q][k]
    PROVE  CountInv'
<1>1. Numbered(counted, number)'
  BY DEF LimitsKept, Numbered
<1>2. KeptInRedis(counted)'
  BY DEF LimitsKept, KeptInRedis, Shorter
<1>3. KeptInMemory(counted, number)'
  BY DEF LimitsKept, KeptInMemory
<1>4. Limited(counted)'
  <2> SUFFICES ASSUME NEW k \in Keys, NEW i \in Nat, NEW t \in 0..now
               PROVE  Cardinality(Through(counted, k, i, t)') <= LimitOf[k]
    BY DEF Limited
  <2>1. Through(counted, k, i, t)' \subseteq Through(counted, k, i, t)
    BY DEF Through, Shorter
  <2>2. Through(counted, k, i, t) \in SUBSET Incoming
    BY DEF Through
  <2>3. Cardinality(Through(counted, k, i, t)) <= LimitOf[k] /\ LimitOf[k] \in Nat
    BY LimiterAssumption DEF LimitsKept, Limited
  <2>4. QED
    BY <2>1, <2>2, <2>3, FewerThrough
<1>5. QED
  BY <1>1, <1>2, <1>3, <1>4 DEF CountInv, LimitsKept

LEMMA ElapseKeeps ==
    ASSUME LimiterInv, CountInv, Elapse
    PROVE  CountInv'
<1>1. PICK counted, number : LimitsKept(counted, number)
  BY DEF CountInv
<1>2. /\ now' = now + 1
      /\ UNCHANGED <<redis, memory, fresh, place, over, ran, open>>
  BY DEF Elapse, request
<1>3. now \in Int /\ Shorter \in Nat /\ Window \in Nat
      /\ \A q \in Incoming, k \in Keys : ran[q][k] \in Int /\ ran[q][k] <= now
  BY RanIsTime
<1>4. \A q \in Incoming, k \in Keys : Accepted(q, k)' <=> Accepted(q, k)
  BY <1>2 DEF Accepted
<1>5. Numbered(counted, number)'
  BY <1>1, <1>2 DEF LimitsKept, Numbered
<1>6. KeptInRedis(counted)'
  <2> SUFFICES ASSUME NEW q \in Incoming, NEW k \in Keys, Accepted(q, k)',
                      counted[q][k] = 0, ran'[q][k] > now' - Shorter
               PROVE  \E h \in redis'[k] : h[1] = q /\ h[2] >= ran'[q][k] - MaxDelay
    BY DEF KeptInRedis, Shorter
  <2>1. ran[q][k] > now + 1 - Shorter
    BY <1>2, <1>3
  <2>2. ran[q][k] > now - Shorter
    BY <1>3, <2>1
  <2>3. QED
    BY <1>1, <1>2, <1>4, <2>2 DEF LimitsKept, KeptInRedis
<1>7. KeptInMemory(counted, number)'
  <2> SUFFICES ASSUME NEW q \in Incoming, NEW m \in Incoming, NEW k \in Keys,
                      Accepted(q, k)', HasBucket(memory'[m], k),
                      counted[q][k] = number[m][k], ran'[q][k] >= now' - Window
               PROVE  <<q, ran'[q][k]>> \in BucketOf(memory'[m], k)
    BY DEF KeptInMemory
  <2>1. ran[q][k] >= now + 1 - Window
    BY <1>2, <1>3
  <2>2. ran[q][k] >= now - Window
    BY <1>3, <2>1
  <2>3. QED
    BY <1>1, <1>2, <1>4, <2>2 DEF LimitsKept, KeptInMemory
<1>8. Limited(counted)'
  <2> SUFFICES ASSUME NEW k \in Keys, NEW i \in Nat, NEW t \in 0..(now + 1)
               PROVE  Cardinality(Through(counted, k, i, t)') <= LimitOf[k]
    BY <1>2 DEF Limited
  <2>1. PICK u \in 0..now : Through(counted, k, i, t)' \subseteq Through(counted, k, i, u)
    <3>1. now \in Nat
      BY LimiterTimes DEF LimiterInv, LimiterTypes
    <3>2. CASE t <= now
      <4>1. Through(counted, k, i, t)' \subseteq Through(counted, k, i, t)
        BY <1>2, <1>4 DEF Through, Shorter
      <4>2. QED
        BY <3>1, <3>2, <4>1
    <3>3. CASE t = now + 1
      <4>1. \A q \in Incoming, x \in Keys :
               ran[q][x] \in (t - Shorter + 1)..t => ran[q][x] \in (now - Shorter + 1)..now
        BY <1>3, <3>3
      <4>2. Through(counted, k, i, t)' \subseteq Through(counted, k, i, now)
        BY <1>2, <1>4, <4>1 DEF Through, Shorter
      <4>3. QED
        BY <3>1, <4>2
    <3>4. QED
      BY <3>1, <3>2, <3>3
  <2>2. Through(counted, k, i, u) \in SUBSET Incoming
    BY DEF Through
  <2>3. Cardinality(Through(counted, k, i, u)) <= LimitOf[k] /\ LimitOf[k] \in Nat
    BY <1>1, LimiterAssumption DEF LimitsKept, Limited
  <2>4. QED
    BY <2>1, <2>2, <2>3, FewerThrough
<1>9. QED
  BY <1>5, <1>6, <1>7, <1>8 DEF CountInv, LimitsKept
-----------------------------------------------------------------------------
(* A count changes nothing for the others, nor for the request's other     *)
(* key; for the counted key it is let through only below the limit.        *)
OnlyCounts(q, k) ==
    \A p \in Incoming, x \in Keys : Accepted(p, x)' =>
      /\ p = q /\ x = k => ran'[q][k] = now
      /\ p # q \/ x # k => Accepted(p, x) /\ ran'[p][x] = ran[p][x]

LEMMA AcceptedAfterCount ==
    ASSUME LimiterInv, NEW q \in Incoming,
           place[q] \in {"ip", "ip sent", "user", "user sent"},
           NEW k \in Keys, NEW isOver, Counted(q, k, isOver),
           open' \in [Incoming -> SUBSET Keys],
           \A p \in Incoming : open[p] \subseteq open'[p]
    PROVE  OnlyCounts(q, k) /\ (Accepted(q, k)' => ~isOver)
<1> SUFFICES ASSUME NEW p \in Incoming, NEW x \in Keys, Accepted(p, x)'
             PROVE  /\ p = q /\ x = k => ran'[q][k] = now /\ ~isOver
                    /\ p # q \/ x # k => Accepted(p, x) /\ ran'[p][x] = ran[p][x]
  BY DEF OnlyCounts
<1>1. LimiterTypes /\ Carries(q)
  BY DEF LimiterInv
<1>2. OnToUser(q, k, isOver) \/ Passes(q, k, isOver) \/ IsLimited(q)
  BY <1>1, AfterCount
<1>3. CASE p # q
  <2>1. place'[p] = place[p] /\ ran'[p] = ran[p] /\ over'[p] = over[p]
    BY <1>1, <1>2, <1>3 DEF OnToUser, Passes, IsLimited, Ends, LimiterTypes
  <2>2. Accepted(p, x)
    BY <2>1 DEF Accepted
  <2>3. QED
    BY <1>3, <2>1, <2>2
<1>4. CASE p = q
  <2>1. CASE OnToUser(q, k, isOver)
    <3>1. /\ \A y \in Keys : ran[q][y] = Never
          /\ ran'[q] = [ran[q] EXCEPT ![k] = now]
          /\ ran[q] \in [Keys -> Times \cup {Never}]
      BY <1>1, <2>1 DEF OnToUser, Carries, Early, LimiterTypes
    <3>2. (over[q] \/ isOver) = over'[q]
      BY <1>1, <2>1 DEF OnToUser, LimiterTypes
    <3>3. over'[q] = FALSE
      BY <1>4 DEF Accepted
    <3>4. ~isOver
      BY <3>2, <3>3
    <3>5. x = k
      BY <1>4, <3>1 DEF Accepted
    <3>6. QED
      BY <1>4, <3>1, <3>4, <3>5
  <2>2. CASE Passes(q, k, isOver)
    <3>1. /\ ran'[q] = [ran[q] EXCEPT ![k] = now] /\ over[q] = FALSE /\ ~isOver
          /\ ran[q] \in [Keys -> Times \cup {Never}]
      BY <1>1, <2>2 DEF Passes, LimiterTypes
    <3>2. CASE x = k
      BY <1>4, <3>1, <3>2
    <3>3. CASE x # k
      <4>1. ran'[q][x] = ran[q][x] /\ ran[q][x] # Never /\ x \notin open[q]
        BY <1>4, <3>1, <3>3 DEF Accepted
      <4>2. place[q] \in {"user", "user sent"}
        BY <1>1, <4>1 DEF Carries, Early
      <4>3. QED
        BY <1>4, <3>1, <3>3, <4>1, <4>2 DEF Accepted
    <3>4. QED
      BY <3>2, <3>3
  <2>3. CASE IsLimited(q)
    <3>1. place'[q] = "limited"
      BY <1>1, <2>3 DEF IsLimited, LimiterTypes
    <3>2. QED
      BY <1>4, <3>1 DEF Accepted
  <2>4. QED
    BY <1>2, <2>1, <2>2, <2>3
<1>5. QED
  BY <1>3, <1>4

(* The count in Redis at the time stamp st.                                *)
LEMMA RedisCountKeeps ==
    ASSUME LimiterInv, CountInv, NEW q \in Incoming, NEW k \in Keys,
           NEW st \in Times, st <= now, now <= st + MaxDelay,
           NEW hits, hits = Slid(redis[k], q, st),
           redis' = [redis EXCEPT ![k] = hits],
           UNCHANGED <<now, memory, fresh>>,
           OnlyCounts(q, k), Accepted(q, k)' => Cardinality(hits) <= LimitOf[k]
    PROVE  CountInv'
<1>0. \A p \in Incoming, x \in Keys : Accepted(p, x)' =>
        /\ p = q /\ x = k => ran'[q][k] = now /\ Cardinality(hits) <= LimitOf[k]
        /\ p # q \/ x # k => Accepted(p, x) /\ ran'[p][x] = ran[p][x]
  BY DEF OnlyCounts
<1>1. PICK before, number : LimitsKept(before, number)
  BY DEF CountInv
<1>2. PICK after : after = [before EXCEPT ![q] = [before[q] EXCEPT ![k] = 0]]
  OBVIOUS
<1>3. /\ now \in Int /\ Shorter \in Nat /\ Window \in Nat /\ MaxDelay \in Nat
      /\ Shorter + MaxDelay = Window
      /\ \A p \in Incoming, x \in Keys : ran[p][x] \in Int /\ ran[p][x] <= now
  BY RanIsTime
<1>4. /\ before \in [Incoming -> [Keys -> Nat]] /\ number \in [Incoming -> [Keys -> Nat]]
      /\ fresh \in [Keys -> Nat] /\ redis \in [Keys -> SUBSET Hits]
  BY <1>1 DEF LimitsKept, Numbered, LimiterInv, LimiterTypes
<1>5. /\ after \in [Incoming -> [Keys -> Nat]] /\ after[q][k] = 0
      /\ \A p \in Incoming, x \in Keys : p # q \/ x # k => after[p][x] = before[p][x]
  BY <1>2, <1>4
<1>6. /\ redis'[k] = hits
      /\ \A x \in Keys : x # k => redis'[x] = redis[x]
  BY <1>4
<1>7. hits \in SUBSET Hits
  BY SlidHits
<1>8. Numbered(after, number)'
  <2>1. ASSUME NEW p \in Incoming, NEW x \in Keys
        PROVE  after[p][x] <= fresh[x]
    <3>1. before[p][x] <= fresh[x] /\ fresh[x] \in Nat
      BY <1>1, <1>4 DEF LimitsKept, Numbered
    <3>2. CASE p = q /\ x = k
      BY <1>5, <3>1, <3>2
    <3>3. CASE p # q \/ x # k
      BY <1>5, <3>1, <3>3
    <3>4. QED
      BY <3>2, <3>3
  <2>2. QED
    BY <1>1, <1>4, <1>5, <2>1 DEF LimitsKept, Numbered
<1>9. ASSUME NEW p \in Incoming, Accepted(p, k)', after[p][k] = 0, ran'[p][k] > now - Shorter
      PROVE  \E h \in hits : h[1] = p /\ h[2] >= ran'[p][k] - MaxDelay
  <2>1. CASE p = q
    <3>1. ran'[q][k] = now
      BY <1>0, <1>9, <2>1
    <3>2. <<q, st>> \in hits
      BY DEF Slid, Hit
    <3>3. st \in Int
      BY LimiterTimes
    <3>4. st >= now - MaxDelay
      BY <1>3, <3>3
    <3>5. QED
      BY <2>1, <3>1, <3>2, <3>4
  <2>2. CASE p # q
    <3>1. Accepted(p, k) /\ ran'[p][k] = ran[p][k] /\ before[p][k] = 0
      BY <1>0, <1>5, <1>9, <2>2
    <3>2. PICK h \in redis[k] : h[1] = p /\ h[2] >= ran[p][k] - MaxDelay
      BY <1>1, <1>9, <3>1 DEF LimitsKept, KeptInRedis
    <3>3. h \in Hits /\ st \in Int
      BY <1>4, LimiterTimes
    <3>4. h[2] \in Times
      BY <3>3 DEF Hits
    <3>5. h[2] \in Int
      BY <3>4, LimiterTimes
    <3>6. h[2] > st - Window
      BY <1>3, <1>9, <3>1, <3>2, <3>3, <3>5
    <3>7. h \in hits
      BY <3>6 DEF Slid
    <3>8. QED
      BY <3>1, <3>2, <3>7
  <2>3. QED
    BY <2>1, <2>2
<1>10. KeptInRedis(after)'
  <2> SUFFICES ASSUME NEW p \in Incoming, NEW x \in Keys, Accepted(p, x)',
                      after[p][x] = 0, ran'[p][x] > now' - Shorter
               PROVE  \E h \in redis'[x] : h[1] = p /\ h[2] >= ran'[p][x] - MaxDelay
    BY DEF KeptInRedis, Shorter
  <2>1. CASE x = k
    BY <1>6, <1>9, <2>1
  <2>2. CASE x # k
    <3>1. Accepted(p, x) /\ ran'[p][x] = ran[p][x] /\ before[p][x] = 0
      BY <1>0, <1>5, <2>2
    <3>2. QED
      BY <1>1, <1>6, <2>2, <3>1 DEF LimitsKept, KeptInRedis
  <2>3. QED
    BY <2>1, <2>2
<1>11. KeptInMemory(after, number)'
  <2> SUFFICES ASSUME NEW p \in Incoming, NEW m \in Incoming, NEW x \in Keys,
                      Accepted(p, x)', HasBucket(memory'[m], x),
                      after[p][x] = number[m][x], ran'[p][x] >= now' - Window
               PROVE  <<p, ran'[p][x]>> \in BucketOf(memory'[m], x)
    BY DEF KeptInMemory
  <2>1. number[m][x] # 0
    BY <1>1, <1>4 DEF LimitsKept, Numbered
  <2>2. p # q \/ x # k
    BY <1>5, <2>1
  <2>3. Accepted(p, x) /\ ran'[p][x] = ran[p][x] /\ before[p][x] = number[m][x]
    BY <1>0, <1>5, <2>2
  <2>4. QED
    BY <1>1, <2>3 DEF LimitsKept, KeptInMemory
<1>12. Limited(after)'
  <2> SUFFICES ASSUME NEW x \in Keys, NEW i \in Nat, NEW t \in 0..now
               PROVE  Cardinality(Through(after, x, i, t)') <= LimitOf[x]
    BY DEF Limited
  <2>1. LimitOf[x] \in Nat
    BY LimiterAssumption
  <2>2. CASE x = k /\ i = 0 /\ t = now /\ q \in Through(after, x, i, t)'
    <3>1. Cardinality(hits) <= LimitOf[k]
      BY <2>2 DEF Through
    <3>2. \A p \in Through(after, x, i, t)' :
             /\ p \in Incoming /\ Accepted(p, k)' /\ after[p][k] = 0
             /\ ran'[p][k] \in (now - Shorter + 1)..now
      BY <2>2 DEF Through, Shorter
    <3>3. ASSUME NEW p \in Through(after, x, i, t)'
          PROVE  \E h \in hits : h[1] = p
      <4>1. ran'[p][k] > now - Shorter
        BY <1>3, <3>2
      <4>2. QED
        BY <1>9, <3>2, <4>1
    <3>4. Cardinality(Through(after, x, i, t)') <= Cardinality(hits)
      <4>1. Through(after, x, i, t)' \in SUBSET Incoming
        BY <3>2
      <4>2. QED
        BY <1>7, <3>3, <4>1, OneHitEach
    <3>5. Cardinality(Through(after, x, i, t)') \in Nat /\ Cardinality(hits) \in Nat
      BY <1>7, <3>2, IncomingIsFinite, HitsAreFinite
    <3>6. QED
      BY <2>1, <2>2, <3>1, <3>4, <3>5
  <2>3. CASE ~(x = k /\ i = 0 /\ t = now /\ q \in Through(after, x, i, t)')
    <3>1. ASSUME NEW p \in Through(after, x, i, t)'
          PROVE  p \in Through(before, x, i, t)
      <4>1. /\ p \in Incoming /\ Accepted(p, x)' /\ after[p][x] = i
            /\ ran'[p][x] \in (t - Shorter + 1)..t
        BY <3>1 DEF Through, Shorter
      <4>2. p # q \/ x # k
        <5> SUFFICES ASSUME p = q, x = k PROVE FALSE
          OBVIOUS
        <5>1. ran'[q][k] = now /\ i = 0
          BY <1>0, <1>5, <4>1
        <5>2. t = now
          BY <1>3, <4>1, <5>1
        <5>3. QED
          BY <2>3, <3>1, <5>1, <5>2
      <4>3. Accepted(p, x) /\ ran'[p][x] = ran[p][x] /\ before[p][x] = i
        BY <1>0, <1>5, <4>1, <4>2
      <4>4. QED
        BY <4>1, <4>3 DEF Through
    <3>2. Through(before, x, i, t) \in SUBSET Incoming
      BY DEF Through
    <3>3. Cardinality(Through(before, x, i, t)) <= LimitOf[x]
      BY <1>1 DEF LimitsKept, Limited
    <3>4. QED
      BY <2>1, <3>1, <3>2, <3>3, FewerThrough
  <2>4. QED
    BY <2>2, <2>3
<1>13. QED
  BY <1>8, <1>10, <1>11, <1>12 DEF CountInv, LimitsKept

(* The count in a store's memory, in a bucket that it has or makes.        *)
LEMMA MemoryCountKeeps ==
    ASSUME LimiterInv, CountInv, NEW q \in Incoming, NEW k \in Keys, NEW m \in Incoming,
           NEW hits \in SUBSET Hits,
           hits = {h \in BucketOf(memory[m], k) : h[2] >= now - Window} \cup {<<q, now>>},
           memory' = [memory EXCEPT ![m] =
                        Append(Kept(memory[m], k), [key |-> k, hits |-> hits])],
           fresh' = IF HasBucket(memory[m], k) THEN fresh
                    ELSE [fresh EXCEPT ![k] = fresh[k] + 1],
           UNCHANGED <<now, redis>>,
           OnlyCounts(q, k), Accepted(q, k)' => Cardinality(hits) <= LimitOf[k]
    PROVE  CountInv'
<1>0. \A p \in Incoming, x \in Keys : Accepted(p, x)' =>
        /\ p = q /\ x = k => ran'[q][k] = now /\ Cardinality(hits) <= LimitOf[k]
        /\ p # q \/ x # k => Accepted(p, x) /\ ran'[p][x] = ran[p][x]
  BY DEF OnlyCounts
<1>1. PICK before, earlier : LimitsKept(before, earlier)
  BY DEF CountInv
<1>2. PICK i : i = IF HasBucket(memory[m], k) THEN earlier[m][k] ELSE fresh[k] + 1
  OBVIOUS
<1>3. PICK after : after = [before EXCEPT ![q] = [before[q] EXCEPT ![k] = i]]
  OBVIOUS
<1>4. PICK number : number = [earlier EXCEPT ![m] = [earlier[m] EXCEPT ![k] = i]]
  OBVIOUS
<1>5. /\ now \in Int /\ Shorter \in Nat /\ Window \in Nat /\ Shorter <= Window
      /\ \A p \in Incoming, x \in Keys : ran[p][x] \in Int /\ ran[p][x] <= now
  BY RanIsTime
<1>6. /\ before \in [Incoming -> [Keys -> Nat]] /\ earlier \in [Incoming -> [Keys -> Nat]]
      /\ fresh \in [Keys -> Nat] /\ memory \in [Incoming -> Seq(Bucket)]
  BY <1>1 DEF LimitsKept, Numbered, LimiterInv, LimiterTypes
<1>7. i \in Nat /\ i # 0
  <2>1. fresh[k] \in Nat
    BY <1>6
  <2>2. HasBucket(memory[m], k) => earlier[m][k] \in 1..fresh[k]
    BY <1>1 DEF LimitsKept, Numbered
  <2>3. QED
    BY <1>2, <2>1, <2>2
<1>8. /\ after \in [Incoming -> [Keys -> Nat]] /\ after[q][k] = i
      /\ \A p \in Incoming, x \in Keys : p # q \/ x # k => after[p][x] = before[p][x]
  BY <1>3, <1>6, <1>7
<1>9. /\ number \in [Incoming -> [Keys -> Nat]] /\ number[m][k] = i
      /\ \A s \in Incoming, x \in Keys : s # m \/ x # k => number[s][x] = earlier[s][x]
  BY <1>4, <1>6, <1>7
<1>10. /\ HasBucket(memory'[m], k) /\ BucketOf(memory'[m], k) = hits
       /\ \A x \in Keys \ {k} : HasBucket(memory'[m], x) =>
            /\ HasBucket(memory[m], x)
            /\ BucketOf(memory'[m], x) = BucketOf(memory[m], x)
       /\ \A s \in Incoming \ {m} : memory'[s] = memory[s]
  <2>1. memory[m] \in Seq(Bucket) /\ Len(memory[m]) <= MaxTracked /\ OnePerKey(memory[m])
    BY <1>6 DEF LimiterInv, BucketsFit
  <2>2. CountLeaves(memory[m], k, hits, Append(Kept(memory[m], k), [key |-> k, hits |-> hits]))
    BY <2>1, BucketsAfterCount
  <2>3. /\ CountLeaves(memory[m], k, hits, memory'[m])
        /\ \A s \in Incoming \ {m} : memory'[s] = memory[s]
    BY <1>6, <2>2
  <2>4. QED
    BY <2>3 DEF CountLeaves
<1>11. /\ \A x \in Keys : fresh'[x] \in Nat /\ fresh[x] <= fresh'[x]
       /\ i <= fresh'[k]
       /\ ~HasBucket(memory[m], k) => i > fresh[k]
  <2>1. fresh[k] \in Nat
    BY <1>6
  <2>2. CASE HasBucket(memory[m], k)
    <3>1. earlier[m][k] \in 1..fresh[k]
      BY <1>1, <2>2 DEF LimitsKept, Numbered
    <3>2. QED
      BY <1>2, <1>6, <2>1, <2>2, <3>1
  <2>3. CASE ~HasBucket(memory[m], k)
    <3>1. fresh'[k] = fresh[k] + 1 /\ \A x \in Keys : x # k => fresh'[x] = fresh[x]
      BY <1>6, <2>3
    <3>2. \A x \in Keys : fresh[x] \in Nat
      BY <1>6
    <3>3. ASSUME NEW x \in Keys
          PROVE  fresh'[x] \in Nat /\ fresh[x] <= fresh'[x]
      BY <3>1, <3>2
    <3>4. QED
      BY <1>2, <2>1, <2>3, <3>1, <3>3
  <2>4. QED
    BY <2>2, <2>3
<1>12. ASSUME NEW s \in Incoming, NEW x \in Keys, HasBucket(memory'[s], x)
       PROVE  /\ s # m \/ x # k => /\ HasBucket(memory[s], x)
                                   /\ BucketOf(memory'[s], x) = BucketOf(memory[s], x)
                                   /\ number[s][x] = earlier[s][x]
              /\ s = m /\ x = k => number[s][x] = i
  BY <1>9, <1>10, <1>12
<1>13. Numbered(after, number)'
  <2>1. ASSUME NEW p \in Incoming, NEW x \in Keys
        PROVE  after[p][x] <= fresh'[x]
    <3>1. CASE p = q /\ x = k
      BY <1>8, <1>11, <3>1
    <3>2. CASE p # q \/ x # k
      <4>1. before[p][x] <= fresh[x] /\ fresh[x] \in Nat /\ before[p][x] \in Nat
        BY <1>1, <1>6 DEF LimitsKept, Numbered
      <4>2. QED
        BY <1>8, <1>11, <3>2, <4>1
    <3>3. QED
      BY <3>1, <3>2
  <2>2. ASSUME NEW s \in Incoming, NEW x \in Keys, HasBucket(memory'[s], x)
        PROVE  number[s][x] \in 1..fresh'[x]
    <3>1. CASE s = m /\ x = k
      BY <1>7, <1>9, <1>11, <3>1
    <3>2. CASE s # m \/ x # k
      <4>1. HasBucket(memory[s], x) /\ number[s][x] = earlier[s][x]
        BY <1>12, <2>2, <3>2
      <4>2. earlier[s][x] \in 1..fresh[x] /\ fresh[x] \in Nat
        BY <1>1, <1>6, <4>1 DEF LimitsKept, Numbered
      <4>3. QED
        BY <1>11, <4>1, <4>2
    <3>3. QED
      BY <3>1, <3>2
  <2>3. ASSUME NEW s \in Incoming, NEW x \in Keys, HasBucket(memory'[s], x),
               s # m \/ x # k
        PROVE  HasBucket(memory[m], k) \/ x # k \/ number[s][x] # i
    <3>1. HasBucket(memory[s], x) /\ number[s][x] = earlier[s][x]
      BY <1>12, <2>3
    <3>2. earlier[s][x] \in 1..fresh[x] /\ fresh[x] \in Nat
      BY <1>1, <1>6, <3>1 DEF LimitsKept, Numbered
    <3>3. QED
      BY <1>7, <1>11, <3>1, <3>2
  <2>4. ASSUME NEW s \in Incoming, NEW u \in Incoming, NEW x \in Keys,
               HasBucket(memory'[s], x), HasBucket(memory'[u], x),
               number[s][x] = number[u][x]
        PROVE  s = u
    <3>1. \A v, w \in Incoming :
            HasBucket(memory[v], x) /\ HasBucket(memory[w], x)
              /\ earlier[v][x] = earlier[w][x] => v = w
      BY <1>1 DEF LimitsKept, Numbered
    <3>2. CASE x # k
      BY <1>12, <2>4, <3>1, <3>2
    <3>3. CASE x = k /\ HasBucket(memory[m], k)
      <4>1. i = earlier[m][k]
        BY <1>2, <3>3
      <4>2. \A v \in Incoming : HasBucket(memory'[v], k) =>
               HasBucket(memory[v], k) /\ number[v][k] = earlier[v][k]
        BY <1>9, <1>12, <3>3, <4>1
      <4>3. QED
        BY <2>4, <3>1, <3>3, <4>2
    <3>4. CASE x = k /\ ~HasBucket(memory[m], k)
      <4>1. \A v \in Incoming : HasBucket(memory'[v], k) /\ v # m => number[v][k] # i
        BY <2>3, <3>4
      <4>2. number[m][k] = i
        BY <1>9
      <4>3. CASE s = m \/ u = m
        BY <2>4, <3>4, <4>1, <4>2, <4>3
      <4>4. CASE s # m /\ u # m
        BY <1>12, <2>4, <3>1, <4>4
      <4>5. QED
        BY <4>3, <4>4
    <3>5. QED
      BY <3>2, <3>3, <3>4
  <2>5. QED
    BY <1>8, <1>9, <2>1, <2>2, <2>4 DEF Numbered
<1>14. KeptInRedis(after)'
  <2> SUFFICES ASSUME NEW p \in Incoming, NEW x \in Keys, Accepted(p, x)',
                      after[p][x] = 0, ran'[p][x] > now' - Shorter
               PROVE  \E h \in redis'[x] : h[1] = p /\ h[2] >= ran'[p][x] - MaxDelay
    BY DEF KeptInRedis, Shorter
  <2>1. p # q \/ x # k
    BY <1>7, <1>8
  <2>2. Accepted(p, x) /\ ran'[p][x] = ran[p][x] /\ before[p][x] = 0
    BY <1>0, <1>8, <2>1
  <2>3. QED
    BY <1>1, <2>2 DEF LimitsKept, KeptInRedis
<1>15. ASSUME NEW p \in Incoming, Accepted(p, k)', after[p][k] = i, ran'[p][k] >= now - Window
       PROVE  <<p, ran'[p][k]>> \in hits
  <2>1. CASE p = q
    BY <1>0, <1>15, <2>1
  <2>2. CASE p # q
    <3>1. Accepted(p, k) /\ ran'[p][k] = ran[p][k] /\ before[p][k] = i
      BY <1>0, <1>8, <1>15, <2>2
    <3>2. before[p][k] <= fresh[k] /\ fresh[k] \in Nat
      BY <1>1, <1>6 DEF LimitsKept, Numbered
    <3>3. HasBucket(memory[m], k)
      BY <1>7, <1>11, <3>1, <3>2
    <3>4. earlier[m][k] = i
      BY <1>2, <3>3
    <3>5. <<p, ran[p][k]>> \in BucketOf(memory[m], k)
      BY <1>1, <1>15, <3>1, <3>3, <3>4 DEF LimitsKept, KeptInMemory
    <3>6. QED
      BY <1>15, <3>1, <3>5
  <2>3. QED
    BY <2>1, <2>2
<1>16. KeptInMemory(after, number)'
  <2> SUFFICES ASSUME NEW p \in Incoming, NEW s \in Incoming, NEW x \in Keys,
                      Accepted(p, x)', HasBucket(memory'[s], x),
                      after[p][x] = number[s][x], ran'[p][x] >= now' - Window
               PROVE  <<p, ran'[p][x]>> \in BucketOf(memory'[s], x)
    BY DEF KeptInMemory
  <2>1. CASE s = m /\ x = k
    <3>1. after[p][k] = i /\ ran'[p][k] >= now - Window
      BY <1>9, <2>1
    <3>2. QED
      BY <1>10, <1>15, <2>1, <3>1
  <2>2. CASE s # m \/ x # k
    <3>1. p # q \/ x # k
      <4> SUFFICES ASSUME p = q, x = k PROVE FALSE
        OBVIOUS
      <4>1. number[s][k] = number[m][k]
        BY <1>8, <1>9
      <4>2. \A v, w \in Incoming :
               HasBucket(memory'[v], k) /\ HasBucket(memory'[w], k)
                 /\ number[v][k] = number[w][k] => v = w
        BY <1>13 DEF Numbered
      <4>3. s = m
        BY <1>10, <4>1, <4>2
      <4>4. QED
        BY <2>2, <4>3
    <3>2. Accepted(p, x) /\ ran'[p][x] = ran[p][x] /\ before[p][x] = after[p][x]
      BY <1>0, <1>8, <3>1
    <3>3. /\ HasBucket(memory[s], x) /\ number[s][x] = earlier[s][x]
          /\ BucketOf(memory'[s], x) = BucketOf(memory[s], x)
      BY <1>12, <2>2
    <3>4. before[p][x] = earlier[s][x] /\ ran[p][x] >= now - Window
      BY <3>2, <3>3
    <3>5. QED
      BY <1>1, <3>2, <3>3, <3>4 DEF LimitsKept, KeptInMemory
  <2>3. QED
    BY <2>1, <2>2
<1>17. Limited(after)'
  <2> SUFFICES ASSUME NEW x \in Keys, NEW j \in Nat, NEW t \in 0..now
               PROVE  Cardinality(Through(after, x, j, t)') <= LimitOf[x]
    BY DEF Limited
  <2>1. LimitOf[x] \in Nat
    BY LimiterAssumption
  <2>2. CASE x = k /\ j = i /\ t = now /\ q \in Through(after, x, j, t)'
    <3>1. Cardinality(hits) <= LimitOf[k]
      BY <2>2 DEF Through
    <3>2. \A p \in Through(after, x, j, t)' :
             /\ p \in Incoming /\ Accepted(p, k)' /\ after[p][k] = i
             /\ ran'[p][k] \in (now - Shorter + 1)..now
      BY <2>2 DEF Through, Shorter
    <3>3. ASSUME NEW p \in Through(after, x, j, t)'
          PROVE  \E h \in hits : h[1] = p
      <4>1. ran'[p][k] >= now - Window
        BY <1>5, <3>2
      <4>2. <<p, ran'[p][k]>> \in hits
        BY <1>15, <3>2, <4>1
      <4>3. QED
        BY <4>2
    <3>4. Cardinality(Through(after, x, j, t)') <= Cardinality(hits)
      <4>1. Through(after, x, j, t)' \in SUBSET Incoming
        BY <3>2
      <4>2. QED
        BY <3>3, <4>1, OneHitEach
    <3>5. Cardinality(Through(after, x, j, t)') \in Nat /\ Cardinality(hits) \in Nat
      BY <3>2, IncomingIsFinite, HitsAreFinite
    <3>6. QED
      BY <2>1, <2>2, <3>1, <3>4, <3>5
  <2>3. CASE ~(x = k /\ j = i /\ t = now /\ q \in Through(after, x, j, t)')
    <3>1. ASSUME NEW p \in Through(after, x, j, t)'
          PROVE  p \in Through(before, x, j, t)
      <4>1. /\ p \in Incoming /\ Accepted(p, x)' /\ after[p][x] = j
            /\ ran'[p][x] \in (t - Shorter + 1)..t
        BY <3>1 DEF Through, Shorter
      <4>2. p # q \/ x # k
        <5> SUFFICES ASSUME p = q, x = k PROVE FALSE
          OBVIOUS
        <5>1. ran'[q][k] = now /\ j = i
          BY <1>0, <1>8, <4>1
        <5>2. t = now
          BY <1>5, <4>1, <5>1
        <5>3. QED
          BY <2>3, <3>1, <5>1, <5>2
      <4>3. Accepted(p, x) /\ ran'[p][x] = ran[p][x] /\ before[p][x] = j
        BY <1>0, <1>8, <4>1, <4>2
      <4>4. QED
        BY <4>1, <4>3 DEF Through
    <3>2. Through(before, x, j, t) \in SUBSET Incoming
      BY DEF Through
    <3>3. Cardinality(Through(before, x, j, t)) <= LimitOf[x]
      BY <1>1 DEF LimitsKept, Limited
    <3>4. QED
      BY <2>1, <3>1, <3>2, <3>3, FewerThrough
  <2>4. QED
    BY <2>2, <2>3
<1>18. QED
  BY <1>13, <1>14, <1>16, <1>17 DEF CountInv, LimitsKept
-----------------------------------------------------------------------------
LEMMA CountStep ==
    ASSUME LimiterInv, CountInv, [LimiterNext]_limiterVars
    PROVE  CountInv'
<1>1. /\ now \in Times /\ place \in [Incoming -> Places] /\ open \in [Incoming -> SUBSET Keys]
      /\ redis \in [Keys -> SUBSET Hits] /\ stamp \in [Incoming -> Times]
      /\ \A q \in Incoming : Carries(q)
  BY DEF LimiterInv, LimiterTypes
<1>2. ASSUME UNCHANGED <<now, redis, memory, fresh>>,
             \A q \in Incoming, k \in Keys :
               Accepted(q, k)' => Accepted(q, k) /\ ran'[q][k] = ran[q][k]
      PROVE  CountInv'
  BY <1>2, QuietStep DEF CountInv
<1>3. ASSUME NEW q \in Incoming, UNCHANGED <<now, redis, memory, fresh, over, ran, open>>,
             NEW to, place' = [place EXCEPT ![q] = to],
             to \in {"user", "user sent", "passed"} => place[q] \in {"user", "user sent"}
      PROVE  CountInv'
  <2>1. \A p \in Incoming : place'[p] = IF p = q THEN to ELSE place[p]
    BY <1>1, <1>3
  <2>2. QED
    BY <1>2, <1>3, <2>1 DEF Accepted
<1>4. ASSUME NEW q \in Incoming, NEW c \in Clients, NEW r \in Replicas, Arrive(q, c, r)
      PROVE  CountInv'
  <2>1. UNCHANGED <<now, redis, memory, fresh, over, ran, open>>
    BY <1>4 DEF Arrive
  <2>2. \E to \in {"pinging", "ip", "ip sent"} : place' = [place EXCEPT ![q] = to]
    BY <1>4 DEF Arrive, Begin
  <2>3. QED
    BY <1>3, <2>1, <2>2
<1>5. ASSUME NEW q \in Incoming, NEW answered \in BOOLEAN, Resolve(q, answered)
      PROVE  CountInv'
  <2>1. UNCHANGED <<now, redis, memory, fresh, over, ran, open>>
    BY <1>5 DEF Resolve
  <2>2. \E to \in {"ip", "ip sent"} : place' = [place EXCEPT ![q] = to]
    BY <1>5 DEF Resolve, Begin
  <2>3. QED
    BY <1>3, <2>1, <2>2
<1>6. ASSUME NEW q \in Incoming, SendToRedis(q)
      PROVE  CountInv'
  <2>1. UNCHANGED <<now, redis, memory, fresh, over, ran, open>>
    BY <1>6 DEF SendToRedis
  <2>2. place[q] = "user" /\ place' = [place EXCEPT ![q] = "user sent"]
    BY <1>6 DEF SendToRedis
  <2>3. QED
    BY <1>3, <2>1, <2>2
<1>7. ASSUME NEW q \in Incoming, place[q] \in Sent
      PROVE  stamp[q] \in Times /\ stamp[q] <= now /\ now <= stamp[q] + MaxDelay
  BY <1>1, <1>7 DEF Carries
<1>8. ASSUME NEW q \in Incoming, CountInRedis(q)
      PROVE  CountInv'
  <2>1. PICK k \in Keys : k = KeyOf(q)
    BY <1>8, KeyIsKey DEF CountInRedis
  <2>2. PICK hits : hits = Slid(redis[k], q, stamp[q])
    OBVIOUS
  <2>3. PICK b : b = (Cardinality(hits) > LimitOf[k])
    OBVIOUS
  <2>4. /\ place[q] \in Sent /\ place[q] \in {"ip", "ip sent", "user", "user sent"}
        /\ redis' = [redis EXCEPT ![k] = hits]
        /\ UNCHANGED <<now, memory, open, fresh>>
    BY <1>8, <2>1, <2>2 DEF CountInRedis, Sent
  <2>5. Counted(q, k, b)
    BY <1>8, <2>1, <2>2, <2>3, Zenon DEF CountInRedis
  <2>6. ~b => Cardinality(hits) <= LimitOf[k]
    <3>1. Cardinality(hits) \in Nat /\ LimitOf[k] \in Nat
      BY <1>7, <2>2, <2>4, SlidHits, HitsAreFinite, LimiterAssumption
    <3>2. ~b => ~(Cardinality(hits) > LimitOf[k])
      BY <2>3, Zenon
    <3>3. QED
      BY <3>1, <3>2
  <2>7. OnlyCounts(q, k) /\ (Accepted(q, k)' => ~b)
    <3>1. /\ open' \in [Incoming -> SUBSET Keys]
          /\ \A o \in Incoming : open[o] \subseteq open'[o]
      BY <1>1, <2>4
    <3>2. QED
      BY <2>4, <2>5, <3>1, AcceptedAfterCount
  <2>8. QED
    <3>1. stamp[q] \in Times /\ stamp[q] <= now /\ now <= stamp[q] + MaxDelay
      BY <1>7, <2>4
    <3>2. QED
      BY <2>2, <2>4, <2>6, <2>7, <3>1, RedisCountKeeps
<1>9. ASSUME NEW q \in Incoming, FailOpen(q)
      PROVE  CountInv'
  <2>1. PICK k \in Keys : k = KeyOf(q)
    BY <1>9, KeyIsKey DEF FailOpen
  <2>2. PICK hits : hits = Slid(redis[k], q, stamp[q])
    OBVIOUS
  <2>3. /\ place[q] \in Sent /\ place[q] \in {"ip", "ip sent", "user", "user sent"}
        /\ redis' = redis \/ redis' = [redis EXCEPT ![k] = hits]
        /\ open' = [open EXCEPT ![q] = open[q] \cup {k}]
        /\ Counted(q, k, FALSE)
        /\ UNCHANGED <<now, memory, fresh>>
    BY <1>9, <2>1, <2>2 DEF FailOpen, Sent
  <2>4. /\ open' \in [Incoming -> SUBSET Keys] /\ k \in open'[q]
        /\ \A p \in Incoming : open[p] \subseteq open'[p]
    BY <1>1, <2>3
  <2>5. OnlyCounts(q, k) /\ ~Accepted(q, k)'
    <3>1. OnlyCounts(q, k)
      BY <2>3, <2>4, AcceptedAfterCount
    <3>2. QED
      BY <2>4, <3>1 DEF Accepted
  <2>6. CASE redis' = redis
    BY <1>2, <2>3, <2>5, <2>6 DEF OnlyCounts
  <2>7. CASE redis' = [redis EXCEPT ![k] = hits]
    <3>1. stamp[q] \in Times /\ stamp[q] <= now /\ now <= stamp[q] + MaxDelay
      BY <1>7, <2>3
    <3>2. QED
      BY <2>2, <2>3, <2>5, <2>7, <3>1, RedisCountKeeps
  <2>8. QED
    BY <2>3, <2>6, <2>7
<1>10. ASSUME NEW q \in Incoming, CountInMemory(q)
       PROVE  CountInv'
  <2>1. PICK k \in Keys : k = KeyOf(q)
    BY <1>10, KeyIsKey DEF CountInMemory
  <2>2. PICK m \in Incoming : m = uses[q]
    BY <1>10 DEF CountInMemory
  <2>3. PICK hits : hits =
          {h \in BucketOf(memory[m], k) : h[2] >= now - Window} \cup {<<q, now>>}
    OBVIOUS
  <2>4. PICK b : b = (Cardinality(hits) > LimitOf[k])
    OBVIOUS
  <2>5. /\ place[q] \in {"ip", "ip sent", "user", "user sent"}
        /\ memory' = [memory EXCEPT ![m] =
                        Append(Kept(memory[m], k), [key |-> k, hits |-> hits])]
        /\ fresh' = IF HasBucket(memory[m], k) THEN fresh
                    ELSE [fresh EXCEPT ![k] = fresh[k] + 1]
        /\ UNCHANGED <<now, redis, open>>
    BY <1>10, <2>1, <2>2, <2>3 DEF CountInMemory, Hit
  <2>6. Counted(q, k, b)
    BY <1>10, <2>1, <2>2, <2>3, <2>4, Zenon DEF CountInMemory, Hit
  <2>7. hits \in SUBSET Hits
    BY <1>1, <2>3, BucketHits DEF Hits
  <2>8. ~b => Cardinality(hits) <= LimitOf[k]
    <3>1. Cardinality(hits) \in Nat /\ LimitOf[k] \in Nat
      BY <2>7, HitsAreFinite, LimiterAssumption
    <3>2. ~b => ~(Cardinality(hits) > LimitOf[k])
      BY <2>4, Zenon
    <3>3. QED
      BY <3>1, <3>2
  <2>9. OnlyCounts(q, k) /\ (Accepted(q, k)' => ~b)
    <3>1. /\ open' \in [Incoming -> SUBSET Keys]
          /\ \A o \in Incoming : open[o] \subseteq open'[o]
      BY <1>1, <2>5
    <3>2. QED
      BY <2>5, <2>6, <3>1, AcceptedAfterCount
  <2>10. QED
    BY <2>3, <2>5, <2>7, <2>8, <2>9, MemoryCountKeeps
<1>11. CASE Elapse
  BY <1>11, ElapseKeeps
<1>12. CASE UNCHANGED limiterVars
  BY <1>2, <1>12 DEF limiterVars, request, Accepted
<1>13. QED
  BY <1>4, <1>5, <1>6, <1>8, <1>9, <1>10, <1>11, <1>12 DEF LimiterNext

LEMMA CountInvariance == LimiterSpec => []CountInv
  BY LimiterInvariance, CountStart, CountStep, PTL DEF LimiterSpec

(* Requests that are spread over the buckets 0..n, no more than most in    *)
(* each, are not more than most in all of them.                            *)
LEMMA ManyBuckets ==
    ASSUME NEW S \in SUBSET Incoming, NEW n \in Nat, NEW most \in Nat,
           NEW bucket \in [S -> 0..n],
           \A i \in 0..n : Cardinality({q \in S : bucket[q] = i}) <= most
    PROVE  Cardinality(S) <= most * (1 + n)
<1> DEFINE In(i) == {q \in S : bucket[q] = i}
           Slots(i) == 1..Cardinality(In(i))
           at == [i \in 0..n |-> CHOOSE f : f \in Bijection(In(i), Slots(i))]
           spot == [q \in S |-> <<bucket[q], at[bucket[q]][q]>>]
<1>1. ASSUME NEW i \in 0..n
      PROVE  at[i] \in Bijection(In(i), Slots(i)) /\ Cardinality(In(i)) \in 0..most
  <2>1. IsFiniteSet(In(i)) /\ Cardinality(In(i)) \in 0..most
    <3>1. IsFiniteSet(In(i)) /\ Cardinality(In(i)) \in Nat
      BY IncomingIsFinite
    <3>2. QED
      BY <3>1
  <2>2. ExistsBijection(Slots(i), In(i))
    BY <2>1, FS_CardinalityType
  <2> HIDE DEF In, Slots
  <2>3. ExistsBijection(In(i), Slots(i))
    BY <2>2, Fun_ExistsBijSymmetric
  <2>4. \E f : f \in Bijection(In(i), Slots(i))
    BY <2>3 DEF ExistsBijection
  <2>5. at[i] \in Bijection(In(i), Slots(i))
    BY <1>1, <2>4
  <2>6. QED
    BY <2>1, <2>5
<1> HIDE DEF at
<1>2. spot \in [S -> (0..n) \X (1..most)]
  <2> SUFFICES ASSUME NEW q \in S
               PROVE  bucket[q] \in 0..n /\ at[bucket[q]][q] \in 1..most
    OBVIOUS
  <2>1. bucket[q] \in 0..n /\ q \in In(bucket[q])
    OBVIOUS
  <2>2. at[bucket[q]][q] \in Slots(bucket[q]) /\ Cardinality(In(bucket[q])) \in 0..most
    BY <1>1, <2>1 DEF Bijection, Injection
  <2>3. QED
    BY <2>1, <2>2
<1>3. ASSUME NEW p \in S, NEW q \in S, spot[p] = spot[q]
      PROVE  p = q
  <2>1. bucket[p] = bucket[q] /\ at[bucket[p]][p] = at[bucket[p]][q]
    BY <1>3
  <2>2. bucket[p] \in 0..n /\ p \in In(bucket[p]) /\ q \in In(bucket[p])
    BY <2>1
  <2>3. QED
    BY <1>1, <2>1, <2>2 DEF Bijection, Injection, IsInjective
<1> HIDE DEF spot
<1>4. spot \in Injection(S, (0..n) \X (1..most))
  BY <1>2, <1>3 DEF Injection, IsInjective
<1>5. /\ IsFiniteSet(0..n) /\ Cardinality(0..n) = n + 1
      /\ IsFiniteSet(1..most) /\ Cardinality(1..most) = most
  <2>1. \A a, b \in Int : /\ IsFiniteSet(a..b)
                          /\ Cardinality(a..b) = IF a > b THEN 0 ELSE b - a + 1
    BY FS_Interval
  <2>2. n \in Nat /\ most \in Nat
    OBVIOUS
  <2>3. IsFiniteSet(0..n) /\ Cardinality(0..n) = n + 1
    BY <2>1, <2>2
  <2>4. IsFiniteSet(1..most) /\ Cardinality(1..most) = most
    BY <2>1, <2>2
  <2>5. QED
    BY <2>3, <2>4
<1>6. /\ IsFiniteSet((0..n) \X (1..most))
      /\ Cardinality((0..n) \X (1..most)) = (n + 1) * most
  <2> DEFINE A == 0..n
             B == 1..most
  <2>1. IsFiniteSet(A) /\ Cardinality(A) = n + 1
    BY <1>5
  <2>2. IsFiniteSet(B) /\ Cardinality(B) = most
    BY <1>5
  <2> HIDE DEF A, B
  <2>3. IsFiniteSet(A \X B) /\ Cardinality(A \X B) = Cardinality(A) * Cardinality(B)
    BY <2>1, <2>2, FS_Product
  <2>4. IsFiniteSet(A \X B) /\ Cardinality(A \X B) = (n + 1) * most
    BY <2>1, <2>2, <2>3
  <2>5. QED
    BY <2>4 DEF A, B
<1>7. Cardinality(S) <= (n + 1) * most
  BY <1>4, <1>6, FS_Injection
<1>8. (n + 1) * most = most * (1 + n)
  OBVIOUS
<1>9. QED
  BY <1>7, <1>8

(* Whichever replicas the requests come to and however late their checks   *)
(* run, Redis and each memory bucket ever made for a key let no more than  *)
(* the key's limit through in a stretch of Window - MaxDelay.              *)
THEOREM LimitIsKept == LimiterSpec => []NeverOverLimit
<1>1. ASSUME LimiterInv, CountInv PROVE NeverOverLimit
  <2> SUFFICES ASSUME NEW k \in Keys, NEW t \in 0..now
               PROVE  Cardinality(PassedIn(k, t)) <= LimitOf[k] * (1 + fresh[k])
    BY DEF NeverOverLimit
  <2>1. PICK counted, number : LimitsKept(counted, number)
    BY <1>1 DEF CountInv
  <2>2. fresh[k] \in Nat /\ LimitOf[k] \in Nat /\ PassedIn(k, t) \in SUBSET Incoming
    BY <1>1, LimiterAssumption DEF LimiterInv, LimiterTypes, PassedIn
  <2>3. ASSUME NEW q \in PassedIn(k, t)
        PROVE  /\ q \in Incoming /\ Accepted(q, k) /\ counted[q][k] \in 0..fresh[k]
               /\ ran[q][k] \in (t - Shorter + 1)..t
    <3>1. /\ q \in Incoming /\ place[q] = "passed" /\ k \notin open[q]
          /\ ran[q][k] \in (t - Shorter + 1)..t
      BY DEF PassedIn, Shorter
    <3>2. over[q] = FALSE
      BY <1>1, <3>1 DEF LimiterInv, Carries
    <3>3. ran[q][k] # Never
      <4>1. Shorter \in Nat /\ Shorter <= Window /\ Window \in Nat
        BY <1>1, RanIsTime
      <4>2. Never < t - Shorter + 1
        BY <4>1 DEF Never
      <4>3. Never \in Int
        BY LimiterTimes
      <4>4. QED
        BY <3>1, <4>1, <4>2, <4>3
    <3>4. counted[q][k] \in 0..fresh[k]
      BY <2>1, <2>2, <3>1 DEF LimitsKept, Numbered
    <3>5. QED
      BY <3>1, <3>2, <3>3, <3>4 DEF Accepted
  <2> DEFINE bucket == [q \in PassedIn(k, t) |-> counted[q][k]]
  <2>4. bucket \in [PassedIn(k, t) -> 0..fresh[k]]
    BY <2>3
  <2>5. ASSUME NEW i \in 0..fresh[k]
        PROVE  Cardinality({q \in PassedIn(k, t) : bucket[q] = i}) <= LimitOf[k]
    <3>1. {q \in PassedIn(k, t) : bucket[q] = i} \subseteq Through(counted, k, i, t)
      BY <2>3 DEF Through
    <3>2. Cardinality(Through(counted, k, i, t)) <= LimitOf[k]
      BY <2>1, <2>2 DEF LimitsKept, Limited
    <3>3. Through(counted, k, i, t) \in SUBSET Incoming
      BY DEF Through
    <3>4. QED
      BY <2>2, <3>1, <3>2, <3>3, FewerThrough
  <2> HIDE DEF bucket
  <2>6. QED
    BY <2>2, <2>4, <2>5, ManyBuckets
<1>2. LimiterInv /\ CountInv => NeverOverLimit
  BY <1>1
<1>3. QED
  BY <1>2, LimiterInvariance, CountInvariance, PTL
=============================================================================
