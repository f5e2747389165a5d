----------------------------- MODULE RateLimiter -----------------------------
(***************************************************************************)
(* The gateway's sliding-window rate limiter (app/middleware/              *)
(* rate_limiter.py) on several replicas.  A replica resolves its store     *)
(* with the first requests that need it, to the shared Redis or to its own *)
(* memory; a request is counted in its address's bucket and then, when it  *)
(* is authenticated, in its user's.                                        *)
(***************************************************************************)
EXTENDS Integers, FiniteSets, Sequences, SequencesExt

CONSTANTS Replicas, Incoming,
          Clients,     \* [ip, user]; the user is Nobody when not authenticated
          Nobody,
          LimitOf,     \* key -> max_requests, auth_max_requests or user_max_requests
          Window,      \* window_seconds
          MaxTracked,  \* MAX_TRACKED_IPS
          MaxDelay,    \* bound: ticks from time.time() to the EXEC in Redis
          MaxTime,     \* bound on the clock
          MaxFailures, \* bound: pings and checks on which Redis fails
          Shared, Unresolved

Keys == DOMAIN LimitOf

ASSUME LimiterAssumption ==
    /\ IsFiniteSet(Incoming)
    /\ LimitOf \in [Keys -> Nat]
    /\ Window \in Nat /\ MaxDelay \in 0..Window
    /\ MaxTime \in Nat /\ MaxFailures \in Nat
    /\ MaxTracked \in Nat \ {0}
    /\ \A c \in Clients : c.ip \in Keys /\ c.user \in (Keys \ {c.ip}) \cup {Nobody}
    /\ Nobody \notin Keys
    /\ Shared \notin Incoming /\ Unresolved \notin Incoming \cup {Shared}

(* A memory store is known by the request that made it.                    *)
Stores == Incoming \cup {Shared}

VARIABLES now,      \* the clock, the same for all
          store,    \* replica -> self._store
          redis,    \* key -> its sorted set of hits
          memory,   \* memory store -> its buckets [key, hits], last used last
          place,    \* request -> where it is
          client, replica,  \* request -> its client and the replica it came to
          uses,     \* request -> the store it has got
          stamp,    \* request -> the time it took for the check under way
          over,     \* request -> was its address over the limit?
          ran,      \* history: request -> the times at which its keys were counted
          open,     \* history: request -> the keys on which Redis failed
          fresh,    \* history: key -> memory buckets made for it
          failures  \* environment: times that Redis has failed

request == <<place, client, replica, uses, stamp, over, ran, open>>
limiterVars == <<now, store, redis, memory, request, fresh, failures>>

Times == 0..MaxTime
Never == -(Window + 1)
Places == {"idle", "pinging", "ip", "ip sent", "user", "user sent", "passed", "limited"}
Hits == Incoming \X Times

LimiterTypeOK ==
    /\ now \in Times
    /\ store \in [Replicas -> Stores \cup {Unresolved}]
    /\ \A k \in Keys : redis[k] \subseteq Hits
    /\ \A m \in Incoming :
         /\ Len(memory[m]) <= MaxTracked
         /\ \A i \in DOMAIN memory[m] : memory[m][i].key \in Keys /\ memory[m][i].hits \subseteq Hits
         /\ \A i, j \in DOMAIN memory[m] : memory[m][i].key = memory[m][j].key => i = j
    /\ place \in [Incoming -> Places]
    /\ \A q \in Incoming : place[q] \notin {"idle", "passed", "limited"} => client[q] \in Clients /\ replica[q] \in Replicas
    /\ \A q \in Incoming : uses[q] \in Stores \cup {Unresolved} /\ stamp[q] \in Times
    /\ \A q \in Incoming : over[q] \in BOOLEAN /\ open[q] \subseteq Keys
    /\ fresh \in [Keys -> Nat] /\ failures \in 0..MaxFailures

LimiterInit ==
    /\ now = 0
    /\ store = [r \in Replicas |-> Unresolved]
    /\ redis = [k \in Keys |-> {}]
    /\ memory = [m \in Incoming |-> << >>]
    /\ place = [q \in Incoming |-> "idle"]
    /\ client = [q \in Incoming |-> Nobody]
    /\ replica = [q \in Incoming |-> Unresolved]
    /\ uses = [q \in Incoming |-> Unresolved]
    /\ stamp = [q \in Incoming |-> 0]
    /\ over = [q \in Incoming |-> FALSE]
    /\ ran = [q \in Incoming |-> [k \in Keys |-> Never]]
    /\ open = [q \in Incoming |-> {}]
    /\ fresh = [k \in Keys |-> 0]
    /\ failures = 0

-----------------------------------------------------------------------------
(* Time passes; a check is executed within MaxDelay of its time stamp.     *)
Elapse ==
    /\ now < MaxTime
    /\ \A q \in Incoming : place[q] \in {"ip sent", "user sent"} => now < stamp[q] + MaxDelay
    /\ now' = now + 1
    /\ UNCHANGED <<store, redis, memory, request, fresh, failures>>

(* A request takes its time stamp and sends its check to Redis at once.    *)
Begin(q, s) ==
    /\ uses' = [uses EXCEPT ![q] = s]
    /\ place' = [place EXCEPT ![q] = IF s = Shared THEN "ip sent" ELSE "ip"]
    /\ stamp' = [stamp EXCEPT ![q] = IF s = Shared THEN now ELSE 0]

(* dispatch up to its first await: a store that is there is used, else     *)
(* _get_store pings Redis.                                                 *)
Arrive(q, c, r) ==
    /\ place[q] = "idle"
    /\ client' = [client EXCEPT ![q] = c]
    /\ replica' = [replica EXCEPT ![q] = r]
    /\ IF store[r] = Unresolved
       THEN place' = [place EXCEPT ![q] = "pinging"] /\ UNCHANGED <<uses, stamp>>
       ELSE Begin(q, store[r])
    /\ UNCHANGED <<now, store, redis, memory, over, ran, open, fresh, failures>>

Fails(b) ==
    /\ failures' = IF b THEN failures + 1 ELSE failures
    /\ failures' <= MaxFailures

(* The ping is answered, or it is not and a memory store is made; either   *)
(* replaces what another first request has set in the meantime.            *)
Resolve(q, answered) ==
    LET s == IF answered THEN Shared ELSE q IN
    /\ place[q] = "pinging"
    /\ store' = [store EXCEPT ![replica[q]] = s]
    /\ Begin(q, s)
    /\ Fails(~answered)
    /\ UNCHANGED <<now, redis, memory, client, replica, over, ran, open, fresh>>

-----------------------------------------------------------------------------
KeyOf(q) == IF place[q] \in {"ip", "ip sent"} THEN client[q].ip ELSE client[q].user

(* uuid4: every hit is a member of its own, even at the same time.         *)
MutHit(q, at) == <<at, at>>
Hit(q, at) == <<q, at>>

(* zremrangebyscore up to and with the window's start, then zadd.          *)
Slid(hits, q, at) == {h \in hits : h[2] > at - Window} \cup {Hit(q, at)}

(* After the address comes the user, if there is one, and then the verdict *)
(* on both; with it the request's local variables go.                      *)
Counted(q, k, isOver) ==
    LET limited == over[q] \/ isOver
        more == place[q] \in {"ip", "ip sent"} /\ client[q].user # Nobody
    IN
    /\ place' = [place EXCEPT ![q] =
                IF more THEN "user" ELSE IF limited THEN "limited" ELSE "passed"]
    /\ over' = [over EXCEPT ![q] = more /\ limited]
    /\ ran' = [ran EXCEPT ![q] =
                 IF more \/ ~limited THEN [@ EXCEPT ![k] = now] ELSE [x \in Keys |-> Never]]
    /\ client' = [client EXCEPT ![q] = IF more THEN @ ELSE Nobody]
    /\ replica' = [replica EXCEPT ![q] = IF more THEN @ ELSE Unresolved]
    /\ uses' = [uses EXCEPT ![q] = IF more THEN @ ELSE Unresolved]
    /\ stamp' = [stamp EXCEPT ![q] = 0]

(* The answer for the address is back: the check of the user goes out.     *)
SendToRedis(q) ==
    /\ place[q] = "user"
    /\ uses[q] = Shared
    /\ stamp' = [stamp EXCEPT ![q] = now]
    /\ place' = [place EXCEPT ![q] = "user sent"]
    /\ UNCHANGED <<now, store, redis, memory, client, replica, uses, over, ran, open, fresh, failures>>

CountInRedis(q) ==
    LET k == KeyOf(q)  hits == Slid(redis[k], q, stamp[q]) IN
    /\ place[q] \in {"ip sent", "user sent"}
    /\ redis' = [redis EXCEPT ![k] = hits]
    /\ Counted(q, k, Cardinality(hits) > LimitOf[k])
    /\ UNCHANGED <<now, store, memory, open, fresh, failures>>

(* The call fails, before or after Redis has executed it: let it pass.     *)
FailOpen(q) ==
    LET k == KeyOf(q) IN
    /\ place[q] \in {"ip sent", "user sent"}
    /\ redis' \in {redis, [redis EXCEPT ![k] = Slid(@, q, stamp[q])]}
    /\ open' = [open EXCEPT ![q] = @ \cup {k}]
    /\ Fails(TRUE)
    /\ Counted(q, k, FALSE)
    /\ UNCHANGED <<now, store, memory, fresh>>

(* _get_bucket: the key's bucket becomes the last used; a new one may push *)
(* out the least recently used.                                            *)
HasBucket(buckets, k) == \E i \in DOMAIN buckets : buckets[i].key = k
BucketAt(buckets, k) == CHOOSE i \in DOMAIN buckets : buckets[i].key = k
BucketOf(buckets, k) ==
    IF HasBucket(buckets, k) THEN buckets[BucketAt(buckets, k)].hits ELSE {}
MutKept(buckets, k) ==
    IF HasBucket(buckets, k) THEN RemoveAt(buckets, BucketAt(buckets, k)) ELSE buckets
Kept(buckets, k) ==
    IF HasBucket(buckets, k) THEN RemoveAt(buckets, BucketAt(buckets, k))
    ELSE IF Len(buckets) >= MaxTracked THEN Tail(buckets)
    ELSE buckets

(* _InMemoryStore.check_and_increment has no await.                        *)
CountInMemory(q) ==
    LET k == KeyOf(q)  m == uses[q]
        hits == {h \in BucketOf(memory[m], k) : h[2] >= now - Window} \cup {Hit(q, now)}
    IN
    /\ place[q] \in {"ip", "user"}
    /\ uses[q] \in Incoming
    /\ memory' = [memory EXCEPT ![m] = Append(Kept(@, k), [key |-> k, hits |-> hits])]
    /\ fresh' = IF HasBucket(memory[m], k) THEN fresh ELSE [fresh EXCEPT ![k] = @ + 1]
    /\ Counted(q, k, Cardinality(hits) > LimitOf[k])
    /\ UNCHANGED <<now, store, redis, open, failures>>

LimiterNext ==
    \/ Elapse
    \/ \E q \in Incoming :
        \/ \E c \in Clients, r \in Replicas : Arrive(q, c, r)
        \/ \E answered \in BOOLEAN : Resolve(q, answered)
        \/ SendToRedis(q) \/ CountInRedis(q) \/ FailOpen(q) \/ CountInMemory(q)

LimiterSpec == LimiterInit /\ [][LimiterNext]_limiterVars

-----------------------------------------------------------------------------
(* "Redis is a single shared store, so rate limit state is consistent":    *)
(* of the requests counted for a key in a stretch of Window - MaxDelay     *)
(* ticks, no more than the limit pass, whichever replicas they came to and *)
(* however late their checks ran, except that each memory bucket ever made *)
(* for the key lets its own limit through, and that a request on which     *)
(* Redis fails is let through.                                             *)
PassedIn(k, t) ==
    {q \in Incoming : /\ place[q] = "passed"
                      /\ ran[q][k] \in (t - (Window - MaxDelay) + 1)..t
                      /\ k \notin open[q]}
NeverOverLimit ==
    \A k \in Keys, t \in 0..now :
        Cardinality(PassedIn(k, t)) <= LimitOf[k] * (1 + fresh[k])
=============================================================================
