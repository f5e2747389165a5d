--------------------------- MODULE AccountSessions ---------------------------
(***************************************************************************)
(* One account of the user-service and its sessions: login with the        *)
(* per-account lockout, refresh-token rotation, logout, deactivation and   *)
(* deletion (app/routes/auth.py, app/routes/users.py), over the lockout    *)
(* counter and the refresh tokens in Redis (app/redis_client.py).          *)
(*                                                                         *)
(* Every await on Redis, PostgreSQL or bcrypt is the end of a step; what a *)
(* request has read it keeps, stale or not.  Accounts and emails share     *)
(* nothing, so the module has one.  A session is named by the refresh      *)
(* token that its login issued.                                            *)
(***************************************************************************)
EXTENDS Naturals, FiniteSets

CONSTANTS Slots,      \* requests that can be under way at once
          MaxTokens,  \* bound: refresh tokens that can ever be drawn (uuid4)
          Threshold,  \* LOCKOUT_THRESHOLD
          CountCap,   \* the counter saturates here: it is only ever compared
                      \* with Threshold
          None

ASSUME SessionAssumption ==
    /\ IsFiniteSet(Slots)
    /\ Threshold \in Nat \ {0}
    /\ CountCap \in Nat
    /\ CountCap > Threshold
    /\ MaxTokens \in Nat
    /\ None \notin Nat

Tokens == 1..MaxTokens  \* numbered in the order in which they are drawn

VARIABLES account,   \* the committed row: "active", "inactive" or "gone"
          failures,  \* Redis login_fail:{email}; 0 when the key is absent
          ttl,       \* does that key carry its expiry?
          live,      \* tokens with a refresh:{token} key in Redis
          origin,    \* history: token -> the first token of its session
          held,      \* tokens that a client has received
          redisUp,
          connected, \* is the module's _client set?
          pc,        \* "idle", "fetching", "verifying", "storing", "responding"
          job,       \* "login" or "refresh"
          locked,    \* what is_account_locked told this login
          seen,      \* the account as this login fetched it
          session,   \* the session that this refresh carries on
          token,     \* the refresh token of the response
          late,      \* history: responses of a slot since `account` left
                     \* "active", up to two
          steady     \* environment, fixed: Redis never fails

redisVars == <<failures, ttl, live, origin>>
slotVars == <<pc, job, locked, seen, session, token>>
vars == <<account, redisVars, held, redisUp, connected, slotVars, late, steady>>

TypeOK ==
    /\ account \in {"active", "inactive", "gone"}
    /\ failures \in 0..CountCap
    /\ ttl \in BOOLEAN
    /\ live \subseteq Tokens
    /\ origin \in [Tokens -> Tokens \cup {None}]
    /\ held \subseteq Tokens
    /\ redisUp \in BOOLEAN
    /\ connected \in BOOLEAN
    /\ pc \in [Slots -> {"idle", "fetching", "verifying", "storing", "responding"}]
    /\ job \in [Slots -> {"login", "refresh"}]
    /\ locked \in [Slots -> BOOLEAN]
    /\ seen \in [Slots -> {"active", "inactive", "gone"}]
    /\ session \in [Slots -> Tokens \cup {None}]
    /\ token \in [Slots -> Tokens \cup {None}]
    /\ late \in [Slots -> 0..2]
    /\ steady \in BOOLEAN

Init ==
    /\ account = "active"
    /\ failures = 0
    /\ ttl = FALSE
    /\ live = {}
    /\ origin = [t \in Tokens |-> None]
    /\ held = {}
    /\ redisUp = TRUE
    /\ connected = FALSE
    /\ pc = [s \in Slots |-> "idle"]
    /\ job = [s \in Slots |-> "login"]
    /\ locked = [s \in Slots |-> FALSE]
    /\ seen = [s \in Slots |-> "gone"]
    /\ session = [s \in Slots |-> None]
    /\ token = [s \in Slots |-> None]
    /\ late = [s \in Slots |-> 0]
    /\ steady \in BOOLEAN

-----------------------------------------------------------------------------
(* get_redis connects on first use and then keeps its client for good: an  *)
(* outage that comes later is met as an exception, not as None.            *)
UseRedis == connected' = (connected \/ redisUp)
Raises == connected /\ ~redisUp

(* The request is over; its slot forgets it.                               *)
Finish(s) ==
    /\ pc' = [pc EXCEPT ![s] = "idle"]
    /\ job' = [job EXCEPT ![s] = "login"]
    /\ locked' = [locked EXCEPT ![s] = FALSE]
    /\ seen' = [seen EXCEPT ![s] = "gone"]
    /\ session' = [session EXCEPT ![s] = None]
    /\ token' = [token EXCEPT ![s] = None]

(* Mutants of the definitions below.                                       *)
MutLockAbove == redisUp /\ failures > Threshold
MutCountWithoutExpiry ==
    IF redisUp
    THEN /\ failures' = IF failures < CountCap THEN failures + 1 ELSE failures
         /\ UNCHANGED ttl
    ELSE UNCHANGED <<failures, ttl>>
MutDecrement ==
    IF redisUp THEN failures' = failures - 1 /\ ttl' = FALSE
               ELSE UNCHANGED <<failures, ttl>>
MutGetWithoutDelete(t) == live
MutDeletedOnly == account # "gone"
MutTrustsOldToken(s, t) ==
    /\ pc[s] = "idle"
    /\ t \in held
    /\ redisUp
    /\ UseRedis
    /\ live' = live \ {t}
    /\ pc' = [pc EXCEPT ![s] = "fetching"]
    /\ job' = [job EXCEPT ![s] = "refresh"]
    /\ session' = [session EXCEPT ![s] = origin[t]]
    /\ UNCHANGED <<account, failures, ttl, origin, held, redisUp, locked, seen,
                   token, late, steady>>

-----------------------------------------------------------------------------
(* record_login_failure: INCR and EXPIRE NX in one transaction.            *)
RecordLoginFailure ==
    IF redisUp
    THEN /\ failures' = IF failures < CountCap THEN failures + 1 ELSE failures
         /\ ttl' = TRUE
    ELSE UNCHANGED <<failures, ttl>>

ResetLoginFailures ==
    IF redisUp THEN failures' = 0 /\ ttl' = FALSE ELSE UNCHANGED <<failures, ttl>>

(* login, step 1: is_account_locked, which fails open.                     *)
IsLocked == redisUp /\ failures >= Threshold

Login(s) ==
    /\ pc[s] = "idle"
    /\ UseRedis
    /\ pc' = [pc EXCEPT ![s] = "fetching"]
    /\ locked' = [locked EXCEPT ![s] = IsLocked]
    /\ UNCHANGED <<account, redisVars, held, redisUp, job, seen, session,
                   token, late, steady>>

(* login, step 2: fetch the user; then bcrypt runs in its thread.          *)
FetchLogin(s) ==
    /\ pc[s] = "fetching" /\ job[s] = "login"
    /\ pc' = [pc EXCEPT ![s] = "verifying"]
    /\ seen' = [seen EXCEPT ![s] = account]
    /\ UNCHANGED <<account, redisVars, held, redisUp, connected, job, locked,
                   session, token, late, steady>>

(* login, step 3: the 401, for a locked account or a wrong password (the   *)
(* verdict of bcrypt, which may go either way unless there is no account). *)
(* Only an existing, unlocked account counts it.                           *)
Reject(s) ==
    /\ pc[s] = "verifying"
    /\ IF seen[s] # "gone" /\ ~locked[s]
       THEN UseRedis /\ RecordLoginFailure
       ELSE UNCHANGED <<connected, failures, ttl>>
    /\ Finish(s)
    /\ UNCHANGED <<account, live, origin, held, redisUp, late, steady>>

(* The 403 for a deactivated account: neither counted nor reset.           *)
RejectDeactivated(s) ==
    /\ pc[s] = "verifying"
    /\ ~locked[s] /\ seen[s] = "inactive"
    /\ Finish(s)
    /\ UNCHANGED <<account, redisVars, held, redisUp, connected, late, steady>>

(* login, step 4: the password is right; clear the counter.                *)
Accept(s) ==
    /\ pc[s] = "verifying"
    /\ ~locked[s] /\ seen[s] = "active"
    /\ UseRedis
    /\ ResetLoginFailures
    /\ pc' = [pc EXCEPT ![s] = "storing"]
    /\ UNCHANGED <<account, live, origin, held, redisUp, job, locked, seen,
                   session, token, late, steady>>

(* consume_refresh_token: GETDEL takes the key that it finds.              *)
Without(t) == live \ {t}

Refresh(s, t) ==
    /\ pc[s] = "idle"
    /\ t \in held
    /\ redisUp /\ t \in live
    /\ UseRedis
    /\ live' = Without(t)
    /\ pc' = [pc EXCEPT ![s] = "fetching"]
    /\ job' = [job EXCEPT ![s] = "refresh"]
    /\ session' = [session EXCEPT ![s] = origin[t]]
    /\ UNCHANGED <<account, failures, ttl, origin, held, redisUp, locked, seen,
                   token, late, steady>>

(* The token is unknown (401) or Redis does not answer (401 or 500).       *)
RefuseRefresh(s, t) ==
    /\ pc[s] = "idle"
    /\ t \in held
    /\ ~redisUp \/ t \notin live
    /\ UseRedis
    /\ UNCHANGED <<account, redisVars, held, redisUp, slotVars, late, steady>>

MayGoOn == account = "active"

(* refresh fetches the user of the token: gone or inactive is a 401.       *)
FetchRefresh(s) ==
    /\ pc[s] = "fetching" /\ job[s] = "refresh"
    /\ MayGoOn
    /\ pc' = [pc EXCEPT ![s] = "storing"]
    /\ UNCHANGED <<account, redisVars, held, redisUp, connected, job, locked,
                   seen, session, token, late, steady>>

RejectRefresh(s) ==
    /\ pc[s] = "fetching" /\ job[s] = "refresh"
    /\ ~MayGoOn
    /\ Finish(s)
    /\ UNCHANGED <<account, redisVars, held, redisUp, connected, late, steady>>

(* _issue_token_response: SETEX of a new token.  Never connected, the      *)
(* service answers without one; an outage after that is a 500.             *)
Issue(s) ==
    /\ pc[s] = "storing"
    /\ redisUp
    /\ UseRedis
    /\ \E t \in Tokens :
        /\ \A u \in Tokens : origin[u] = None <=> u >= t
        /\ origin' = [origin EXCEPT ![t] = IF session[s] = None
                                           THEN t ELSE session[s]]
        /\ live' = live \cup {t}
        /\ token' = [token EXCEPT ![s] = t]
    /\ pc' = [pc EXCEPT ![s] = "responding"]
    /\ UNCHANGED <<account, failures, ttl, held, redisUp, job, locked, seen,
                   session, late, steady>>

IssueNone(s) ==
    /\ pc[s] = "storing"
    /\ ~redisUp /\ ~Raises
    /\ pc' = [pc EXCEPT ![s] = "responding"]
    /\ UNCHANGED <<account, redisVars, held, redisUp, connected, job, locked,
                   seen, session, token, late, steady>>

IssueRaises(s) ==
    /\ pc[s] = "storing"
    /\ Raises
    /\ Finish(s)
    /\ UNCHANGED <<account, redisVars, held, redisUp, connected, late, steady>>

(* The session commits and the response leaves.  A login's commit writes   *)
(* last_login_at; if the row is gone by then it fails, and so does login,  *)
(* its token left behind in Redis.                                         *)
Respond(s) ==
    /\ pc[s] = "responding"
    /\ job[s] = "login" => account # "gone"
    /\ held' = held \cup ({token[s]} \ {None})
    /\ late' = IF account # "active" /\ late[s] < 2
               THEN [late EXCEPT ![s] = late[s] + 1] ELSE late
    /\ Finish(s)
    /\ UNCHANGED <<account, redisVars, redisUp, connected, steady>>

CommitFails(s) ==
    /\ pc[s] = "responding"
    /\ job[s] = "login" /\ account = "gone"
    /\ Finish(s)
    /\ UNCHANGED <<account, redisVars, held, redisUp, connected, late, steady>>

(* A command whose reply is lost (socket_timeout), a database error, a     *)
(* response that does not arrive: the request ends, what it did remains.   *)
Abandon(s) ==
    /\ pc[s] # "idle"
    /\ Finish(s)
    /\ UNCHANGED <<account, redisVars, held, redisUp, connected, late, steady>>

(* logout: DEL, whoever presents the token.                                *)
Logout(t) ==
    /\ t \in held
    /\ redisUp
    /\ UseRedis
    /\ live' = Without(t)
    /\ UNCHANGED <<account, failures, ttl, origin, held, redisUp, slotVars, late,
                   steady>>

(* Redis expires keys, whether or not the service can reach it.            *)
WindowEnds ==
    /\ ttl
    /\ failures' = 0
    /\ ttl' = FALSE
    /\ UNCHANGED <<account, live, origin, held, redisUp, connected, slotVars, late,
                   steady>>

TokenExpires(t) ==
    /\ t \in live
    /\ live' = live \ {t}
    /\ UNCHANGED <<account, failures, ttl, origin, held, redisUp, connected,
                   slotVars, late, steady>>

(* deactivate_me, and hard_delete_me or admin_delete_user: what they       *)
(* fetched cannot change what their commit does.  Neither touches Redis.   *)
Deactivate ==
    /\ account = "active"
    /\ account' = "inactive"
    /\ UNCHANGED <<redisVars, held, redisUp, connected, slotVars, late, steady>>

Delete ==
    /\ account # "gone"
    /\ account' = "gone"
    /\ UNCHANGED <<redisVars, held, redisUp, connected, slotVars, late, steady>>

RedisFlips ==
    /\ ~steady
    /\ redisUp' = ~redisUp
    /\ UNCHANGED <<account, redisVars, held, connected, slotVars, late, steady>>

SlotStep(s) ==
    \/ Login(s)
    \/ FetchLogin(s)
    \/ Reject(s)
    \/ RejectDeactivated(s)
    \/ Accept(s)
    \/ \E t \in Tokens : Refresh(s, t) \/ RefuseRefresh(s, t)
    \/ FetchRefresh(s)
    \/ RejectRefresh(s)
    \/ Issue(s)
    \/ IssueNone(s)
    \/ IssueRaises(s)
    \/ Respond(s)
    \/ CommitFails(s)
    \/ Abandon(s)

Next ==
    \/ \E s \in Slots : SlotStep(s)
    \/ \E t \in Tokens : Logout(t) \/ TokenExpires(t)
    \/ WindowEnds
    \/ Deactivate
    \/ Delete
    \/ RedisFlips

Spec == Init /\ [][Next]_vars

(* Redis expires the keys that carry an expiry.                            *)
FairSpec == Spec /\ WF_vars(WindowEnds)

-----------------------------------------------------------------------------
(* What keeps a session alive: a token in Redis, or a refresh that has     *)
(* taken the last one out and not yet put the next one in.                 *)
Carries(s, r) ==
    pc[s] \in {"fetching", "storing"} /\ job[s] = "refresh" /\ session[s] = r

Alive(r) ==
    \/ \E t \in live : origin[t] = r
    \/ \E s \in Slots : Carries(s, r)

(* "Each use of a refresh token issues a new one and invalidates the old   *)
(* one" (redis_client.py:19): however refreshes of one token, logouts and  *)
(* lost replies interleave, a session never branches into two.             *)
OneTokenPerSession ==
    \A r \in Tokens :
        /\ \A t, u \in live : origin[t] = r /\ origin[u] = r => t = u
        /\ \A s, o \in Slots : Carries(s, r) /\ Carries(o, r) => s = o
        /\ \A t \in live, s \in Slots : ~(origin[t] = r /\ Carries(s, r))

(* A session that has ended - logged out, refused, expired or lost - never *)
(* comes back, whichever of its old tokens is presented.                   *)
DeadStaysDead ==
    [][\A r \in Tokens : origin[r] # None /\ ~Alive(r) => ~Alive(r)']_vars

(* The damage after deactivation or deletion is bounded by the requests    *)
(* that were then under way: no slot answers with tokens twice.            *)
OneLateResponse == \A s \in Slots : late[s] <= 1

(* While Redis works, the failures counted in a window exceed the          *)
(* threshold by no more than the other attempts already past the check.    *)
BoundedOvershoot == steady => failures < Threshold + Cardinality(Slots)

(* A locked account is unlocked again without anybody's help: the counter  *)
(* never stays without its expiry (redis_client.py:170-178).               *)
LockEnds == failures >= Threshold ~> failures < Threshold
=============================================================================
