--------------------------- MODULE Authentication ---------------------------
(***************************************************************************)
(* What one account may do, from the row in the user-service's database to *)
(* the operation that a backend carries out in its name:                   *)
(*                                                                         *)
(*   login and refresh put the account's roles into a signed token         *)
(*   (app/routes/auth.py); a gateway pod checks the token                  *)
(*   (app/middleware/auth.py), passes the rate limiter, signs the identity *)
(*   once (app/routes/proxy.py) and sends it with every attempt; a backend *)
(*   checks signature and age (app/identity_signing.py) and trusts the     *)
(*   roles it is told (app/dependencies.py, app/routes/users.py).          *)
(*                                                                         *)
(* Nobody looks at the row again on the way, so authority outlives the row *)
(* it came from; and the keys are being replaced (KeyRotation).            *)
(*                                                                         *)
(* Tokens do not meet each other, so the client holds one: any of those it *)
(* was given.  All pods share one clock.                                   *)
(***************************************************************************)
EXTENDS KeyRotation

CONSTANTS Requests,     \* requests of the client that can be under way
          MaxAge,       \* IDENTITY_MAX_AGE_SECONDS, in ticks
          MaxAttempts,  \* _MAX_ATTEMPTS
          AttemptTime,  \* what httpx's timeouts are meant to allow an attempt,
                        \* with the backoff before it
          Delay         \* bound: bcrypt and the Redis calls before a token is
                        \* signed, or those between checking and signing

ASSUME AuthenticationAssumption ==
    /\ MaxAge \in Nat
    /\ MaxAttempts \in Nat \ {0}
    /\ AttemptTime \in Nat \ {0}
    /\ Delay \in Nat

(* How long after its end the account's admin role can still be exercised: *)
(* a token is good until just before it expires.                           *)
StaleBound == Delay + (JwtLife - 1) + Delay + MaxAge

VARIABLES standing,  \* the committed row: "admin", "user", or "gone" (inactive
                     \* or deleted)
          ago,       \* history: ticks since it last was "admin", saturating
          login,     \* logins under way, per signer: what they read, and when
          token,     \* the access token that the client holds
          request    \* requests, with the identity they carry

authVars == <<standing, ago, login, token, request>>
vars == <<rotationVars, authVars>>

NoLogin == [admin |-> FALSE, wait |-> 0, on |-> FALSE]
NoRequest == [at |-> "idle", get |-> FALSE, admin |-> FALSE, attempt |-> 0,
              spent |-> 0, age |-> 0, overrun |-> 0]

(* "admitted": the token was good, the rate limiter is asked; "signed": the *)
(* identity is signed, the client still sends its body; "sending": an      *)
(* attempt is under way; "left": the gateway has given up, but what it     *)
(* sent may still arrive.  "overrun" is history: the time that the body,   *)
(* and attempts beyond AttemptTime, have taken, saturating.                *)
Logins == [admin : BOOLEAN, wait : 0..Delay, on : BOOLEAN]
Tokens == [kid : Kids \cup {None}, secret : Secrets, admin : BOOLEAN,
           left : 0..JwtLife]
RequestStates ==
    [at : {"idle", "admitted", "signed", "sending", "left"}, get : BOOLEAN,
     admin : BOOLEAN, attempt : 0..MaxAttempts,
     spent : 0..Delay + AttemptTime, age : 0..MaxAge + 1,
     overrun : 0..MaxAge + 1]

TypeOK ==
    /\ RotationTypeOK
    /\ standing \in {"admin", "user", "gone"}
    /\ ago \in 0..StaleBound + 1
    /\ login \in [Signers -> Logins]
    /\ token \in Tokens
    /\ request \in [Requests -> RequestStates]

(* The rotation may find a client with a token from before kids were       *)
(* stamped.                                                                *)
Init ==
    /\ RotationInit
    /\ standing = "admin"
    /\ ago = 0
    /\ login = [s \in Signers |-> NoLogin]
    /\ token \in [kid : {None, "default"}, secret : {"old"}, admin : {TRUE},
                  left : {JwtLife}]
    /\ request = [r \in Requests |-> NoRequest]

-----------------------------------------------------------------------------
(* Mutants of the definitions below.                                       *)
MutVerifyIdentity(r) == request[r].at \in {"sending", "left"}
MutRetryOnceMore(r) == request[r].get /\ request[r].attempt <= MaxAttempts
MutIdentity(r, get) ==
    [at |-> "signed", get |-> get, admin |-> request[r].admin,
     attempt |-> 0, spent |-> 0, age |-> request[r].spent, overrun |-> 0]
MutWithoutExpiry(g, t) == SelectVerificationKey(Ring(g), t.kid) = t.secret

-----------------------------------------------------------------------------
(* select_signing_key: the current kid must be in the ring.                *)
SigningKid(s) == JwtCurrentKid(boot[s])

(* login reads the row; bcrypt and Redis follow.  (refresh reads it too,   *)
(* and signs without another await: a login that waits for nothing.)       *)
ReadUser(s) ==
    /\ ~login[s].on
    /\ standing # "gone"
    /\ login' = [login EXCEPT ![s] = [admin |-> standing = "admin",
                                      wait |-> 0, on |-> TRUE]]
    /\ UNCHANGED <<rotationVars, standing, ago, token, request>>

(* _create_access_jwt, with the roles of the row as it was read.           *)
Issue(s) ==
    /\ login[s].on
    /\ SigningKid(s) \in DOMAIN Ring(s)
    /\ token' = [kid |-> SigningKid(s), secret |-> Ring(s)[SigningKid(s)],
                 admin |-> login[s].admin, left |-> JwtLife]
    /\ login' = [login EXCEPT ![s] = NoLogin]
    /\ UNCHANGED <<rotationVars, standing, ago, request>>

(* The password is wrong, Redis fails, the response is lost.               *)
LoginEnds(s) ==
    /\ login[s].on
    /\ login' = [login EXCEPT ![s] = NoLogin]
    /\ UNCHANGED <<rotationVars, standing, ago, token, request>>

-----------------------------------------------------------------------------
(* JWTAuthMiddleware: a key for the kid, the signature, the expiry.        *)
Accepts(g, t) ==
    /\ SelectVerificationKey(Ring(g), t.kid) = t.secret
    /\ t.left > 0

Admit(g, r) ==
    /\ request[r].at = "idle"
    /\ Accepts(g, token)
    /\ request' = [request EXCEPT ![r] =
            [NoRequest EXCEPT !.at = "admitted", !.admin = token.admin]]
    /\ UNCHANGED <<rotationVars, standing, ago, login, token>>

(* The limiter lets it pass; _build_forward_headers signs the identity,    *)
(* once, before the body is read.  "get" says whether the request may be   *)
(* sent again: it is a GET, and not one for a stream.                      *)
Identity(r, get) ==
    [at |-> "signed", get |-> get, admin |-> request[r].admin,
     attempt |-> 0, spent |-> 0, age |-> 0, overrun |-> 0]

SignIdentity(r) ==
    /\ request[r].at = "admitted"
    /\ \E get \in BOOLEAN : request' = [request EXCEPT ![r] = Identity(r, get)]
    /\ UNCHANGED <<rotationVars, standing, ago, login, token>>

(* await request.body() returns, as late as the client likes, and the      *)
(* first attempt starts.                                                   *)
Send(r) ==
    /\ request[r].at = "signed"
    /\ request' = [request EXCEPT ![r].at = "sending", ![r].attempt = 1]
    /\ UNCHANGED <<rotationVars, standing, ago, login, token>>

(* A timeout, a refused connection or a retryable status: a GET is sent    *)
(* again with the headers it has.                                          *)
MayRetry(r) == request[r].get /\ request[r].attempt < MaxAttempts

Retry(r) ==
    /\ request[r].at = "sending"
    /\ MayRetry(r)
    /\ request' = [request EXCEPT ![r].attempt = @ + 1, ![r].spent = 0]
    /\ UNCHANGED <<rotationVars, standing, ago, login, token>>

(* Answered, refused, failed or cancelled, or the gateway pod dies: the    *)
(* gateway is done with it.                                                *)
GatewayEnds(r) ==
    /\ request[r].at \in {"admitted", "signed", "sending"}
    /\ request' = [request EXCEPT ![r] =
            IF @.at # "sending" THEN NoRequest
            ELSE [NoRequest EXCEPT !.at = "left", !.admin = request[r].admin,
                                   !.age = request[r].age]]
    /\ UNCHANGED <<rotationVars, standing, ago, login, token>>

(* No attempt of it is on its way any more.                                *)
Vanish(r) ==
    /\ request[r].at = "left"
    /\ request' = [request EXCEPT ![r] = NoRequest]
    /\ UNCHANGED <<rotationVars, standing, ago, login, token>>

-----------------------------------------------------------------------------
(* verify_identity, in the backend that an attempt reaches, whenever that  *)
(* is: signature and age.  Otherwise the answer is a 401.                  *)
VerifyIdentity(r) ==
    /\ request[r].at \in {"sending", "left"}
    /\ request[r].age <= MaxAge

(* RequireAdmin believes the signed roles.                                 *)
MayAdminister(r) == VerifyIdentity(r) /\ request[r].admin

(* The commit of a change to the row; admins count as such until then.     *)
Become(s) ==
    /\ standing' = s
    /\ ago' = IF s = "admin" THEN 0 ELSE ago
    /\ UNCHANGED <<rotationVars, login, token, request>>

(* admin_promote_user knows no difference between oneself and others, so a *)
(* demoted admin whose token still says so can take the role back.         *)
PromoteSelf(r) ==
    /\ MayAdminister(r)
    /\ standing = "user"
    /\ Become("admin")

(* deactivate_me, hard_delete_me.                                          *)
LeaveService(r) ==
    /\ VerifyIdentity(r)
    /\ standing # "gone"
    /\ Become("gone")

(* Another admin: admin_promote_user, admin_demote_user (never oneself),   *)
(* admin_delete_user.                                                      *)
Promote == standing = "user" /\ Become("admin")
Demote == standing = "admin" /\ Become("user")
DeleteUser == standing # "gone" /\ Become("gone")

-----------------------------------------------------------------------------
(* A pod that restarts forgets the logins it was serving.  (The requests   *)
(* of a gateway pod end by GatewayEnds.)                                   *)
RestartPod(p) ==
    /\ Restart(p)
    /\ login' = IF p \in Signers THEN [login EXCEPT ![p] = NoLogin] ELSE login
    /\ UNCHANGED <<standing, ago, token, request>>

PublishSettings == Publish /\ UNCHANGED authVars

Older(x, cap) == IF x < cap THEN x + 1 ELSE x

(* Time passes, unless somebody has used up what it may take.  The client  *)
(* that sends a body, and attempts, have no such bound: httpx's timeouts   *)
(* are those of single reads and writes, and a stream has none.            *)
InTime ==
    /\ \A s \in Signers : login[s].on => login[s].wait < Delay
    /\ \A r \in Requests : request[r].at = "admitted" => request[r].spent < Delay

TickLogin(l) == IF l.on THEN [l EXCEPT !.wait = @ + 1] ELSE l

Aged(q) == [q EXCEPT !.age = Older(@, MaxAge + 1)]
Late(q) == [q EXCEPT !.overrun = Older(@, MaxAge + 1)]

TickRequest(q) ==
    CASE q.at = "idle" -> q
      [] q.at = "admitted" -> [q EXCEPT !.spent = @ + 1]
      [] q.at = "signed" -> Late(Aged(q))
      [] q.at = "sending" /\ q.spent < AttemptTime -> [Aged(q) EXCEPT !.spent = @ + 1]
      [] q.at = "sending" /\ q.spent >= AttemptTime -> Late(Aged(q))
      [] q.at = "left" -> Aged(q)

Tick ==
    /\ InTime
    /\ RotationTick
    /\ ago' = IF standing = "admin" THEN 0 ELSE Older(ago, StaleBound + 1)
    /\ login' = [s \in Signers |-> TickLogin(login[s])]
    /\ token' = [token EXCEPT !.left = IF @ = 0 THEN 0 ELSE @ - 1]
    /\ request' = [r \in Requests |-> TickRequest(request[r])]
    /\ UNCHANGED standing

Next ==
    \/ PublishSettings
    \/ \E p \in Pods : RestartPod(p)
    \/ \E s \in Signers : ReadUser(s) \/ Issue(s) \/ LoginEnds(s)
    \/ \E r \in Requests :
        \/ \E g \in Gateways : Admit(g, r)
        \/ SignIdentity(r)
        \/ Send(r)
        \/ Retry(r)
        \/ GatewayEnds(r)
        \/ Vanish(r)
        \/ PromoteSelf(r)
        \/ LeaveService(r)
    \/ Promote
    \/ Demote
    \/ DeleteUser
    \/ Tick

Spec == Init /\ [][Next]_vars

-----------------------------------------------------------------------------
(* "No tokens broken" (jwt_keyring.py:21): whatever pods have restarted,   *)
(* in whatever order, every gateway pod accepts every token that has not   *)
(* expired, those signed a moment ago by the first new pod included.       *)
TokensSurviveRotation ==
    token.left > 0 => \A g \in Gateways : Accepts(g, token)

(* Authority that the row no longer has is exercised for a bounded time    *)
(* only ("the access JWT remains valid until its natural expiry",          *)
(* auth.py:280): the token's life, the age of an identity, and the time    *)
(* that the row or the token had been read before they were signed.        *)
StaleAuthorityIsBounded ==
    \A r \in Requests : MayAdminister(r) => ago <= StaleBound

(* The identity is signed once, before the body is read and for all        *)
(* attempts of a request (proxy.py:113-160, 271-272, 206): an attempt is   *)
(* turned away as stale only if the time its body took, what attempts took *)
(* beyond AttemptTime, and AttemptTime for each attempt use up its age.    *)
(* What came before the signature never counts.                            *)
StaleOnlyIfSlow ==
    \A r \in Requests :
        request[r].at = "sending" /\ ~VerifyIdentity(r)
            => request[r].overrun + request[r].attempt * AttemptTime > MaxAge
=============================================================================
