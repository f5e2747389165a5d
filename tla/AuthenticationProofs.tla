------------------------ MODULE AuthenticationProofs ------------------------
(***************************************************************************)
(* Proofs about Authentication, for any numbers of pods and requests, any  *)
(* lifetimes and any delays.                                               *)
(***************************************************************************)
EXTENDS Authentication, Integers, TLAPS

-----------------------------------------------------------------------------
(* Types.                                                                  *)
LEMMA BoundIsNatural == StaleBound \in Nat
  BY RotationAssumption, AuthenticationAssumption DEF StaleBound

LEMMA RingTypes ==
    ASSUME RotationTypeOK, NEW s \in Signers, SigningKid(s) \in DOMAIN Ring(s)
    PROVE  /\ SigningKid(s) \in Kids
           /\ Ring(s)[SigningKid(s)] \in Secrets
  BY DEF RotationTypeOK, SigningKid, JwtCurrentKid, Ring, ParseKeyring,
         JwtSecrets, Kids, Secrets, Pods, Days

LEMMA NoLoginType == NoLogin \in Logins
  BY AuthenticationAssumption DEF NoLogin, Logins

LEMMA NoRequestType == NoRequest \in RequestStates
  BY AuthenticationAssumption DEF NoRequest, RequestStates

LEMMA TypeInit == Init => TypeOK
<1> SUFFICES ASSUME Init
             PROVE  TypeOK
  OBVIOUS
<1>1. RotationTypeOK
  BY RotationAssumption DEF Init, RotationInit, RotationTypeOK, Days
<1>2. token \in Tokens
  <2>1. token \in [kid : {None, "default"}, secret : {"old"}, admin : {TRUE},
                   left : {JwtLife}]
    BY DEF Init
  <2>2. /\ JwtLife \in 0..JwtLife
        /\ {None, "default"} \subseteq Kids \cup {None}
        /\ {"old"} \subseteq Secrets
    BY RotationAssumption DEF Kids, Secrets
  <2>3. QED
    BY <2>1, <2>2 DEF Tokens
<1>3. QED
  BY <1>1, <1>2, BoundIsNatural, NoLoginType, NoRequestType DEF Init, TypeOK

LEMMA BecomeTypes ==
    ASSUME TypeOK, NEW x \in {"admin", "user", "gone"}, Become(x)
    PROVE  TypeOK'
  BY BoundIsNatural DEF TypeOK, Become, rotationVars, RotationTypeOK

LEMMA IdentityType ==
    ASSUME TypeOK, NEW r \in Requests, NEW get \in BOOLEAN
    PROVE  Identity(r, get) \in RequestStates
  BY AuthenticationAssumption DEF TypeOK, RequestStates, Identity

LEMMA RetryType ==
    ASSUME NEW q \in RequestStates, q.attempt < MaxAttempts
    PROVE  [q EXCEPT !.attempt = @ + 1, !.spent = 0] \in RequestStates
<1>1. /\ q.attempt + 1 \in 0..MaxAttempts
      /\ 0 \in 0..Delay + AttemptTime
  BY AuthenticationAssumption DEF RequestStates
<1>2. QED
  BY <1>1 DEF RequestStates

LEMMA SendType ==
    ASSUME NEW q \in RequestStates
    PROVE  [q EXCEPT !.at = "sending", !.attempt = 1] \in RequestStates
<1>1. 1 \in 0..MaxAttempts
  BY AuthenticationAssumption
<1>2. QED
  BY <1>1 DEF RequestStates

(* What becomes of a request while time passes.                            *)
LEMMA TickRequestEffect ==
    ASSUME NEW q \in RequestStates, q.at = "admitted" => q.spent < Delay
    PROVE  /\ TickRequest(q) \in RequestStates
           /\ TickRequest(q).at = q.at /\ TickRequest(q).admin = q.admin
           /\ TickRequest(q).attempt = q.attempt
           /\ q.at = "admitted" => TickRequest(q).spent = q.spent + 1
           /\ q.at \in {"signed", "sending", "left"} =>
                TickRequest(q).age = Older(q.age, MaxAge + 1)
           /\ q.at = "signed" =>
                /\ TickRequest(q).overrun = Older(q.overrun, MaxAge + 1)
                /\ TickRequest(q).spent = q.spent
           /\ q.at = "sending" =>
                \/ /\ q.spent < AttemptTime
                   /\ TickRequest(q).spent = q.spent + 1
                   /\ TickRequest(q).overrun = q.overrun
                \/ /\ q.spent >= AttemptTime
                   /\ TickRequest(q).spent = q.spent
                   /\ TickRequest(q).overrun = Older(q.overrun, MaxAge + 1)
<1> USE AuthenticationAssumption
<1>1. /\ q.spent \in 0..Delay + AttemptTime
      /\ q.age \in 0..MaxAge + 1 /\ q.overrun \in 0..MaxAge + 1
      /\ q.at \in {"idle", "admitted", "signed", "sending", "left"}
  BY DEF RequestStates
<1>2. /\ Older(q.age, MaxAge + 1) \in 0..MaxAge + 1
      /\ Older(q.overrun, MaxAge + 1) \in 0..MaxAge + 1
  BY <1>1 DEF Older
<1>3. CASE q.at = "idle"
  BY <1>3 DEF TickRequest
<1>4. CASE q.at = "admitted"
  <2>1. q.spent + 1 \in 0..Delay + AttemptTime
    BY <1>1, <1>4
  <2>2. TickRequest(q) = [q EXCEPT !.spent = q.spent + 1]
    BY <1>4 DEF TickRequest
  <2>3. QED
    BY <1>4, <2>1, <2>2 DEF RequestStates
<1>5. CASE q.at = "signed" \/ (q.at = "sending" /\ q.spent >= AttemptTime)
  <2>1. TickRequest(q) = [q EXCEPT !.age = Older(q.age, MaxAge + 1),
                                   !.overrun = Older(q.overrun, MaxAge + 1)]
    BY <1>1, <1>5 DEF TickRequest, Late, Aged, RequestStates
  <2>2. QED
    BY <1>2, <1>5, <2>1 DEF RequestStates
<1>6. CASE q.at = "sending" /\ q.spent < AttemptTime
  <2>1. q.spent + 1 \in 0..Delay + AttemptTime
    BY <1>1, <1>6
  <2>2. TickRequest(q) = [q EXCEPT !.age = Older(q.age, MaxAge + 1),
                                   !.spent = q.spent + 1]
    BY <1>1, <1>6 DEF TickRequest, Aged, RequestStates
  <2>3. QED
    BY <1>2, <1>6, <2>1, <2>2 DEF RequestStates
<1>7. CASE q.at = "left"
  <2>1. TickRequest(q) = [q EXCEPT !.age = Older(q.age, MaxAge + 1)]
    BY <1>7 DEF TickRequest, Aged
  <2>2. QED
    BY <1>2, <1>7, <2>1 DEF RequestStates
<1>8. QED
  BY <1>1, <1>3, <1>4, <1>5, <1>6, <1>7

LEMMA TypeStep == TypeOK /\ [Next]_vars => TypeOK'
<1> SUFFICES ASSUME TypeOK, [Next]_vars
             PROVE  TypeOK'
  OBVIOUS
<1> USE RotationAssumption, AuthenticationAssumption, BoundIsNatural
<1>1. CASE PublishSettings
  BY <1>1 DEF PublishSettings, Publish, MayPublish, authVars, TypeOK,
              RotationTypeOK, Days
<1>2. ASSUME NEW p \in Pods, RestartPod(p)
      PROVE  TypeOK'
  BY <1>2, NoLoginType DEF RestartPod, Restart, TypeOK, RotationTypeOK
<1>3. ASSUME NEW s \in Signers, ReadUser(s)
      PROVE  TypeOK'
  <2>1. [admin |-> standing = "admin", wait |-> 0, on |-> TRUE] \in Logins
    BY DEF Logins
  <2>2. QED
    BY <1>3, <2>1 DEF ReadUser, rotationVars, TypeOK, RotationTypeOK
<1>4. ASSUME NEW s \in Signers, Issue(s)
      PROVE  TypeOK'
  <2>1. /\ SigningKid(s) \in Kids
        /\ Ring(s)[SigningKid(s)] \in Secrets
    BY <1>4, RingTypes DEF Issue, TypeOK
  <2>2. login[s].admin \in BOOLEAN
    BY DEF TypeOK, Logins
  <2>3. token' \in Tokens
    BY <1>4, <2>1, <2>2 DEF Issue, Tokens
  <2>4. (login \in [Signers -> Logins])'
    BY <1>4, NoLoginType DEF Issue, TypeOK
  <2>5. QED
    BY <1>4, <2>3, <2>4 DEF Issue, rotationVars, TypeOK, RotationTypeOK
<1>5. ASSUME NEW s \in Signers, LoginEnds(s)
      PROVE  TypeOK'
  BY <1>5, NoLoginType DEF LoginEnds, rotationVars, TypeOK, RotationTypeOK
<1>6. ASSUME NEW r \in Requests, NEW g \in Gateways, Admit(g, r)
      PROVE  TypeOK'
  <2>1. [NoRequest EXCEPT !.at = "admitted", !.admin = token.admin]
          \in RequestStates
    BY NoRequestType DEF TypeOK, Tokens, RequestStates
  <2>2. QED
    BY <1>6, <2>1 DEF Admit, rotationVars, TypeOK, RotationTypeOK
<1>7. ASSUME NEW r \in Requests, SignIdentity(r)
      PROVE  TypeOK'
  BY <1>7, IdentityType DEF SignIdentity, rotationVars, TypeOK, RotationTypeOK
<1>16. ASSUME NEW r \in Requests, Send(r)
       PROVE  TypeOK'
  <2>1. [request[r] EXCEPT !.at = "sending", !.attempt = 1] \in RequestStates
    BY SendType DEF TypeOK
  <2>2. (request \in [Requests -> RequestStates])'
    BY <1>16, <2>1 DEF Send, TypeOK
  <2>3. QED
    BY <1>16, <2>2 DEF Send, rotationVars, TypeOK, RotationTypeOK
<1>8. ASSUME NEW r \in Requests, Retry(r)
      PROVE  TypeOK'
  <2>1. request[r] \in RequestStates
    BY DEF TypeOK
  <2>2. request[r].attempt < MaxAttempts
    BY <1>8 DEF Retry, MayRetry
  <2>3. [request[r] EXCEPT !.attempt = @ + 1, !.spent = 0] \in RequestStates
    BY <2>1, <2>2, RetryType
  <2>4. (request \in [Requests -> RequestStates])'
    BY <1>8, <2>3 DEF Retry, TypeOK
  <2>5. QED
    BY <1>8, <2>4 DEF Retry, rotationVars, TypeOK, RotationTypeOK
<1>9. ASSUME NEW r \in Requests, GatewayEnds(r)
      PROVE  TypeOK'
  <2>1. [NoRequest EXCEPT !.at = "left", !.admin = request[r].admin,
                          !.age = request[r].age] \in RequestStates
    BY NoRequestType DEF TypeOK, RequestStates
  <2>2. (request \in [Requests -> RequestStates])'
    BY <1>9, <2>1, NoRequestType DEF GatewayEnds, TypeOK
  <2>3. QED
    BY <1>9, <2>2 DEF GatewayEnds, rotationVars, TypeOK, RotationTypeOK
<1>10. ASSUME NEW r \in Requests, Vanish(r)
       PROVE  TypeOK'
  BY <1>10, NoRequestType DEF Vanish, rotationVars, TypeOK, RotationTypeOK
<1>11. ASSUME NEW r \in Requests, PromoteSelf(r) \/ LeaveService(r)
       PROVE  TypeOK'
  BY <1>11, BecomeTypes DEF PromoteSelf, LeaveService
<1>12. CASE Promote \/ Demote \/ DeleteUser
  BY <1>12, BecomeTypes DEF Promote, Demote, DeleteUser
<1>13. CASE Tick
  <2> USE <1>13 DEF Tick
  <2>1. RotationTypeOK'
    BY DEF TypeOK, RotationTypeOK, RotationTick, rotationVars
  <2>2. ago' \in 0..StaleBound + 1
    BY DEF TypeOK, Older
  <2>3. (login \in [Signers -> Logins])'
    BY DEF TypeOK, Logins, InTime, TickLogin
  <2>4. (token \in Tokens)'
    BY DEF TypeOK, Tokens
  <2>5. (request \in [Requests -> RequestStates])'
    <3>1. \A r \in Requests : TickRequest(request[r]) \in RequestStates
      BY TickRequestEffect DEF TypeOK, InTime
    <3>2. QED
      BY <3>1
  <2>6. standing' \in {"admin", "user", "gone"}
    BY DEF TypeOK
  <2>7. QED
    BY <2>1, <2>2, <2>3, <2>4, <2>5, <2>6 DEF TypeOK
<1>14. CASE UNCHANGED vars
  BY <1>14 DEF vars, authVars, rotationVars, TypeOK, RotationTypeOK
<1>15. QED
  BY <1>1, <1>2, <1>3, <1>4, <1>5, <1>6, <1>7, <1>8, <1>9, <1>10, <1>11,
     <1>12, <1>13, <1>14, <1>16 DEF Next

(* Every variable keeps its type, whatever pods, requests and operators do.*)
THEOREM TypeCorrect == Spec => []TypeOK
  BY TypeInit, TypeStep, PTL DEF Spec

-----------------------------------------------------------------------------
(* The rotation.  What has been published bounds what pods have read; once *)
(* no signer uses the old key, the remaining life of an old token and the  *)
(* time waited add up to one token life at most, so that the old key goes  *)
(* only when they are dead.                                                *)
RotationInv ==
    /\ \A p \in Pods : boot[p] <= day
    /\ day >= 2 => \A p \in Pods : boot[p] >= 1
    /\ waited > 0 => NewKeyOnly
    /\ day = 3 => waited = JwtLife
    /\ token.secret = "new" => token.kid = "k2" /\ day >= 2
    /\ token.secret = "old" => token.kid \in {None, "default"}
    /\ token.secret = "old" /\ NewKeyOnly => token.left + waited <= JwtLife

(* What a pod finds in its ring.                                           *)
LEMMA RingContents ==
    ASSUME RotationTypeOK, NEW p \in Pods
    PROVE  /\ "k2" \in DOMAIN Ring(p) <=> boot[p] >= 1
           /\ "default" \in DOMAIN Ring(p) <=> boot[p] < 3
           /\ boot[p] >= 1 => Ring(p)["k2"] = "new"
           /\ boot[p] < 3 => Ring(p)["default"] = "old"
           /\ None \notin DOMAIN Ring(p)
  BY RotationAssumption
     DEF RotationTypeOK, Days, Ring, ParseKeyring, JwtSecrets, Kids

LEMMA SigningKey ==
    ASSUME RotationTypeOK, NEW s \in Signers
    PROVE  IF boot[s] >= 2
           THEN SigningKid(s) = "k2" /\ Ring(s)[SigningKid(s)] = "new"
           ELSE SigningKid(s) = "default" /\ Ring(s)[SigningKid(s)] = "old"
<1>1. s \in Pods /\ boot[s] \in Days
  BY DEF Pods, RotationTypeOK
<1>2. QED
  BY <1>1, RingContents DEF SigningKid, JwtCurrentKid, Days

LEMMA RotationStart == Init => RotationInv
<1> SUFFICES ASSUME Init
             PROVE  RotationInv
  OBVIOUS
<1>1. token.kid \in {None, "default"} /\ token.secret = "old"
  BY DEF Init
<1>2. token.left = JwtLife
  BY DEF Init
<1>3. \A p \in Pods : boot[p] = 0
  BY DEF Init, RotationInit
<1>4. day = 0 /\ waited = 0
  BY DEF Init, RotationInit
<1>5. QED
  BY <1>1, <1>2, <1>3, <1>4, RotationAssumption DEF RotationInv

(* Only four steps touch what the rotation is about.                       *)
LEMMA RotationUntouched ==
    ASSUME RotationInv, UNCHANGED <<rotationVars, token>>
    PROVE  RotationInv'
  BY DEF RotationInv, rotationVars, NewKeyOnly

LEMMA RotationStep == TypeOK /\ RotationInv /\ [Next]_vars => RotationInv'
<1> SUFFICES ASSUME TypeOK, RotationInv, [Next]_vars
             PROVE  RotationInv'
  OBVIOUS
<1> USE RotationAssumption
<1>0. /\ day \in 0..3 /\ waited \in 0..JwtLife /\ boot \in [Pods -> 0..3]
      /\ token.left \in 0..JwtLife /\ Signers \subseteq Pods
  BY DEF TypeOK, RotationTypeOK, Days, Tokens, Pods
<1>1. CASE PublishSettings
  BY <1>0, <1>1 DEF PublishSettings, Publish, MayPublish, authVars,
                    RotationInv, NewKeyOnly
<1>2. ASSUME NEW p \in Pods, RestartPod(p)
      PROVE  RotationInv'
  <2> USE <1>0, <1>2 DEF RestartPod, Restart
  <2>1. \A q \in Pods : boot'[q] = IF q = p THEN day ELSE boot[q]
    OBVIOUS
  <2>2. /\ (\A q \in Pods : boot[q] <= day)'
        /\ (day >= 2 => \A q \in Pods : boot[q] >= 1)'
    BY <2>1 DEF RotationInv
  <2>3. NewKeyOnly => NewKeyOnly'
    BY <2>1 DEF NewKeyOnly, RotationInv
  <2>4. ASSUME NewKeyOnly', token.secret = "old"
        PROVE  token.left + waited <= JwtLife
    <3>1. CASE NewKeyOnly
      BY <2>4, <3>1 DEF RotationInv
    <3>2. CASE waited = 0
      BY <3>2
    <3>3. QED
      BY <3>1, <3>2 DEF RotationInv
  <2>5. QED
    BY <2>2, <2>3, <2>4 DEF RotationInv
<1>3. ASSUME NEW s \in Signers, Issue(s)
      PROVE  RotationInv'
  <2>1. /\ token'.kid = SigningKid(s)
        /\ token'.secret = Ring(s)[SigningKid(s)]
        /\ token'.left = JwtLife
        /\ UNCHANGED <<day, boot, waited>>
    BY <1>3 DEF Issue, rotationVars
  <2>2. NewKeyOnly' <=> NewKeyOnly
    BY <2>1 DEF NewKeyOnly
  <2>3. RotationTypeOK /\ boot[s] \in 0..3 /\ boot[s] <= day
    BY <1>0 DEF TypeOK, RotationInv
  <2>4. CASE boot[s] >= 2
    <3>1. token'.kid = "k2" /\ token'.secret = "new" /\ day >= 2
      BY <1>0, <2>1, <2>3, <2>4, SigningKey
    <3>2. QED
      BY <2>1, <2>2, <3>1 DEF RotationInv
  <2>5. CASE ~(boot[s] >= 2)
    <3>1. token'.kid = "default" /\ token'.secret = "old" /\ ~NewKeyOnly
      BY <2>1, <2>3, <2>5, SigningKey DEF NewKeyOnly
    <3>2. QED
      BY <2>1, <2>2, <3>1 DEF RotationInv
  <2>6. QED
    BY <2>4, <2>5
<1>4. CASE Tick
  <2>1. /\ token'.kid = token.kid
        /\ token'.secret = token.secret
        /\ token'.left = IF token.left = 0 THEN 0 ELSE token.left - 1
    BY <1>4 DEF Tick, TypeOK, Tokens
  <2>2. /\ UNCHANGED <<day, boot>>
        /\ waited' = IF NewKeyOnly /\ waited < JwtLife THEN waited + 1
                     ELSE waited
    BY <1>4 DEF Tick, RotationTick
  <2>3. NewKeyOnly' <=> NewKeyOnly
    BY <2>2 DEF NewKeyOnly
  <2>4. QED
    BY <1>0, <2>1, <2>2, <2>3 DEF RotationInv
<1>5. ASSUME NEW s \in Signers, ReadUser(s) \/ LoginEnds(s)
      PROVE  RotationInv'
  BY <1>5, RotationUntouched DEF ReadUser, LoginEnds, rotationVars
<1>6. ASSUME NEW r \in Requests,
             \/ \E g \in Gateways : Admit(g, r)
             \/ SignIdentity(r) \/ Send(r) \/ Retry(r)
             \/ GatewayEnds(r) \/ Vanish(r)
      PROVE  RotationInv'
  BY <1>6, RotationUntouched
     DEF Admit, SignIdentity, Send, Retry, GatewayEnds, Vanish, rotationVars
<1>7. CASE \/ \E r \in Requests : PromoteSelf(r) \/ LeaveService(r)
           \/ Promote \/ Demote \/ DeleteUser
  BY <1>7, RotationUntouched DEF PromoteSelf, LeaveService, Promote, Demote,
     DeleteUser, Become, rotationVars
<1>8. CASE UNCHANGED vars
  BY <1>8, RotationUntouched DEF vars, authVars, rotationVars
<1>9. QED
  BY <1>1, <1>2, <1>3, <1>4, <1>5, <1>6, <1>7, <1>8 DEF Next

LEMMA RotationSuffices == TypeOK /\ RotationInv => TokensSurviveRotation
<1> SUFFICES ASSUME TypeOK, RotationInv, token.left > 0, NEW g \in Gateways
             PROVE  Accepts(g, token)
  BY DEF TokensSurviveRotation
<1>1. /\ RotationTypeOK /\ g \in Pods /\ boot[g] \in 0..3
      /\ token.secret \in Secrets /\ token.left \in 0..JwtLife
      /\ waited \in 0..JwtLife /\ day \in 0..3 /\ boot[g] <= day
  BY DEF TypeOK, RotationTypeOK, Days, Tokens, Pods, RotationInv
<1>2. CASE token.secret = "new"
  <2>1. token.kid = "k2" /\ boot[g] >= 1
    BY <1>1, <1>2 DEF RotationInv
  <2>2. "k2" \in DOMAIN Ring(g) /\ Ring(g)["k2"] = "new"
    BY <1>1, <2>1, RingContents
  <2>3. QED
    BY <1>2, <2>1, <2>2 DEF Accepts, SelectVerificationKey
<1>3. CASE token.secret = "old"
  <2>1. boot[g] < 3
    <3>1. SUFFICES ASSUME boot[g] = 3
                   PROVE  FALSE
      BY <1>1
    <3>2. day = 3 /\ waited = JwtLife
      BY <1>1, <3>1 DEF RotationInv
    <3>3. token.left + waited <= JwtLife
      BY <1>3, <3>2, RotationAssumption DEF RotationInv
    <3>4. QED
      BY <1>1, <3>2, <3>3, RotationAssumption
  <2>2. /\ token.kid \in {None, "default"}
        /\ "default" \in DOMAIN Ring(g) /\ Ring(g)["default"] = "old"
        /\ None \notin DOMAIN Ring(g)
    BY <1>1, <1>3, <2>1, RingContents DEF RotationInv
  <2>3. QED
    BY <1>3, <2>2 DEF Accepts, SelectVerificationKey
<1>4. QED
  BY <1>1, <1>2, <1>3 DEF Secrets

(* No token breaks before it expires, whichever pods restart and whenever. *)
THEOREM RotationIsSafe == Spec => []TokensSurviveRotation
<1>1. Init => TypeOK /\ RotationInv
  BY TypeInit, RotationStart
<1>2. TypeOK /\ RotationInv /\ [Next]_vars => TypeOK' /\ RotationInv'
  BY TypeStep, RotationStep
<1>3. QED
  BY <1>1, <1>2, RotationSuffices, PTL DEF Spec

-----------------------------------------------------------------------------
(* Authority.  Whoever still says "admin" on the way from the row to the   *)
(* backend says how long ago that may have been true.                      *)
LoginStale(s) == login[s].on /\ login[s].admin => ago <= login[s].wait

TokenStale == token.admin /\ token.left > 0 => ago + token.left <= Delay + JwtLife

RequestStale(q) ==
    /\ q.at = "admitted" => q.spent <= Delay
    /\ q.at = "admitted" /\ q.admin => ago <= Delay + (JwtLife - 1) + q.spent
    /\ q.at \in {"signed", "sending", "left"} /\ q.admin /\ q.age <= MaxAge
          => ago <= Delay + (JwtLife - 1) + Delay + q.age

AuthorityInv ==
    /\ standing = "admin" => ago = 0
    /\ \A s \in Signers : LoginStale(s)
    /\ TokenStale
    /\ \A r \in Requests : RequestStale(request[r])

LEMMA AuthorityInit == Init => AuthorityInv
<1> SUFFICES ASSUME Init
             PROVE  AuthorityInv
  OBVIOUS
<1>1. ago = 0 /\ token.left = JwtLife
  BY DEF Init
<1>2. TokenStale
  BY <1>1, RotationAssumption, AuthenticationAssumption DEF TokenStale
<1>3. ASSUME NEW r \in Requests
      PROVE  RequestStale(request[r])
  BY DEF Init, NoRequest, RequestStale
<1>4. ASSUME NEW s \in Signers
      PROVE  LoginStale(s)
  BY DEF Init, NoLogin, LoginStale
<1>5. QED
  BY <1>1, <1>2, <1>3, <1>4 DEF AuthorityInv

LEMMA NobodyIdleIsStale == RequestStale(NoRequest)
  BY DEF RequestStale, NoRequest

(* A commit to the row only shortens how long ago it was admin.            *)
LEMMA BecomeStale ==
    ASSUME TypeOK, AuthorityInv, NEW x \in {"admin", "user", "gone"}, Become(x)
    PROVE  AuthorityInv'
<1> USE RotationAssumption, AuthenticationAssumption
<1>1. /\ ago \in Nat /\ ago' \in Nat /\ ago' <= ago
      /\ standing' = "admin" => ago' = 0
      /\ UNCHANGED <<login, token, request>>
  BY BoundIsNatural DEF TypeOK, Become
<1>2. ASSUME NEW s \in Signers
      PROVE  LoginStale(s)'
  BY <1>1 DEF TypeOK, Logins, AuthorityInv, LoginStale
<1>3. TokenStale'
  BY <1>1 DEF TypeOK, Tokens, AuthorityInv, TokenStale
<1>4. ASSUME NEW r \in Requests
      PROVE  RequestStale(request[r])'
  <2>1. /\ request[r].spent \in Nat /\ request[r].age \in Nat
        /\ RequestStale(request[r])
    BY DEF TypeOK, RequestStates, AuthorityInv
  <2>2. QED
    BY <1>1, <2>1 DEF RequestStale
<1>5. QED
  BY <1>1, <1>2, <1>3, <1>4 DEF AuthorityInv

(* A step of one request r leaves the rest alone.                          *)
LEMMA OneRequestStale ==
    ASSUME TypeOK, AuthorityInv, UNCHANGED <<standing, ago, login, token>>,
           NEW r \in Requests, NEW q, RequestStale(q),
           request' = [request EXCEPT ![r] = q]
    PROVE  AuthorityInv'
<1>1. ASSUME NEW x \in Requests
      PROVE  RequestStale(request[x])'
  <2>1. request'[x] = IF x = r THEN q ELSE request[x]
    BY DEF TypeOK
  <2>2. QED
    BY <2>1 DEF AuthorityInv, RequestStale
<1>2. QED
  BY <1>1 DEF AuthorityInv, LoginStale, TokenStale

LEMMA TickStale == TypeOK /\ AuthorityInv /\ Tick => AuthorityInv'
<1> SUFFICES ASSUME TypeOK, AuthorityInv, Tick
             PROVE  AuthorityInv'
  OBVIOUS
<1> USE RotationAssumption, AuthenticationAssumption
<1>1. /\ ago \in Nat /\ ago' \in Nat /\ ago' <= ago + 1
      /\ standing' = "admin" => ago' = 0
  BY BoundIsNatural DEF TypeOK, Tick, Older
<1>2. ASSUME NEW s \in Signers
      PROVE  LoginStale(s)'
  BY <1>1 DEF TypeOK, Logins, Tick, TickLogin, AuthorityInv, LoginStale
<1>3. TokenStale'
  <2>1. /\ token.left \in Nat
        /\ token'.left = IF token.left = 0 THEN 0 ELSE token.left - 1
        /\ token'.admin = token.admin
    BY DEF TypeOK, Tokens, Tick
  <2>2. QED
    BY <1>1, <2>1 DEF AuthorityInv, TokenStale
<1>4. ASSUME NEW r \in Requests
      PROVE  RequestStale(request[r])'
  <2> DEFINE q == request[r]
             n == request'[r]
  <2>1. /\ q \in RequestStates
        /\ q.at = "admitted" => q.spent < Delay
        /\ RequestStale(q)
        /\ n = TickRequest(q)
    BY DEF TypeOK, Tick, InTime, AuthorityInv
  <2> HIDE DEF q, n
  <2>2. /\ q.spent \in Nat /\ q.age \in 0..MaxAge + 1
        /\ q.at \in {"idle", "admitted", "signed", "sending", "left"}
    BY <2>1 DEF RequestStates
  <2>3. n.at = q.at /\ n.admin = q.admin
    BY <2>1, TickRequestEffect
  <2>4. q.at = "admitted" => n.spent = q.spent + 1
    BY <2>1, TickRequestEffect
  <2>5. q.at \in {"signed", "sending", "left"} =>
          n.age = IF q.age < MaxAge + 1 THEN q.age + 1 ELSE q.age
    BY <2>1, TickRequestEffect DEF Older
  <2>6. /\ n.at = "admitted" => n.spent <= Delay
        /\ n.at = "admitted" /\ n.admin
             => ago' <= Delay + (JwtLife - 1) + n.spent
        /\ n.at \in {"signed", "sending", "left"} /\ n.admin /\ n.age <= MaxAge
             => ago' <= Delay + (JwtLife - 1) + Delay + n.age
    BY <1>1, <2>1, <2>2, <2>3, <2>4, <2>5 DEF RequestStale
  <2>7. QED
    BY <2>6 DEF RequestStale, n
<1>5. QED
  BY <1>1, <1>2, <1>3, <1>4 DEF AuthorityInv

LEMMA AuthorityStep == TypeOK /\ AuthorityInv /\ [Next]_vars => AuthorityInv'
<1> SUFFICES ASSUME TypeOK, AuthorityInv, [Next]_vars
             PROVE  AuthorityInv'
  OBVIOUS
<1> USE RotationAssumption, AuthenticationAssumption
<1>1. CASE PublishSettings \/ UNCHANGED vars
  BY <1>1 DEF PublishSettings, vars, authVars, AuthorityInv, LoginStale,
              TokenStale, RequestStale
<1>2. ASSUME NEW p \in Pods, RestartPod(p)
      PROVE  AuthorityInv'
  <2>1. ASSUME NEW s \in Signers
        PROVE  login'[s] = login[s] \/ login'[s] = NoLogin
    BY <1>2 DEF RestartPod, TypeOK
  <2>2. \A s \in Signers : LoginStale(s)'
    BY <1>2, <2>1 DEF RestartPod, AuthorityInv, LoginStale, NoLogin
  <2>3. QED
    BY <1>2, <2>2 DEF RestartPod, AuthorityInv, TokenStale, RequestStale
<1>3. ASSUME NEW s \in Signers, ReadUser(s)
      PROVE  AuthorityInv'
  <2>1. /\ ago' = ago
        /\ login' = [login EXCEPT ![s] = [admin |-> standing = "admin",
                                          wait |-> 0, on |-> TRUE]]
    BY <1>3 DEF ReadUser
  <2>2. login'[s].admin = (standing = "admin") /\ login'[s].wait = 0
    BY <2>1 DEF TypeOK
  <2>3. login'[s].admin => ago = 0
    BY <2>2, Zenon DEF AuthorityInv
  <2>4. LoginStale(s)'
    BY <2>1, <2>2, <2>3, SMT DEF LoginStale
  <2>5. ASSUME NEW x \in Signers
        PROVE  LoginStale(x)'
    <3>1. x # s => login'[x] = login[x]
      BY <2>1 DEF TypeOK
    <3>2. QED
      BY <2>1, <2>4, <3>1 DEF AuthorityInv, LoginStale
  <2>6. QED
    BY <1>3, <2>5 DEF ReadUser, AuthorityInv, TokenStale, RequestStale
<1>4. ASSUME NEW s \in Signers, Issue(s)
      PROVE  AuthorityInv'
  <2>1. \A x \in Signers : LoginStale(x)'
    BY <1>4 DEF Issue, TypeOK, AuthorityInv, LoginStale, NoLogin
  <2>2. /\ login[s].on /\ login[s].wait \in 0..Delay /\ ago \in Nat
        /\ token'.admin = login[s].admin /\ token'.left = JwtLife
        /\ ago' = ago
    BY <1>4, BoundIsNatural DEF Issue, TypeOK, Logins
  <2>3. token'.admin => ago <= login[s].wait
    <3>1. token'.admin => login[s].admin
      BY <2>2, Zenon
    <3>2. QED
      BY <2>2, <3>1 DEF AuthorityInv, LoginStale
  <2>4. TokenStale'
    BY <2>2, <2>3 DEF TokenStale
  <2>5. QED
    BY <1>4, <2>1, <2>4 DEF Issue, AuthorityInv, RequestStale
<1>5. ASSUME NEW s \in Signers, LoginEnds(s)
      PROVE  AuthorityInv'
  <2>1. \A x \in Signers : LoginStale(x)'
    BY <1>5 DEF LoginEnds, TypeOK, AuthorityInv, LoginStale, NoLogin
  <2>2. QED
    BY <1>5, <2>1 DEF LoginEnds, AuthorityInv, TokenStale, RequestStale
<1>6. ASSUME NEW r \in Requests, NEW g \in Gateways, Admit(g, r)
      PROVE  AuthorityInv'
  <2> DEFINE q == [NoRequest EXCEPT !.at = "admitted", !.admin = token.admin]
  <2>1. /\ token.left > 0 /\ token.left \in Nat /\ ago \in Nat /\ TokenStale
        /\ q.at = "admitted" /\ q.admin = token.admin /\ q.spent = 0
    BY <1>6, BoundIsNatural
       DEF Admit, Accepts, NoRequest, TypeOK, Tokens, AuthorityInv
  <2>2. RequestStale(q)
    BY <2>1 DEF RequestStale, TokenStale
  <2>3. request' = [request EXCEPT ![r] = q]
    BY <1>6 DEF Admit
  <2>4. QED
    BY <1>6, <2>2, <2>3, OneRequestStale DEF Admit
<1>7. ASSUME NEW r \in Requests, SignIdentity(r)
      PROVE  AuthorityInv'
  <2>1. PICK get \in BOOLEAN :
          request' = [request EXCEPT ![r] = Identity(r, get)]
    BY <1>7 DEF SignIdentity
  <2>2. /\ request[r].at = "admitted" /\ request[r].spent \in Nat
        /\ ago \in Nat /\ RequestStale(request[r])
    BY <1>7, BoundIsNatural
       DEF SignIdentity, TypeOK, RequestStates, AuthorityInv
  <2>3. RequestStale(Identity(r, get))
    BY <2>2 DEF RequestStale, Identity
  <2>4. QED
    BY <1>7, <2>1, <2>3, OneRequestStale DEF SignIdentity
<1>14. ASSUME NEW r \in Requests, Send(r)
       PROVE  AuthorityInv'
  <2> DEFINE q == [request[r] EXCEPT !.at = "sending", !.attempt = 1]
  <2>1. /\ request[r] \in RequestStates /\ RequestStale(request[r])
        /\ request[r].at = "signed"
    BY <1>14 DEF Send, TypeOK, AuthorityInv
  <2>2. q.at = "sending" /\ q.admin = request[r].admin /\ q.age = request[r].age
    BY <2>1 DEF RequestStates
  <2>3. RequestStale(q)
    BY <2>1, <2>2 DEF RequestStale
  <2>4. request' = [request EXCEPT ![r] = q]
    BY <1>14 DEF Send
  <2>5. QED
    BY <1>14, <2>3, <2>4, OneRequestStale DEF Send
<1>8. ASSUME NEW r \in Requests, Retry(r)
      PROVE  AuthorityInv'
  <2> DEFINE q == [request[r] EXCEPT !.attempt = @ + 1, !.spent = 0]
  <2>1. /\ request[r] \in RequestStates /\ RequestStale(request[r])
        /\ request[r].at = "sending"
    BY <1>8 DEF Retry, TypeOK, AuthorityInv
  <2>2. q.at = "sending" /\ q.admin = request[r].admin /\ q.age = request[r].age
    BY <2>1 DEF RequestStates
  <2>3. RequestStale(q)
    BY <2>1, <2>2 DEF RequestStale
  <2>4. request' = [request EXCEPT ![r] = q]
    BY <1>8 DEF Retry
  <2>5. QED
    BY <1>8, <2>3, <2>4, OneRequestStale DEF Retry
<1>9. ASSUME NEW r \in Requests, GatewayEnds(r)
      PROVE  AuthorityInv'
  <2> DEFINE q == [NoRequest EXCEPT !.at = "left", !.admin = request[r].admin,
                                    !.age = request[r].age]
  <2>1. RequestStale(request[r])
    BY DEF AuthorityInv
  <2>2. CASE request[r].at \in {"admitted", "signed"}
    BY <1>9, <2>2, NobodyIdleIsStale, OneRequestStale DEF GatewayEnds
  <2>3. CASE request[r].at = "sending"
    <3>1. RequestStale(q)
      BY <2>1, <2>3 DEF RequestStale, NoRequest
    <3>2. request' = [request EXCEPT ![r] = q]
      BY <1>9, <2>3 DEF GatewayEnds
    <3>3. QED
      BY <1>9, <3>1, <3>2, OneRequestStale DEF GatewayEnds
  <2>4. QED
    BY <1>9, <2>2, <2>3 DEF GatewayEnds
<1>10. ASSUME NEW r \in Requests, Vanish(r)
       PROVE  AuthorityInv'
  BY <1>10, NobodyIdleIsStale, OneRequestStale DEF Vanish
<1>11. CASE \/ \E r \in Requests : PromoteSelf(r) \/ LeaveService(r)
            \/ Promote \/ Demote \/ DeleteUser
  BY <1>11, BecomeStale
     DEF PromoteSelf, LeaveService, Promote, Demote, DeleteUser
<1>12. CASE Tick
  BY <1>12, TickStale
<1>13. QED
  BY <1>1, <1>2, <1>3, <1>4, <1>5, <1>6, <1>7, <1>8, <1>9, <1>10, <1>11,
     <1>12, <1>14 DEF Next

LEMMA AuthoritySuffices == TypeOK /\ AuthorityInv => StaleAuthorityIsBounded
<1> SUFFICES ASSUME TypeOK, AuthorityInv, NEW r \in Requests, MayAdminister(r)
             PROVE  ago <= StaleBound
  BY DEF StaleAuthorityIsBounded
<1>1. /\ ago \in Nat /\ request[r].age \in Nat /\ RequestStale(request[r])
  BY BoundIsNatural DEF TypeOK, RequestStates, AuthorityInv
<1>2. QED
  BY <1>1, RotationAssumption, AuthenticationAssumption
     DEF MayAdminister, VerifyIdentity, RequestStale, StaleBound

(* Nobody exercises a role later than StaleBound after losing it.          *)
THEOREM AuthorityEnds == Spec => []StaleAuthorityIsBounded
<1>1. Init => TypeOK /\ AuthorityInv
  BY TypeInit, AuthorityInit
<1>2. TypeOK /\ AuthorityInv /\ [Next]_vars => TypeOK' /\ AuthorityInv'
  BY TypeStep, AuthorityStep
<1>3. QED
  BY <1>1, <1>2, AuthoritySuffices, PTL DEF Spec

-----------------------------------------------------------------------------
(* The age of an identity is the time that the body and its attempts have  *)
(* taken.                                                                  *)
RequestAge(q) ==
    /\ q.at = "signed" => q.spent = 0 /\ q.age <= q.overrun
    /\ q.at = "sending" =>
        /\ q.attempt >= 1
        /\ q.spent <= AttemptTime
        /\ q.age <= q.overrun + (q.attempt - 1) * AttemptTime + q.spent

AgeInv == \A r \in Requests : RequestAge(request[r])

(* In an attempt: the time that the attempts before it were allowed.       *)
LEMMA Products ==
    ASSUME NEW n \in Nat, n >= 1
    PROVE  /\ (n - 1) * AttemptTime \in Nat
           /\ (n - 1) * AttemptTime + AttemptTime = n * AttemptTime
           /\ n * AttemptTime \in Nat
<1> USE AuthenticationAssumption
<1>1. PICK m \in Nat : n = m + 1
  <2>1. n - 1 \in Nat /\ n = (n - 1) + 1
    OBVIOUS
  <2>2. QED
    BY <2>1
<1>2. m * AttemptTime \in Nat
  OBVIOUS
<1>3. (m + 1) * AttemptTime = m * AttemptTime + AttemptTime
  OBVIOUS
<1>4. n - 1 = m
  BY <1>1
<1>5. QED
  BY <1>1, <1>2, <1>3, <1>4

LEMMA TickAge ==
    ASSUME NEW q \in RequestStates, RequestAge(q),
           q.at = "admitted" => q.spent < Delay
    PROVE  RequestAge(TickRequest(q))
<1> USE AuthenticationAssumption
<1> DEFINE n == TickRequest(q)
<1>1. /\ q.attempt \in Nat /\ q.spent \in Nat
      /\ q.age \in 0..MaxAge + 1 /\ q.overrun \in 0..MaxAge + 1
  BY DEF RequestStates
<1>2. n.at = q.at /\ n.attempt = q.attempt
  BY TickRequestEffect
<1>3. CASE q.at = "signed"
  <2>1. /\ n.spent = q.spent /\ n.age = Older(q.age, MaxAge + 1)
        /\ n.overrun = Older(q.overrun, MaxAge + 1)
    BY <1>3, TickRequestEffect
  <2>2. n.age <= n.overrun
    BY <1>1, <1>3, <2>1 DEF RequestAge, Older
  <2>3. QED
    BY <1>2, <1>3, <2>1, <2>2 DEF RequestAge
<1>4. CASE q.at = "sending"
  <2> DEFINE before == (q.attempt - 1) * AttemptTime
  <2>1. before \in Nat
    BY <1>1, <1>4, Products DEF RequestAge
  <2>2. q.spent <= AttemptTime /\ q.age <= q.overrun + before + q.spent
    BY <1>4 DEF RequestAge
  <2>3. n.age = Older(q.age, MaxAge + 1)
    BY <1>4, TickRequestEffect
  <2>4. \/ /\ q.spent < AttemptTime
           /\ n.spent = q.spent + 1 /\ n.overrun = q.overrun
        \/ /\ q.spent >= AttemptTime
           /\ n.spent = q.spent /\ n.overrun = Older(q.overrun, MaxAge + 1)
    BY <1>4, TickRequestEffect
  <2> HIDE DEF before, n
  <2>5. n.spent <= AttemptTime /\ n.age <= n.overrun + before + n.spent
    BY <1>1, <2>1, <2>2, <2>3, <2>4 DEF Older
  <2>6. QED
    BY <1>2, <1>4, <2>5 DEF RequestAge, before, n
<1>5. CASE q.at \notin {"signed", "sending"}
  BY <1>2, <1>5 DEF RequestAge
<1>6. QED
  BY <1>3, <1>4, <1>5

LEMMA AgeStep == TypeOK /\ AgeInv /\ [Next]_vars => AgeInv'
<1> SUFFICES ASSUME TypeOK, AgeInv, [Next]_vars, NEW r \in Requests
             PROVE  RequestAge(request'[r])
  BY DEF AgeInv, RequestAge
<1> USE AuthenticationAssumption
<1> DEFINE q == request[r]
<1>1. RequestAge(q) /\ q \in RequestStates
  BY DEF TypeOK, AgeInv
<1>2. /\ q.attempt \in Nat /\ q.spent \in Nat
      /\ q.age \in Nat /\ q.overrun \in Nat
  BY <1>1 DEF RequestStates
<1>4. CASE request'[r] = request[r]
  BY <1>1, <1>4
<1>5. CASE request'[r].at \notin {"signed", "sending"}
  BY <1>5 DEF RequestAge
<1>6. CASE SignIdentity(r)
  BY <1>6 DEF SignIdentity, Identity, RequestAge, TypeOK
<1>7. CASE Send(r)
  <2>1. /\ q.at = "signed"
        /\ request'[r] = [q EXCEPT !.at = "sending", !.attempt = 1]
    BY <1>7 DEF Send, TypeOK
  <2>2. /\ request'[r].at = "sending" /\ request'[r].attempt = 1
        /\ request'[r].spent = q.spent /\ request'[r].age = q.age
        /\ request'[r].overrun = q.overrun
    BY <1>1, <2>1 DEF RequestStates
  <2>3. q.spent = 0 /\ q.age <= q.overrun
    BY <1>1, <2>1 DEF RequestAge
  <2>4. q.age <= q.overrun + (1 - 1) * AttemptTime + 0
    BY <1>2, <2>3
  <2>5. QED
    BY <2>2, <2>3, <2>4 DEF RequestAge
<1>8. CASE Retry(r)
  <2>1. /\ q.at = "sending"
        /\ request'[r] = [q EXCEPT !.attempt = @ + 1, !.spent = 0]
    BY <1>8 DEF Retry, TypeOK
  <2>2. /\ request'[r].at = "sending" /\ request'[r].attempt = q.attempt + 1
        /\ request'[r].spent = 0 /\ request'[r].age = q.age
        /\ request'[r].overrun = q.overrun
    BY <1>1, <2>1 DEF RequestStates
  <2>3. /\ q.attempt >= 1 /\ q.spent <= AttemptTime
        /\ q.age <= q.overrun + (q.attempt - 1) * AttemptTime + q.spent
    BY <1>1, <2>1 DEF RequestAge
  <2>4. /\ (q.attempt - 1) * AttemptTime \in Nat
        /\ (q.attempt - 1) * AttemptTime + AttemptTime = q.attempt * AttemptTime
    BY <1>2, <2>3, Products
  <2>5. q.age <= q.overrun + q.attempt * AttemptTime
    BY <1>2, <2>3, <2>4
  <2>6. (q.attempt + 1) - 1 = q.attempt /\ q.attempt + 1 >= 1
    BY <1>2
  <2>7. QED
    BY <1>2, <2>2, <2>5, <2>6 DEF RequestAge
<1>9. CASE Tick
  <2>1. request'[r] = TickRequest(q) /\ (q.at = "admitted" => q.spent < Delay)
    BY <1>9 DEF Tick, InTime
  <2>2. QED
    BY <1>1, <2>1, TickAge
<1>10. \/ request'[r] = request[r] \/ request'[r].at \notin {"signed", "sending"}
       \/ SignIdentity(r) \/ Send(r) \/ Retry(r) \/ Tick
  <2>1. ASSUME NEW x \in Requests, SignIdentity(x) \/ Send(x) \/ Retry(x)
        PROVE  x = r \/ request'[r] = request[r]
    BY <2>1 DEF SignIdentity, Send, Retry, TypeOK
  <2>2. ASSUME NEW x \in Requests,
               \/ \E g \in Gateways : Admit(g, x)
               \/ GatewayEnds(x) \/ Vanish(x)
        PROVE  \/ request'[r] = request[r]
               \/ request'[r].at \notin {"signed", "sending"}
    <3>1. PICK n : /\ n.at \notin {"signed", "sending"}
                   /\ request' = [request EXCEPT ![x] = n]
      <4>1. CASE \E g \in Gateways : Admit(g, x)
        BY <4>1 DEF Admit, NoRequest
      <4>2. CASE GatewayEnds(x)
        <5> DEFINE n == IF request[x].at # "sending" THEN NoRequest
                        ELSE [NoRequest EXCEPT !.at = "left",
                                               !.admin = request[x].admin,
                                               !.age = request[x].age]
        <5>1. n.at \notin {"signed", "sending"}
          BY DEF NoRequest
        <5>2. request' = [request EXCEPT ![x] = n]
          BY <4>2 DEF GatewayEnds
        <5>3. QED
          BY <5>1, <5>2
      <4>3. CASE Vanish(x)
        BY <4>3 DEF Vanish, NoRequest
      <4>4. QED
        BY <2>2, <4>1, <4>2, <4>3
    <3>2. QED
      BY <3>1 DEF TypeOK
  <2>3. CASE \/ PublishSettings \/ UNCHANGED vars
             \/ \E p \in Pods : RestartPod(p)
             \/ \E s \in Signers : ReadUser(s) \/ Issue(s) \/ LoginEnds(s)
             \/ \E x \in Requests : PromoteSelf(x) \/ LeaveService(x)
             \/ Promote \/ Demote \/ DeleteUser
    BY <2>3 DEF PublishSettings, vars, authVars, RestartPod, ReadUser, Issue,
       LoginEnds, PromoteSelf, LeaveService, Promote, Demote, DeleteUser, Become
  <2>4. QED
    BY <2>1, <2>2, <2>3 DEF Next
<1>11. QED
  BY <1>4, <1>5, <1>6, <1>7, <1>8, <1>9, <1>10

LEMMA AgeSuffices == TypeOK /\ AgeInv => StaleOnlyIfSlow
<1> SUFFICES ASSUME TypeOK, AgeInv, NEW r \in Requests,
                    request[r].at = "sending", ~VerifyIdentity(r)
             PROVE  request[r].overrun + request[r].attempt * AttemptTime > MaxAge
  BY DEF StaleOnlyIfSlow
<1> DEFINE q == request[r]
<1> USE AuthenticationAssumption
<1>1. /\ RequestAge(q) /\ q.at = "sending" /\ q.age > MaxAge
      /\ q.attempt \in Nat /\ q.spent \in Nat /\ q.age \in Nat /\ q.overrun \in Nat
  BY DEF TypeOK, RequestStates, AgeInv, VerifyIdentity
<1> HIDE DEF q
<1>2. /\ q.attempt >= 1 /\ q.spent <= AttemptTime
      /\ q.age <= q.overrun + (q.attempt - 1) * AttemptTime + q.spent
  BY <1>1 DEF RequestAge
<1>3. /\ (q.attempt - 1) * AttemptTime \in Nat
      /\ (q.attempt - 1) * AttemptTime + AttemptTime = q.attempt * AttemptTime
  BY <1>1, <1>2, Products
<1>4. q.overrun + q.attempt * AttemptTime > MaxAge
  BY <1>1, <1>2, <1>3
<1>5. QED
  BY <1>4 DEF q

(* An attempt turned away as stale has had a body or attempts that took    *)
(* longer than they should, or its attempts have used up the age.          *)
THEOREM StaleOnlyIfSlowOrRetried == Spec => []StaleOnlyIfSlow
<1>1. Init => TypeOK /\ AgeInv
  <2>1. RequestAge(NoRequest)
    BY DEF RequestAge, NoRequest
  <2>2. QED
    BY <2>1, TypeInit DEF Init, AgeInv
<1>2. TypeOK /\ AgeInv /\ [Next]_vars => TypeOK' /\ AgeInv'
  BY TypeStep, AgeStep
<1>3. QED
  BY <1>1, <1>2, AgeSuffices, PTL DEF Spec
=============================================================================
