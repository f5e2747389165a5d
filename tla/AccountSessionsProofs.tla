------------------------ MODULE AccountSessionsProofs ------------------------
(***************************************************************************)
(* Proofs about AccountSessions for any number of requests and tokens, any *)
(* lockout threshold, and a Redis that fails or not.                       *)
(***************************************************************************)
EXTENDS AccountSessions, FiniteSetTheorems, TLAPS

(* A refresh under way carries a session that was once begun; a login      *)
(* carries none; the session of a drawn token has a drawn first token.     *)
JobsCarry ==
    \A s \in Slots :
        /\ pc[s] \in {"idle", "verifying"} => job[s] = "login"
        /\ job[s] = "login" => session[s] = None
        /\ job[s] = "refresh" /\ pc[s] # "idle"
             => session[s] \in Tokens /\ origin[session[s]] # None

OriginsDrawn ==
    /\ \A t \in Tokens : origin[t] # None => origin[origin[t]] # None
    /\ \A t \in live : origin[t] # None

TokenInv == TypeOK /\ JobsCarry /\ OriginsDrawn /\ OneTokenPerSession

LEMMA TokenInit == Init => TokenInv
<1> SUFFICES ASSUME Init PROVE TokenInv
  OBVIOUS
<1>1. TypeOK
  <2>1. 0 \in 0..CountCap
    BY SessionAssumption
  <2>2. ttl \in BOOLEAN /\ redisUp \in BOOLEAN /\ connected \in BOOLEAN
    BY Zenon DEF Init
  <2>3. QED
    BY <2>1, <2>2 DEF Init, TypeOK
<1>2. JobsCarry /\ OriginsDrawn /\ OneTokenPerSession
  BY DEF Init, JobsCarry, OriginsDrawn, OneTokenPerSession, Carries
<1>3. QED
  BY <1>1, <1>2 DEF TokenInv

(* Steps that draw no token, put none back and start no refresh.           *)
LEMMA QuietSteps ==
    ASSUME TokenInv, TypeOK', JobsCarry',
           live' \subseteq live, UNCHANGED origin,
           \A s \in Slots, r \in Tokens : Carries(s, r)' => Carries(s, r)
    PROVE  TokenInv'
  BY DEF TokenInv, TypeOK, OriginsDrawn, OneTokenPerSession

LEMMA CounterTypes ==
    ASSUME failures \in 0..CountCap, ttl \in BOOLEAN,
           \/ RecordLoginFailure
           \/ ResetLoginFailures
           \/ UNCHANGED <<failures, ttl>>
    PROVE  failures' \in 0..CountCap /\ ttl' \in BOOLEAN
<1>1. failures' \in 0..CountCap
  BY SessionAssumption DEF RecordLoginFailure, ResetLoginFailures
<1>2. ttl' \in BOOLEAN
  BY Zenon DEF RecordLoginFailure, ResetLoginFailures
<1>3. QED
  BY <1>1, <1>2

LEMMA ConnectionType == UseRedis => connected' \in BOOLEAN
  BY Zenon DEF UseRedis

LEMMA TypeStep == ASSUME TypeOK, [Next]_vars PROVE TypeOK'
<1> USE SessionAssumption DEF TypeOK, redisVars, slotVars
<1>1. ASSUME NEW s \in Slots, SlotStep(s) PROVE TypeOK'
  <2>1. CASE Login(s)
    BY <2>1, ConnectionType DEF Login, IsLocked
  <2>2. CASE FetchLogin(s)
    BY <2>2 DEF FetchLogin
  <2>3. CASE Reject(s)
    <3>1. connected' \in BOOLEAN
      BY <2>3, ConnectionType DEF Reject
    <3>2. failures' \in 0..CountCap /\ ttl' \in BOOLEAN
      BY <2>3, CounterTypes DEF Reject
    <3>3. QED
      BY <2>3, <3>1, <3>2 DEF Reject, Finish
  <2>4. CASE RejectDeactivated(s)
    BY <2>4 DEF RejectDeactivated, Finish
  <2>5. CASE Accept(s)
    <3>1. connected' \in BOOLEAN
      BY <2>5, ConnectionType DEF Accept
    <3>2. failures' \in 0..CountCap /\ ttl' \in BOOLEAN
      BY <2>5, CounterTypes DEF Accept
    <3>3. QED
      BY <2>5, <3>1, <3>2 DEF Accept
  <2>6. ASSUME NEW t \in Tokens, Refresh(s, t) PROVE TypeOK'
    BY <2>6, ConnectionType DEF Refresh, Without
  <2>7. ASSUME NEW t \in Tokens, RefuseRefresh(s, t) PROVE TypeOK'
    BY <2>7, ConnectionType DEF RefuseRefresh
  <2>8. CASE FetchRefresh(s)
    BY <2>8 DEF FetchRefresh
  <2>9. CASE RejectRefresh(s)
    BY <2>9 DEF RejectRefresh, Finish
  <2>10. CASE Issue(s)
    BY <2>10, ConnectionType DEF Issue
  <2>11. CASE IssueNone(s)
    BY <2>11 DEF IssueNone
  <2>12. CASE IssueRaises(s)
    BY <2>12 DEF IssueRaises, Finish
  <2>13. CASE Respond(s)
    BY <2>13 DEF Respond, Finish
  <2>14. CASE CommitFails(s)
    BY <2>14 DEF CommitFails, Finish
  <2>15. CASE Abandon(s)
    BY <2>15 DEF Abandon, Finish
  <2>16. QED
    BY <1>1, <2>1, <2>2, <2>3, <2>4, <2>5, <2>6, <2>7, <2>8, <2>9, <2>10,
       <2>11, <2>12, <2>13, <2>14, <2>15 DEF SlotStep
<1>2. ASSUME NEW t \in Tokens, Logout(t) \/ TokenExpires(t) PROVE TypeOK'
  BY <1>2, ConnectionType DEF Logout, TokenExpires, Without
<1>3. CASE WindowEnds
  <2>1. ttl' \in BOOLEAN
    BY <1>3, Zenon DEF WindowEnds
  <2>2. QED
    BY <1>3, <2>1 DEF WindowEnds
<1>4. CASE Deactivate \/ Delete \/ RedisFlips
  BY <1>4 DEF Deactivate, Delete, RedisFlips
<1>5. CASE UNCHANGED vars
  BY <1>5 DEF vars
<1>6. QED
  BY <1>1, <1>2, <1>3, <1>4, <1>5 DEF Next

(* The requests that end, and those that go on without tokens.             *)
LEMMA QuietSlots ==
    ASSUME TokenInv, TypeOK', live' \subseteq live, UNCHANGED origin,
           NEW s \in Slots,
           \/ Finish(s)
           \/ /\ UNCHANGED <<job, session>>
              /\ \E at \in {"fetching", "verifying", "storing", "responding"} :
                    pc' = [pc EXCEPT ![s] = at]
              /\ job[s] = "refresh" =>
                    /\ pc[s] # "idle" /\ pc'[s] \in {"storing", "responding"}
                    /\ pc[s] = "fetching" \/ pc'[s] = "responding"
           \/ UNCHANGED <<pc, job, session>>
    PROVE  TokenInv'
<1> USE DEF TokenInv, TypeOK
<1>1. JobsCarry'
  BY DEF JobsCarry, Finish
<1>2. \A o \in Slots, r \in Tokens : Carries(o, r)' => Carries(o, r)
  BY DEF Carries, Finish
<1>3. QED
  BY <1>1, <1>2, QuietSteps

LEMMA RefreshStep ==
    ASSUME TokenInv, TypeOK', NEW s \in Slots, NEW t \in Tokens, Refresh(s, t)
    PROVE  TokenInv'
<1> USE DEF TokenInv, TypeOK
<1> DEFINE r == origin[t]
<1>1. /\ live' = live \ {t}
      /\ UNCHANGED origin
      /\ pc' = [pc EXCEPT ![s] = "fetching"]
      /\ job' = [job EXCEPT ![s] = "refresh"]
      /\ session' = [session EXCEPT ![s] = r]
      /\ t \in live /\ pc[s] = "idle"
  BY DEF Refresh, Without
<1>2. r \in Tokens /\ origin[r] # None
  BY <1>1 DEF OriginsDrawn
<1>3. JobsCarry'
  BY <1>1, <1>2 DEF JobsCarry
<1>4. OriginsDrawn'
  BY <1>1 DEF OriginsDrawn
<1>5. ASSUME NEW o \in Slots, NEW q \in Tokens
      PROVE  Carries(o, q)' <=> Carries(o, q) \/ (o = s /\ q = r)
  BY <1>1 DEF Carries
<1>6. \A o \in Slots : ~Carries(o, r)
  BY <1>1, <1>2 DEF OneTokenPerSession
<1>7. OneTokenPerSession'
  BY <1>1, <1>2, <1>5, <1>6 DEF OneTokenPerSession
<1>8. QED
  BY <1>3, <1>4, <1>7

LEMMA IssueStep ==
    ASSUME TokenInv, TypeOK', NEW s \in Slots, Issue(s)
    PROVE  TokenInv'
<1> USE SessionAssumption DEF TokenInv, TypeOK
<1>0. None \notin Tokens /\ \A u \in Tokens : u >= u
  BY DEF Tokens
<1>1. PICK t \in Tokens :
        /\ \A u \in Tokens : origin[u] = None <=> u >= t
        /\ origin' = [origin EXCEPT ![t] = IF session[s] = None
                                           THEN t ELSE session[s]]
        /\ live' = live \cup {t}
  BY DEF Issue
<1>2. /\ pc[s] = "storing"
      /\ pc' = [pc EXCEPT ![s] = "responding"]
      /\ UNCHANGED <<job, session>>
  BY DEF Issue
<1>3. PICK r \in Tokens : r = IF session[s] = None THEN t ELSE session[s]
  OBVIOUS
<1>4. /\ origin[t] = None
      /\ origin'[t] = r
      /\ \A u \in Tokens \ {t} : origin'[u] = origin[u]
  BY <1>0, <1>1, <1>3
<1>5. JobsCarry'
  BY <1>0, <1>1, <1>2, <1>4 DEF JobsCarry
<1>6. /\ origin'[r] # None
      /\ session[s] # None => origin[r] # None /\ r # t
  BY <1>0, <1>2, <1>3, <1>4 DEF JobsCarry
<1>7. OriginsDrawn'
  <2>1. ASSUME NEW u \in Tokens, origin'[u] # None
        PROVE  origin'[origin'[u]] # None
    <3>1. CASE u = t
      BY <1>4, <1>6, <3>1
    <3>2. CASE u # t
      BY <1>0, <1>4, <1>6, <2>1, <3>2 DEF OriginsDrawn
    <3>3. QED
      BY <3>1, <3>2
  <2>2. ASSUME NEW u \in live' PROVE origin'[u] # None
    BY <1>0, <1>1, <1>4, <2>2 DEF OriginsDrawn
  <2>3. QED
    BY <2>1, <2>2 DEF OriginsDrawn
<1>8. ASSUME NEW o \in Slots, NEW q \in Tokens, Carries(o, q)'
      PROVE  Carries(o, q) /\ o # s /\ q # t
  BY <1>0, <1>2, <1>4, <1>8 DEF Carries, JobsCarry
<1>9. \A u \in live : u # t /\ origin[u] # r
  <2>1. CASE session[s] = None
    BY <1>3, <1>4, <2>1 DEF OriginsDrawn
  <2>2. CASE session[s] # None
    <3>1. Carries(s, r)
      BY <1>2, <1>3, <2>2 DEF Carries, JobsCarry
    <3>2. QED
      BY <1>4, <3>1 DEF OneTokenPerSession, OriginsDrawn
  <2>3. QED
    BY <2>1, <2>2
<1>10. \A o \in Slots : ~Carries(o, r)'
  <2> SUFFICES ASSUME NEW o \in Slots, Carries(o, r)' PROVE FALSE
    OBVIOUS
  <2>1. Carries(o, r) /\ o # s /\ r # t
    BY <1>8
  <2>2. Carries(s, r)
    BY <1>2, <1>3, <2>1 DEF Carries, JobsCarry
  <2>3. QED
    BY <2>1, <2>2 DEF OneTokenPerSession
<1>11. OneTokenPerSession'
  <2> SUFFICES ASSUME NEW q \in Tokens
               PROVE  /\ \A x, y \in live' : origin'[x] = q /\ origin'[y] = q => x = y
                      /\ \A x, y \in Slots : Carries(x, q)' /\ Carries(y, q)' => x = y
                      /\ \A x \in live', y \in Slots :
                            ~(origin'[x] = q /\ Carries(y, q)')
    BY DEF OneTokenPerSession
  <2>1. CASE q = r
    BY <1>1, <1>4, <1>9, <1>10, <2>1
  <2>2. CASE q # r
    BY <1>1, <1>4, <1>8, <2>2 DEF OneTokenPerSession
  <2>3. QED
    BY <2>1, <2>2
<1>12. QED
  BY <1>5, <1>7, <1>11

LEMMA TokenStep == ASSUME TokenInv, [Next]_vars PROVE TokenInv'
<1> USE SessionAssumption DEF redisVars, slotVars
<1>0. TypeOK /\ TypeOK' /\ JobsCarry /\ OriginsDrawn /\ OneTokenPerSession
  BY TypeStep DEF TokenInv
<1>1. ASSUME NEW s \in Slots, SlotStep(s) PROVE TokenInv'
  <2>1. CASE Login(s)
    <3>1. job[s] = "login"
      BY <1>0, <2>1 DEF Login, JobsCarry
    <3>2. QED
      BY <1>0, <2>1, <3>1, QuietSlots DEF Login
  <2>2. CASE FetchLogin(s)
    BY <1>0, <2>2, QuietSlots DEF FetchLogin
  <2>3. CASE Reject(s)
    BY <1>0, <2>3, QuietSlots DEF Reject
  <2>4. CASE RejectDeactivated(s)
    BY <1>0, <2>4, QuietSlots DEF RejectDeactivated
  <2>5. CASE Accept(s)
    <3>1. job[s] = "login"
      BY <1>0, <2>5 DEF Accept, JobsCarry
    <3>2. QED
      BY <1>0, <2>5, <3>1, QuietSlots DEF Accept
  <2>6. ASSUME NEW t \in Tokens, Refresh(s, t) PROVE TokenInv'
    BY <1>0, <2>6, RefreshStep
  <2>7. ASSUME NEW t \in Tokens, RefuseRefresh(s, t) PROVE TokenInv'
    BY <1>0, <2>7, QuietSlots DEF RefuseRefresh
  <2>8. CASE FetchRefresh(s)
    BY <1>0, <2>8, QuietSlots DEF FetchRefresh, TypeOK
  <2>9. CASE RejectRefresh(s)
    BY <1>0, <2>9, QuietSlots DEF RejectRefresh
  <2>10. CASE Issue(s)
    BY <1>0, <2>10, IssueStep
  <2>11. CASE IssueNone(s)
    BY <1>0, <2>11, QuietSlots DEF IssueNone, TypeOK
  <2>12. CASE IssueRaises(s)
    BY <1>0, <2>12, QuietSlots DEF IssueRaises
  <2>13. CASE Respond(s)
    BY <1>0, <2>13, QuietSlots DEF Respond
  <2>14. CASE CommitFails(s)
    BY <1>0, <2>14, QuietSlots DEF CommitFails
  <2>15. CASE Abandon(s)
    BY <1>0, <2>15, QuietSlots DEF Abandon
  <2>16. QED
    BY <1>1, <2>1, <2>2, <2>3, <2>4, <2>5, <2>6, <2>7, <2>8, <2>9, <2>10,
       <2>11, <2>12, <2>13, <2>14, <2>15 DEF SlotStep
<1>2. CASE \/ \E t \in Tokens : Logout(t) \/ TokenExpires(t)
           \/ WindowEnds \/ Deactivate \/ Delete \/ RedisFlips
           \/ UNCHANGED vars
  <2>1. live' \subseteq live /\ UNCHANGED <<origin, pc, job, session>>
    BY <1>2 DEF Logout, TokenExpires, Without, WindowEnds, Deactivate, Delete,
                RedisFlips, vars
  <2>2. JobsCarry' /\ \A s \in Slots, r \in Tokens : Carries(s, r)' => Carries(s, r)
    BY <1>0, <2>1 DEF JobsCarry, Carries
  <2>3. QED
    BY <1>0, <2>1, <2>2, QuietSteps
<1>3. QED
  BY <1>1, <1>2 DEF Next

LEMMA TokenInvariance == Spec => []TokenInv
  BY TokenInit, TokenStep, PTL DEF Spec

(* Every variable of the account, Redis and the requests keeps its type.   *)
THEOREM TypeCorrect == Spec => []TypeOK
  BY TokenInvariance, PTL DEF TokenInv

(* A session never has two tokens, nor a token and a refresh under way.    *)
THEOREM SessionsNeverBranch == Spec => []OneTokenPerSession
  BY TokenInvariance, PTL DEF TokenInv

-----------------------------------------------------------------------------
(* A step that makes a begun session alive would have to issue a token for *)
(* it, and only a refresh that carries it does.                            *)
LEMMA NoResurrection ==
    ASSUME TokenInv, [Next]_vars, NEW r \in Tokens, origin[r] # None, Alive(r)'
    PROVE  Alive(r)
<1> USE SessionAssumption DEF redisVars, slotVars
<1>0. TypeOK /\ TypeOK' /\ JobsCarry /\ OriginsDrawn
  BY TypeStep DEF TokenInv
<1>1. ASSUME live' \subseteq live, UNCHANGED origin,
             \A s \in Slots : Carries(s, r)' => Carries(s, r)
      PROVE  Alive(r)
  BY <1>1 DEF Alive
<1>2. ASSUME NEW s \in Slots, SlotStep(s) PROVE Alive(r)
  <2>1. CASE Issue(s)
    <3>1. PICK t \in Tokens :
            /\ origin' = [origin EXCEPT ![t] = IF session[s] = None
                                               THEN t ELSE session[s]]
            /\ live' = live \cup {t}
            /\ \A u \in Tokens : origin[u] = None <=> u >= t
      BY <2>1 DEF Issue
    <3>2. origin[t] = None
      BY <3>1 DEF Tokens
    <3>3. /\ pc[s] = "storing" /\ pc' = [pc EXCEPT ![s] = "responding"]
          /\ UNCHANGED <<job, session>>
      BY <2>1 DEF Issue
    <3>4. CASE \E u \in live' : origin'[u] = r
      <4>1. PICK u \in live' : origin'[u] = r
        BY <3>4
      <4>2. CASE u = t
        <5>1. session[s] = r
          BY <1>0, <3>1, <3>2, <4>1, <4>2 DEF TypeOK
        <5>2. r # None
          BY DEF Tokens
        <5>3. Carries(s, r)
          BY <1>0, <3>3, <5>1, <5>2 DEF Carries, JobsCarry, TypeOK
        <5>4. QED
          BY <5>3 DEF Alive
      <4>3. CASE u # t
        BY <1>0, <3>1, <4>1, <4>3 DEF Alive, TypeOK
      <4>4. QED
        BY <4>2, <4>3
    <3>5. CASE \E o \in Slots : Carries(o, r)'
      BY <1>0, <3>3, <3>5 DEF Alive, Carries, TypeOK
    <3>6. QED
      BY <3>4, <3>5 DEF Alive
  <2>2. ASSUME NEW t \in Tokens, Refresh(s, t) PROVE Alive(r)
    <3>1. /\ live' = live \ {t} /\ UNCHANGED origin /\ t \in live
          /\ pc' = [pc EXCEPT ![s] = "fetching"]
          /\ job' = [job EXCEPT ![s] = "refresh"]
          /\ session' = [session EXCEPT ![s] = origin[t]]
      BY <2>2 DEF Refresh, Without
    <3>2. QED
      BY <1>0, <3>1 DEF Alive, Carries, TypeOK
  <2>3. CASE Login(s)
    <3>1. job[s] = "login"
      BY <1>0, <2>3 DEF Login, JobsCarry
    <3>2. QED
      BY <1>0, <1>1, <2>3, <3>1 DEF Login, Carries, TypeOK
  <2>4. CASE FetchLogin(s) \/ FetchRefresh(s) \/ IssueNone(s)
    BY <1>0, <1>1, <2>4 DEF FetchLogin, FetchRefresh, IssueNone, Carries, TypeOK
  <2>5. CASE Accept(s)
    <3>1. job[s] = "login"
      BY <1>0, <2>5 DEF Accept, JobsCarry
    <3>2. QED
      BY <1>0, <1>1, <2>5, <3>1 DEF Accept, Carries, TypeOK
  <2>6. CASE \/ Reject(s) \/ RejectDeactivated(s) \/ RejectRefresh(s)
             \/ IssueRaises(s) \/ Respond(s) \/ CommitFails(s) \/ Abandon(s)
    <3>1. Finish(s) /\ UNCHANGED <<live, origin>>
      BY <2>6 DEF Reject, RejectDeactivated, RejectRefresh, IssueRaises,
                  Respond, CommitFails, Abandon
    <3>2. QED
      BY <1>0, <1>1, <3>1 DEF Finish, Carries, TypeOK
  <2>7. ASSUME NEW t \in Tokens, RefuseRefresh(s, t) PROVE Alive(r)
    BY <1>1, <2>7 DEF RefuseRefresh, Carries
  <2>8. QED
    BY <1>2, <2>1, <2>2, <2>3, <2>4, <2>5, <2>6, <2>7 DEF SlotStep
<1>3. CASE \/ \E t \in Tokens : Logout(t) \/ TokenExpires(t)
           \/ WindowEnds \/ Deactivate \/ Delete \/ RedisFlips
           \/ UNCHANGED vars
  <2>1. live' \subseteq live /\ UNCHANGED <<origin, pc, job, session>>
    BY <1>3 DEF Logout, TokenExpires, Without, WindowEnds, Deactivate, Delete,
                RedisFlips, vars
  <2>2. QED
    BY <1>1, <2>1 DEF Carries
<1>4. QED
  BY <1>2, <1>3 DEF Next

(* A session that has ended never comes back.                              *)
THEOREM EndedSessionsStayEnded == Spec => DeadStaysDead
<1>1. TokenInv /\ [Next]_vars
        => [\A r \in Tokens : origin[r] # None /\ ~Alive(r) => ~Alive(r)']_vars
  BY NoResurrection
<1>2. QED
  BY <1>1, TokenInvariance, PTL DEF Spec, DeadStaysDead

-----------------------------------------------------------------------------
(* Once a slot has answered late, it is on no way to a second answer: what *)
(* it fetches from then on is an account that is not active.               *)
SpentSlots ==
    \A s \in Slots :
        late[s] # 0 =>
            /\ late[s] = 1
            /\ account # "active"
            /\ pc[s] \notin {"storing", "responding"}
            /\ pc[s] = "verifying" => seen[s] # "active"

LEMMA SpentStep ==
    ASSUME TypeOK, SpentSlots, [Next]_vars
    PROVE  SpentSlots'
<1> USE DEF SpentSlots, TypeOK, redisVars, slotVars
<1>1. ASSUME NEW s \in Slots, SlotStep(s) PROVE SpentSlots'
  <2>1. CASE Respond(s)
    <3>1. late[s] = 0
      BY <2>1 DEF Respond
    <3>2. /\ late' = IF account # "active" THEN [late EXCEPT ![s] = 1] ELSE late
          /\ UNCHANGED account
      BY <2>1, <3>1 DEF Respond
    <3>3. /\ pc' = [pc EXCEPT ![s] = "idle"]
          /\ seen' = [seen EXCEPT ![s] = "gone"]
      BY <2>1 DEF Respond, Finish
    <3>4. QED
      BY <3>2, <3>3
  <2>2. CASE \/ Login(s) \/ FetchLogin(s) \/ Accept(s) \/ FetchRefresh(s)
             \/ Issue(s) \/ IssueNone(s)
    BY <2>2 DEF Login, FetchLogin, Accept, FetchRefresh, MayGoOn, Issue, IssueNone
  <2>3. CASE \/ Reject(s) \/ RejectDeactivated(s) \/ RejectRefresh(s)
             \/ IssueRaises(s) \/ CommitFails(s) \/ Abandon(s)
    <3>1. Finish(s) /\ UNCHANGED <<account, late>>
      BY <2>3 DEF Reject, RejectDeactivated, RejectRefresh, IssueRaises,
                  CommitFails, Abandon
    <3>2. QED
      BY <3>1 DEF Finish
  <2>4. ASSUME NEW t \in Tokens, Refresh(s, t) \/ RefuseRefresh(s, t)
        PROVE  SpentSlots'
    BY <2>4 DEF Refresh, RefuseRefresh
  <2>5. QED
    BY <1>1, <2>1, <2>2, <2>3, <2>4 DEF SlotStep
<1>2. CASE \/ \E t \in Tokens : Logout(t) \/ TokenExpires(t)
           \/ WindowEnds \/ RedisFlips \/ UNCHANGED vars
  BY <1>2 DEF Logout, TokenExpires, WindowEnds, RedisFlips, vars
<1>3. CASE Deactivate \/ Delete
  BY <1>3 DEF Deactivate, Delete
<1>4. QED
  BY <1>1, <1>2, <1>3 DEF Next

(* After deactivation or deletion no slot answers with tokens twice.       *)
THEOREM LateResponsesAreBounded == Spec => []OneLateResponse
<1>1. Init => SpentSlots
  BY DEF Init, SpentSlots
<1>2. TypeOK /\ SpentSlots /\ [Next]_vars => SpentSlots'
  BY SpentStep
<1>3. TypeOK /\ SpentSlots => OneLateResponse
  BY DEF TypeOK, SpentSlots, OneLateResponse
<1>4. QED
  BY <1>1, <1>2, <1>3, TypeCorrect, PTL DEF Spec

-----------------------------------------------------------------------------
(* The logins that passed the lockout check and may still count a failure. *)
Counting == {s \in Slots : pc[s] \in {"fetching", "verifying"}
                           /\ job[s] = "login" /\ locked[s] = FALSE}

(* The check admits a login only below the threshold, and each that it     *)
(* admits counts once.                                                     *)
OvershootInv ==
    steady = TRUE =>
        /\ redisUp = TRUE
        /\ failures + Cardinality(Counting) < Threshold + Cardinality(Slots)

LEMMA CountingFinite ==
    /\ IsFiniteSet(Slots) /\ Cardinality(Slots) \in Nat
    /\ \A S \in SUBSET Slots : /\ IsFiniteSet(S)
                               /\ Cardinality(S) \in Nat
                               /\ Cardinality(S) <= Cardinality(Slots)
<1>1. IsFiniteSet(Slots)
  BY SessionAssumption
<1>2. ASSUME NEW S \in SUBSET Slots
      PROVE  /\ IsFiniteSet(S) /\ Cardinality(S) \in Nat
             /\ Cardinality(S) <= Cardinality(Slots)
  BY <1>1, FS_Subset, FS_CardinalityType
<1>3. QED
  BY <1>1, <1>2, FS_CardinalityType

(* Steps after which no more logins may count, and no more have.           *)
LEMMA NoneAdmitted ==
    ASSUME OvershootInv, UNCHANGED <<steady, redisUp>>,
           failures \in Nat, failures' \in Nat, failures' <= failures,
           Counting' \subseteq Counting
    PROVE  OvershootInv'
<1>1. Counting \in SUBSET Slots /\ Counting' \in SUBSET Counting
  BY DEF Counting
<1>2. /\ Cardinality(Counting) \in Nat /\ Cardinality(Counting') \in Nat
      /\ Cardinality(Counting') <= Cardinality(Counting)
      /\ Cardinality(Slots) \in Nat
  BY <1>1, CountingFinite, FS_Subset
<1>3. Cardinality(Counting)' = Cardinality(Counting')
  OBVIOUS
<1>4. QED
  BY <1>2, <1>3, SessionAssumption DEF OvershootInv

LEMMA LoginStep ==
    ASSUME TypeOK, OvershootInv, NEW s \in Slots, Login(s)
    PROVE  OvershootInv'
<1>1. /\ pc[s] = "idle" /\ UNCHANGED <<failures, redisUp, steady, job>>
      /\ pc' = [pc EXCEPT ![s] = "fetching"]
      /\ locked' = [locked EXCEPT ![s] = IsLocked]
  BY DEF Login, redisVars
<1>2. failures \in Nat /\ Counting \in SUBSET Slots /\ Counting' \in SUBSET Slots
  BY SessionAssumption DEF TypeOK, Counting
<1>3. Counting' \subseteq Counting \cup {s} /\ s \notin Counting
  BY <1>1 DEF TypeOK, Counting
<1>4. CASE locked'[s] = FALSE /\ steady = TRUE
  <2>1. redisUp = TRUE /\ IsLocked = FALSE
    BY <1>1, <1>4 DEF OvershootInv, TypeOK
  <2>2. failures < Threshold
    BY <1>2, <2>1, SessionAssumption DEF IsLocked
  <2>3. Cardinality(Counting') \in Nat /\ Cardinality(Slots) \in Nat
        /\ Cardinality(Counting') <= Cardinality(Slots)
    BY <1>2, CountingFinite
  <2>4. failures + Cardinality(Counting') < Threshold + Cardinality(Slots)
    BY <1>2, <2>2, <2>3, SessionAssumption
  <2>5. QED
    BY <1>1, <2>1, <2>4 DEF OvershootInv
<1>5. CASE steady # TRUE
  BY <1>1, <1>5 DEF OvershootInv
<1>6. CASE locked'[s] # FALSE
  <2>1. Counting' \subseteq Counting
    BY <1>3, <1>6 DEF Counting
  <2>2. QED
    BY <1>1, <1>2, <2>1, NoneAdmitted
<1>7. QED
  BY <1>4, <1>5, <1>6

LEMMA RejectStep ==
    ASSUME TypeOK, JobsCarry, OvershootInv, NEW s \in Slots, Reject(s)
    PROVE  OvershootInv'
<1>1. /\ pc[s] = "verifying" /\ job[s] = "login"
      /\ pc' = [pc EXCEPT ![s] = "idle"]
      /\ job' = [job EXCEPT ![s] = "login"]
      /\ locked' = [locked EXCEPT ![s] = FALSE]
      /\ UNCHANGED <<redisUp, steady>>
  BY DEF Reject, Finish, JobsCarry
<1>2. failures \in Nat /\ Counting \in SUBSET Slots
  BY SessionAssumption DEF TypeOK, Counting
<1>3. Counting' = Counting \ {s}
  BY <1>1 DEF TypeOK, Counting
<1>4. CASE UNCHANGED failures
  BY <1>1, <1>2, <1>3, <1>4, NoneAdmitted
<1>5. CASE locked[s] = FALSE /\ failures' = failures + 1
  <2>1. s \in Counting
    BY <1>1, <1>5 DEF Counting
  <2>2. Cardinality(Counting') = Cardinality(Counting) - 1
    BY <1>2, <1>3, <2>1, CountingFinite, FS_RemoveElement
  <2>3. Cardinality(Counting) \in Nat /\ Cardinality(Slots) \in Nat
    BY <1>2, CountingFinite
  <2>4. failures' + Cardinality(Counting') = failures + Cardinality(Counting)
    BY <1>2, <1>5, <2>2, <2>3
  <2>5. QED
    BY <1>1, <2>4 DEF OvershootInv
<1>6. \/ UNCHANGED failures
      \/ locked[s] = FALSE /\ failures' = failures + 1
  BY DEF Reject, RecordLoginFailure, TypeOK
<1>7. QED
  BY <1>4, <1>5, <1>6

LEMMA OvershootStep ==
    ASSUME TokenInv, OvershootInv, [Next]_vars
    PROVE  OvershootInv'
<1> USE DEF redisVars, slotVars
<1>0. TypeOK /\ JobsCarry /\ failures \in Nat
  BY SessionAssumption DEF TokenInv, TypeOK
<1>1. ASSUME NEW s \in Slots, SlotStep(s)
      PROVE  OvershootInv'
  <2>1. CASE Login(s) \/ Reject(s)
    BY <1>0, <2>1, LoginStep, RejectStep
  <2>2. CASE FetchLogin(s)
    <3>1. Counting' \subseteq Counting
      BY <1>0, <2>2 DEF FetchLogin, Counting, TypeOK
    <3>2. QED
      BY <1>0, <2>2, <3>1, NoneAdmitted DEF FetchLogin
  <2>3. CASE Accept(s)
    <3>1. Counting' \subseteq Counting
      BY <1>0, <2>3 DEF Accept, Counting, TypeOK
    <3>2. failures' \in {0, failures}
      BY <2>3 DEF Accept, ResetLoginFailures
    <3>3. QED
      BY <1>0, <2>3, <3>1, <3>2, NoneAdmitted DEF Accept
  <2>4. CASE \/ FetchRefresh(s) \/ Issue(s) \/ IssueNone(s)
             \/ \E t \in Tokens : Refresh(s, t) \/ RefuseRefresh(s, t)
    <3>1. Counting' \subseteq Counting
      BY <1>0, <2>4 DEF FetchRefresh, Issue, IssueNone, Refresh, RefuseRefresh,
                        Counting, TypeOK
    <3>2. UNCHANGED <<failures, steady, redisUp>>
      BY <2>4 DEF FetchRefresh, Issue, IssueNone, Refresh, RefuseRefresh
    <3>3. QED
      BY <1>0, <3>1, <3>2, NoneAdmitted
  <2>5. CASE \/ RejectDeactivated(s) \/ RejectRefresh(s) \/ IssueRaises(s)
             \/ Respond(s) \/ CommitFails(s) \/ Abandon(s)
    <3>1. Finish(s) /\ UNCHANGED <<failures, steady, redisUp>>
      BY <2>5 DEF RejectDeactivated, RejectRefresh, IssueRaises, Respond,
                  CommitFails, Abandon
    <3>2. Counting' \subseteq Counting
      BY <1>0, <3>1 DEF Finish, Counting, TypeOK
    <3>3. QED
      BY <1>0, <3>1, <3>2, NoneAdmitted
  <2>6. QED
    BY <1>1, <2>1, <2>2, <2>3, <2>4, <2>5 DEF SlotStep
<1>2. CASE \/ \E t \in Tokens : Logout(t) \/ TokenExpires(t)
           \/ WindowEnds \/ Deactivate \/ Delete \/ UNCHANGED vars
  <2>1. /\ UNCHANGED <<pc, job, locked, steady, redisUp>>
        /\ failures' \in {0, failures}
    BY <1>2 DEF Logout, TokenExpires, WindowEnds, Deactivate, Delete, vars
  <2>2. QED
    BY <1>0, <2>1, NoneAdmitted DEF Counting
<1>3. CASE RedisFlips
  <2>1. steady # TRUE /\ UNCHANGED steady
    BY <1>3 DEF RedisFlips
  <2>2. QED
    BY <2>1 DEF OvershootInv
<1>4. QED
  BY <1>1, <1>2, <1>3 DEF Next

(* While Redis works, however logins overlap, the counter goes past the    *)
(* threshold by less than the number of requests under way at once.        *)
THEOREM OvershootIsBounded == Spec => []BoundedOvershoot
<1>1. Init => OvershootInv
  <2> SUFFICES ASSUME Init
               PROVE  OvershootInv
    OBVIOUS
  <2>1. redisUp = TRUE /\ failures = 0 /\ Counting = {}
    BY DEF Init, Counting
  <2>2. QED
    BY <2>1, CountingFinite, FS_EmptySet, SessionAssumption DEF OvershootInv
<1>2. TokenInv /\ OvershootInv => BoundedOvershoot
  <2> SUFFICES ASSUME TokenInv, OvershootInv, steady
               PROVE  failures < Threshold + Cardinality(Slots)
    BY DEF BoundedOvershoot
  <2>1. steady = TRUE
    BY DEF TokenInv, TypeOK
  <2>2. /\ Cardinality(Counting) \in Nat /\ Cardinality(Slots) \in Nat
        /\ failures \in Nat
    BY CountingFinite, SessionAssumption DEF Counting, TokenInv, TypeOK
  <2>3. QED
    BY <2>1, <2>2, SessionAssumption DEF OvershootInv
<1>3. QED
  BY <1>1, <1>2, OvershootStep, TokenInvariance, PTL DEF Spec
=============================================================================
