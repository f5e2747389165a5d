---------------------- MODULE AccountRegistrationProofs ----------------------
(***************************************************************************)
(* Proofs about AccountRegistration, for any numbers of requests, user ids *)
(* and links.                                                              *)
(***************************************************************************)
EXTENDS AccountRegistration, TLAPS

(* A request that has a user works in that user's name.                    *)
UserInv ==
    \A s \in Slots :
        pc[s] \in {"inserted", "mailed", "mailing", "loading", "committing"}
            => user[s] \in Users

(* One insert at a time, and only while there is no row.                   *)
InsertInv ==
    \A s \in Slots : pc[s] \in {"inserted", "mailed"} =>
        /\ row = None
        /\ \A o \in Slots : o # s => pc[o] \notin {"inserted", "mailed"}

(* A link that a request consumed is with this request only.               *)
CarryInv ==
    \A s \in Slots : link[s] # None =>
        /\ pc[s] \in {"loading", "committing"}
        /\ link[s] \in mailed /\ link[s] \notin live /\ took[link[s]] = 0
        /\ job[s] = purpose[link[s]] /\ user[s] = owner[link[s]]
        /\ \A o \in Slots : o # s => link[o] # link[s]

JobInv == \A s \in Slots : job[s] \in {"verify", "reset"} => link[s] # None

(* A link is undrawn, or live, or has been consumed.                       *)
LinkInv ==
    \A l \in Links :
        /\ l \in live \cup mailed => purpose[l] # None
        /\ purpose[l] = None \/ l \in live => took[l] = 0
        /\ took[l] <= 1

IInv == TypeOK /\ UserInv /\ InsertInv /\ CarryInv /\ JobInv /\ LinkInv

-----------------------------------------------------------------------------
LEMMA NoneIsNoData == None \notin Users /\ None \notin Links
  BY RegistrationAssumption DEF Users, Links

(* What the three ways of moving a request do to the slots.                *)
LEMMA BeginEffect ==
    ASSUME TypeOK, NEW s \in Slots, NEW what, NEW at, NEW id, NEW l,
           Begin(s, what, at, id, l)
    PROVE  /\ pc[s] = "idle"
           /\ \A o \in Slots : /\ pc'[o] = IF o = s THEN at ELSE pc[o]
                               /\ job'[o] = IF o = s THEN what ELSE job[o]
                               /\ user'[o] = IF o = s THEN id ELSE user[o]
                               /\ link'[o] = IF o = s THEN l ELSE link[o]
  BY DEF TypeOK, Begin

LEMMA FinishEffect ==
    ASSUME TypeOK, NEW s \in Slots, Finish(s)
    PROVE  \A o \in Slots : /\ pc'[o] = IF o = s THEN "idle" ELSE pc[o]
                            /\ job'[o] = IF o = s THEN "register" ELSE job[o]
                            /\ user'[o] = IF o = s THEN None ELSE user[o]
                            /\ link'[o] = IF o = s THEN None ELSE link[o]
  BY DEF TypeOK, Finish

LEMMA FinishTypes ==
    ASSUME TypeOK, NEW s \in Slots, Finish(s)
    PROVE  /\ pc' \in [Slots -> {"idle", "inserting", "inserted", "mailed",
                                 "mailing", "loading", "committing"}]
           /\ job' \in [Slots -> {"register", "verify", "reset", "resend",
                                  "forgot", "change"}]
           /\ user' \in [Slots -> Users \cup {None}]
           /\ link' \in [Slots -> Links \cup {None}]
  BY DEF TypeOK, Finish

LEMMA BeginTypes ==
    ASSUME TypeOK, NEW s \in Slots,
           NEW what \in {"register", "verify", "reset", "resend", "forgot",
                         "change"},
           NEW at \in {"inserting", "mailing", "loading", "committing"},
           NEW id \in Users \cup {None}, NEW l \in Links \cup {None},
           Begin(s, what, at, id, l)
    PROVE  /\ pc' \in [Slots -> {"idle", "inserting", "inserted", "mailed",
                                 "mailing", "loading", "committing"}]
           /\ job' \in [Slots -> {"register", "verify", "reset", "resend",
                                  "forgot", "change"}]
           /\ user' \in [Slots -> Users \cup {None}]
           /\ link' \in [Slots -> Links \cup {None}]
  BY DEF TypeOK, Begin

LEMMA RowFields ==
    ASSUME TypeOK, row # None
    PROVE  row \in Row /\ row.id \in Users /\ row.verified \in BOOLEAN
  BY DEF TypeOK, Row

LEMMA InvInit == Init => IInv
<1> SUFFICES ASSUME Init
             PROVE  IInv
  OBVIOUS
<1> USE RegistrationAssumption, NoneIsNoData
<1>1. TypeOK
  BY DEF Init, TypeOK
<1>2. UserInv /\ InsertInv /\ CarryInv /\ JobInv
  BY DEF Init, UserInv, InsertInv, CarryInv, JobInv
<1>3. LinkInv
  BY DEF Init, LinkInv
<1>4. QED
  BY <1>1, <1>2, <1>3 DEF IInv

-----------------------------------------------------------------------------
(* A request that ends, or that starts without a link, disturbs nothing    *)
(* about links.                                                            *)
LEMMA EndKeepsInv ==
    ASSUME IInv, NEW s \in Slots, Finish(s),
           UNCHANGED <<row, drawn, linkVars, redisUp, took>>
    PROVE  IInv'
<1> USE NoneIsNoData, FinishEffect DEF IInv, linkVars
<1>1. TypeOK'
  BY FinishTypes DEF TypeOK
<1>2. UserInv'
  BY DEF UserInv
<1>3. InsertInv'
  BY DEF InsertInv
<1>4. CarryInv'
  BY DEF CarryInv
<1>5. JobInv'
  BY DEF JobInv
<1>6. LinkInv'
  BY DEF LinkInv
<1>7. QED
  BY <1>1, <1>2, <1>3, <1>4, <1>5, <1>6

LEMMA StartKeepsInv ==
    ASSUME IInv, NEW s \in Slots,
           NEW what \in {"register", "resend", "forgot", "change"},
           NEW at \in {"inserting", "mailing", "committing"},
           NEW id \in Users \cup {None}, at # "inserting" => id \in Users,
           Begin(s, what, at, id, None),
           UNCHANGED <<row, drawn, linkVars, redisUp, took>>
    PROVE  IInv'
<1> USE NoneIsNoData DEF IInv, linkVars
<1>1. TypeOK'
  BY BeginTypes DEF TypeOK
<1>0. /\ pc[s] = "idle"
      /\ \A o \in Slots : /\ pc'[o] = IF o = s THEN at ELSE pc[o]
                          /\ job'[o] = IF o = s THEN what ELSE job[o]
                          /\ user'[o] = IF o = s THEN id ELSE user[o]
                          /\ link'[o] = IF o = s THEN None ELSE link[o]
  BY BeginEffect
<1>2. UserInv'
  BY <1>0 DEF UserInv
<1>3. InsertInv'
  BY <1>0 DEF InsertInv
<1>4. CarryInv'
  BY <1>0 DEF CarryInv
<1>5. JobInv'
  BY <1>0 DEF JobInv
<1>6. LinkInv'
  BY DEF LinkInv
<1>7. QED
  BY <1>1, <1>2, <1>3, <1>4, <1>5, <1>6

-----------------------------------------------------------------------------
LEMMA InsertKeepsInv ==
    ASSUME IInv, NEW s \in Slots, Insert(s)
    PROVE  IInv'
<1> USE NoneIsNoData DEF IInv
<1>1. CASE row # None
  BY <1>1, EndKeepsInv DEF Insert
<1>2. CASE row = None
  <2>1. /\ pc[s] = "inserting" /\ drawn < MaxUsers /\ drawn' = drawn + 1
        /\ \A o \in Slots : pc[o] \notin {"inserted", "mailed"}
        /\ pc' = [pc EXCEPT ![s] = "inserted"]
        /\ user' = [user EXCEPT ![s] = drawn + 1]
        /\ UNCHANGED <<job, link, row, purpose, owner, live, mailed, redisUp, took>>
    BY <1>2 DEF Insert, linkVars
  <2>2. drawn + 1 \in Users /\ drawn' \in 0..MaxUsers
    BY <2>1, RegistrationAssumption DEF TypeOK, Users
  <2>3. \A o \in Slots : /\ pc'[o] = IF o = s THEN "inserted" ELSE pc[o]
                         /\ user'[o] = IF o = s THEN drawn + 1 ELSE user[o]
    BY <2>1 DEF TypeOK
  <2>4. TypeOK'
    BY <2>1, <2>2 DEF TypeOK
  <2>5. UserInv'
    BY <2>1, <2>2, <2>3 DEF UserInv
  <2>6. InsertInv'
    BY <1>2, <2>1, <2>3 DEF InsertInv
  <2>7. CarryInv'
    BY <2>1, <2>3 DEF CarryInv
  <2>8. JobInv' /\ LinkInv'
    BY <2>1 DEF JobInv, LinkInv
  <2>9. QED
    BY <2>4, <2>5, <2>6, <2>7, <2>8
<1>3. QED
  BY <1>1, <1>2

(* A mail without a link: Redis is down.                                   *)
LEMMA GotoKeepsInv ==
    ASSUME IInv, NEW s \in Slots, NEW at \in {"mailed", "committing"},
           Goto(s, at), at = "mailed" => pc[s] = "inserted",
           at = "committing" => pc[s] = "loading",
           UNCHANGED <<row, drawn, linkVars, redisUp, took>>
    PROVE  IInv'
<1> USE NoneIsNoData DEF IInv, linkVars, Goto
<1>1. \A o \in Slots : pc'[o] = IF o = s THEN at ELSE pc[o]
  BY DEF TypeOK
<1>2. TypeOK'
  BY DEF TypeOK
<1>3. UserInv'
  BY <1>1 DEF UserInv
<1>4. InsertInv'
  BY <1>1 DEF InsertInv
<1>5. CarryInv'
  BY <1>1 DEF CarryInv
<1>6. JobInv' /\ LinkInv'
  BY DEF JobInv, LinkInv
<1>7. QED
  BY <1>2, <1>3, <1>4, <1>5, <1>6

(* A new link is one that nobody has had.                                  *)
LEMMA MailKeepsInv ==
    ASSUME IInv, NEW s \in Slots, Mail(s)
    PROVE  IInv'
<1> USE NoneIsNoData
<1>1. pc[s] \in {"inserted", "mailing"} /\ UNCHANGED <<row, drawn, redisUp, took>>
  BY DEF Mail
<1>2. CASE UNCHANGED linkVars
  <2>1. CASE pc[s] = "inserted"
    BY <1>1, <1>2, <2>1, GotoKeepsInv DEF Mail
  <2>2. CASE pc[s] # "inserted"
    BY <1>1, <1>2, <2>2, EndKeepsInv DEF Mail
  <2>3. QED
    BY <2>1, <2>2
<1>3. CASE ~(UNCHANGED linkVars)
  <2>1. PICK l \in Links :
          /\ purpose[l] = None
          /\ purpose' = [purpose EXCEPT ![l] = IF job[s] = "forgot" THEN "reset"
                                               ELSE "verify"]
          /\ owner' = [owner EXCEPT ![l] = user[s]]
          /\ live' = live \cup {l}
          /\ mailed' \in AfterSending(l)
    <3>1. PICK l \in Links :
            /\ \A k \in Links : purpose[k] = None <=> k >= l
            /\ purpose' = [purpose EXCEPT ![l] = IF job[s] = "forgot" THEN "reset"
                                                 ELSE "verify"]
            /\ owner' = [owner EXCEPT ![l] = user[s]]
            /\ live' = live \cup {l}
            /\ mailed' \in AfterSending(l)
      BY <1>3 DEF Mail
    <3>2. l >= l
      BY RegistrationAssumption DEF Links
    <3>3. QED
      BY <3>1, <3>2
  <2> DEFINE why == IF job[s] = "forgot" THEN "reset" ELSE "verify"
  <2>2. why \in {"verify", "reset"} /\ why # None
    BY RegistrationAssumption
  <2>3. /\ user[s] \in Users /\ mailed' \subseteq mailed \cup {l}
        /\ mailed \subseteq mailed'
    BY <1>1, <2>1 DEF IInv, UserInv, AfterSending
  <2> HIDE DEF why
  <2>4. \A k \in Links : /\ purpose'[k] = IF k = l THEN why ELSE purpose[k]
                         /\ owner'[k] = IF k = l THEN user[s] ELSE owner[k]
    BY <2>1 DEF IInv, TypeOK, why
  <2>5. /\ LinkInv'
        /\ purpose' \in [Links -> {"verify", "reset", None}]
        /\ owner' \in [Links -> Users \cup {None}]
        /\ live' \subseteq Links /\ mailed' \subseteq Links
        /\ \A k \in Links : owner'[k] \in Users <=> purpose'[k] # None
    <3>1. LinkInv'
      BY <1>1, <2>1, <2>2, <2>3, <2>4 DEF IInv, LinkInv
    <3>2. /\ purpose' \in [Links -> {"verify", "reset", None}]
          /\ owner' \in [Links -> Users \cup {None}]
          /\ live' \subseteq Links /\ mailed' \subseteq Links
      BY <2>1, <2>2, <2>3 DEF IInv, TypeOK, why
    <3>3. \A k \in Links : owner'[k] \in Users <=> purpose'[k] # None
      BY <2>2, <2>3, <2>4 DEF IInv, TypeOK
    <3>4. QED
      BY <3>1, <3>2, <3>3
  <2>6. ASSUME NEW o \in Slots, link[o] # None
        PROVE  link[o] \in Links /\ link[o] # l
    BY <2>1, <2>6 DEF IInv, TypeOK, CarryInv, LinkInv
  <2>7. CASE pc[s] = "inserted"
    <3>1. pc' = [pc EXCEPT ![s] = "mailed"] /\ UNCHANGED <<job, user, link>>
      BY <2>7 DEF Mail, Goto
    <3>2. \A o \in Slots : pc'[o] = IF o = s THEN "mailed" ELSE pc[o]
      BY <3>1 DEF IInv, TypeOK
    <3>3. TypeOK'
      BY <1>1, <2>5, <3>1 DEF IInv, TypeOK
    <3>4. UserInv' /\ JobInv'
      BY <2>3, <3>1, <3>2 DEF IInv, UserInv, JobInv
    <3>5. InsertInv'
      BY <1>1, <2>7, <3>2 DEF IInv, InsertInv
    <3>6. CarryInv'
      BY <1>1, <2>1, <2>3, <2>4, <2>6, <2>7, <3>1, <3>2 DEF IInv, CarryInv
    <3>7. QED
      BY <2>5, <3>3, <3>4, <3>5, <3>6 DEF IInv
  <2>8. CASE pc[s] # "inserted"
    <3>1. Finish(s)
      BY <2>8 DEF Mail
    <3>2. \A o \in Slots : /\ pc'[o] = IF o = s THEN "idle" ELSE pc[o]
                           /\ job'[o] = IF o = s THEN "register" ELSE job[o]
                           /\ user'[o] = IF o = s THEN None ELSE user[o]
                           /\ link'[o] = IF o = s THEN None ELSE link[o]
      BY <3>1, FinishEffect DEF IInv
    <3>3. TypeOK'
      BY <1>1, <2>5, <3>1, FinishTypes DEF IInv, TypeOK
    <3>4. UserInv' /\ JobInv'
      BY <2>3, <3>2 DEF IInv, UserInv, JobInv
    <3>5. InsertInv'
      BY <1>1, <3>2 DEF IInv, InsertInv
    <3>6. CarryInv'
      BY <1>1, <2>1, <2>3, <2>4, <2>6, <3>2 DEF IInv, CarryInv
    <3>7. QED
      BY <2>5, <3>3, <3>4, <3>5, <3>6 DEF IInv
  <2>9. QED
    BY <2>7, <2>8
<1>4. QED
  BY <1>2, <1>3

LEMMA CommitInsertKeepsInv ==
    ASSUME IInv, NEW s \in Slots, CommitInsert(s)
    PROVE  IInv'
<1> USE NoneIsNoData DEF IInv, linkVars
<1>1. /\ pc[s] = "mailed" /\ Finish(s)
      /\ row' = [id |-> user[s], verified |-> FALSE, pw |-> None]
      /\ UNCHANGED <<drawn, purpose, owner, live, mailed, redisUp, took>>
  BY DEF CommitInsert
<1>2. \A o \in Slots : /\ pc'[o] = IF o = s THEN "idle" ELSE pc[o]
                       /\ job'[o] = IF o = s THEN "register" ELSE job[o]
                       /\ user'[o] = IF o = s THEN None ELSE user[o]
                       /\ link'[o] = IF o = s THEN None ELSE link[o]
  BY <1>1, FinishEffect
<1>3. row' \in Row
  BY <1>1 DEF UserInv, Row
<1>4. TypeOK'
  BY <1>1, <1>3, FinishTypes DEF TypeOK
<1>5. UserInv' /\ JobInv'
  BY <1>2 DEF UserInv, JobInv
<1>6. InsertInv'
  BY <1>1, <1>2 DEF InsertInv
<1>7. CarryInv'
  BY <1>1, <1>2 DEF CarryInv
<1>8. LinkInv'
  BY <1>1 DEF LinkInv
<1>9. QED
  BY <1>4, <1>5, <1>6, <1>7, <1>8

(* GETDEL: the link leaves Redis with the one who follows it.              *)
LEMMA FollowKeepsInv ==
    ASSUME IInv, NEW s \in Slots, NEW l \in Links, Follow(s, l)
    PROVE  IInv'
<1> USE NoneIsNoData DEF IInv
<1>1. /\ l \in mailed /\ l \in live /\ live' = live \ {l}
      /\ Begin(s, purpose[l], "loading", owner[l], l)
      /\ UNCHANGED <<row, drawn, purpose, owner, mailed, redisUp, took>>
  BY DEF Follow, Without
<1>2. /\ purpose[l] \in {"verify", "reset"} /\ owner[l] \in Users /\ took[l] = 0
  BY <1>1 DEF TypeOK, LinkInv
<1>3. /\ pc[s] = "idle"
      /\ \A o \in Slots : /\ pc'[o] = IF o = s THEN "loading" ELSE pc[o]
                          /\ job'[o] = IF o = s THEN purpose[l] ELSE job[o]
                          /\ user'[o] = IF o = s THEN owner[l] ELSE user[o]
                          /\ link'[o] = IF o = s THEN l ELSE link[o]
  BY <1>1, BeginEffect
<1>4. TypeOK'
  BY <1>1, <1>2, BeginTypes DEF TypeOK
<1>5. UserInv' /\ JobInv'
  BY <1>2, <1>3 DEF UserInv, JobInv
<1>6. InsertInv'
  BY <1>1, <1>3 DEF InsertInv
<1>7. CarryInv'
  <2>1. \A o \in Slots : link[o] # l
    BY <1>1 DEF CarryInv
  <2>2. QED
    BY <1>1, <1>2, <1>3, <2>1 DEF CarryInv
<1>8. LinkInv'
  BY <1>1 DEF LinkInv
<1>9. QED
  BY <1>4, <1>5, <1>6, <1>7, <1>8

(* The commit spends the link that its request carries.                    *)
LEMMA CommitKeepsInv ==
    ASSUME IInv, NEW s \in Slots, Commit(s)
    PROVE  IInv'
<1> USE NoneIsNoData DEF IInv
<1>1. CASE ~Found(s)
  BY <1>1, EndKeepsInv DEF Commit
<1>2. CASE Found(s)
  <2>1. /\ pc[s] = "committing" /\ Finish(s) /\ row' = Written(s)
        /\ took' = IF link[s] # None /\ took[link[s]] < 2
                   THEN [took EXCEPT ![link[s]] = @ + 1] ELSE took
        /\ UNCHANGED <<drawn, purpose, owner, live, mailed, redisUp>>
    BY <1>2 DEF Commit, linkVars
  <2>2. \A o \in Slots : /\ pc'[o] = IF o = s THEN "idle" ELSE pc[o]
                         /\ job'[o] = IF o = s THEN "register" ELSE job[o]
                         /\ user'[o] = IF o = s THEN None ELSE user[o]
                         /\ link'[o] = IF o = s THEN None ELSE link[o]
    BY <2>1, FinishEffect
  <2>3. row # None /\ row \in Row
    BY <1>2, RowFields DEF Found, Exists
  <2>4. row' \in Row
    <3>1. CASE job[s] = "verify"
      BY <2>1, <2>3, <3>1 DEF Written, Row
    <3>2. CASE job[s] # "verify"
      <4>1. (IF link[s] = None THEN 0 ELSE link[s]) \in {None} \cup Nat
        BY RegistrationAssumption DEF TypeOK, Links
      <4>2. QED
        BY <2>1, <2>3, <3>2, <4>1 DEF Written, Row
    <3>3. QED
      BY <3>1, <3>2
  <2>5. /\ link[s] # None => link[s] \in Links /\ took[link[s]] = 0
        /\ \A k \in Links : took'[k] = IF k = link[s] THEN 1 ELSE took[k]
        /\ took' \in [Links -> 0..2]
    <3>1. link[s] # None => link[s] \in Links /\ took[link[s]] = 0
      BY DEF TypeOK, CarryInv
    <3>2. CASE link[s] = None
      BY <2>1, <3>2 DEF TypeOK
    <3>3. CASE link[s] # None
      BY <2>1, <3>1, <3>3 DEF TypeOK
    <3>4. QED
      BY <3>1, <3>2, <3>3
  <2>6. TypeOK'
    BY <2>1, <2>4, <2>5, FinishTypes DEF TypeOK
  <2>7. UserInv' /\ JobInv'
    BY <2>2 DEF UserInv, JobInv
  <2>8. InsertInv'
    BY <2>1, <2>2, <2>3 DEF InsertInv
  <2>9. CarryInv'
    <3>1. ASSUME NEW o \in Slots, o # s, link[o] # None
          PROVE  took'[link[o]] = 0
      <4>1. link[o] \in Links /\ link[o] # link[s] /\ took[link[o]] = 0
        BY <3>1 DEF TypeOK, CarryInv
      <4>2. QED
        BY <2>5, <4>1
    <3>2. QED
      BY <2>1, <2>2, <3>1 DEF CarryInv
  <2>10. LinkInv'
    <3>1. link[s] # None => purpose[link[s]] # None /\ link[s] \notin live
      <4>1. ASSUME link[s] # None
            PROVE  /\ link[s] \in Links /\ link[s] \in mailed
                   /\ link[s] \notin live
        BY <2>5, <4>1 DEF CarryInv
      <4>2. QED
        BY <4>1 DEF LinkInv
    <3>2. QED
      BY <2>1, <2>5, <3>1 DEF LinkInv
  <2>11. QED
    BY <2>6, <2>7, <2>8, <2>9, <2>10
<1>3. QED
  BY <1>1, <1>2

LEMMA StepKeepsInv == IInv /\ [Next]_vars => IInv'
<1> SUFFICES ASSUME IInv, [Next]_vars
             PROVE  IInv'
  OBVIOUS
<1> USE NoneIsNoData
<1>1. ASSUME NEW s \in Slots, SlotStep(s)
      PROVE  IInv'
  <2>1. CASE Register(s)
    BY <2>1, StartKeepsInv DEF Register
  <2>2. CASE AskForLink(s)
    <3>1. row.id \in Users
      BY <2>2, RowFields DEF AskForLink, IInv
    <3>2. QED
      BY <2>2, <3>1, StartKeepsInv DEF AskForLink
  <2>3. CASE ChangePassword(s)
    <3>1. row.id \in Users
      BY <2>3, RowFields DEF ChangePassword, IInv
    <3>2. QED
      BY <2>3, <3>1, StartKeepsInv DEF ChangePassword
  <2>4. CASE Load(s)
    <3>1. CASE Found(s)
      BY <2>4, <3>1, GotoKeepsInv DEF Load
    <3>2. CASE ~Found(s)
      BY <2>4, <3>2, EndKeepsInv DEF Load
    <3>3. QED
      BY <3>1, <3>2
  <2>5. CASE Abandon(s)
    BY <2>5, EndKeepsInv DEF Abandon
  <2>6. QED
    BY <1>1, <2>1, <2>2, <2>3, <2>4, <2>5, InsertKeepsInv, MailKeepsInv,
       CommitInsertKeepsInv, FollowKeepsInv, CommitKeepsInv DEF SlotStep
<1>2. CASE Delete
  BY <1>2 DEF Delete, linkVars, slotVars, IInv, TypeOK, UserInv, InsertInv,
              CarryInv, JobInv, LinkInv
<1>3. ASSUME NEW l \in Links, LinkExpires(l)
      PROVE  IInv'
  BY <1>3 DEF LinkExpires, slotVars, IInv, TypeOK, UserInv, InsertInv,
              CarryInv, JobInv, LinkInv
<1>4. CASE RedisFlips
  <2>1. redisUp' \in BOOLEAN
    BY <1>4 DEF RedisFlips
  <2>2. UNCHANGED <<row, drawn, linkVars, slotVars, took>>
    BY <1>4 DEF RedisFlips
  <2>3. QED
    BY <2>1, <2>2 DEF linkVars, slotVars, IInv, TypeOK, UserInv, InsertInv,
                      CarryInv, JobInv, LinkInv
<1>5. CASE UNCHANGED vars
  BY <1>5 DEF vars, linkVars, slotVars, IInv, TypeOK, UserInv, InsertInv,
              CarryInv, JobInv, LinkInv
<1>6. QED
  BY <1>1, <1>2, <1>3, <1>4, <1>5 DEF Next

LEMMA InvAlways == Spec => []IInv
  BY InvInit, StepKeepsInv, PTL DEF Spec

(* The row, the links and the requests keep their types.                   *)
THEOREM TypeCorrect == Spec => []TypeOK
  BY InvAlways, PTL DEF IInv

(* However often and by however many a link is followed, it brings about   *)
(* one commit.                                                             *)
THEOREM LinksWorkOnce == Spec => []LinksAreSingleUse
<1>1. IInv => LinksAreSingleUse
  BY DEF IInv, LinkInv, LinksAreSingleUse
<1>2. QED
  BY <1>1, InvAlways, PTL

-----------------------------------------------------------------------------
(* What becomes of the row, whatever the step.                             *)
RowAfter ==
    \/ row' = row
    \/ row' = None
    \/ row = None /\ row'.verified = FALSE /\ row'.pw = None
    \/ \E s \in Slots : /\ pc[s] = "committing" /\ Found(s)
                        /\ row' = Written(s)
                        /\ took' = IF link[s] # None /\ took[link[s]] < 2
                                   THEN [took EXCEPT ![link[s]] = @ + 1]
                                   ELSE took
                        /\ UNCHANGED <<purpose, owner, mailed>>

LEMMA RowSteps == IInv /\ [Next]_vars => RowAfter
<1> SUFFICES ASSUME IInv, [Next]_vars
             PROVE  RowAfter
  OBVIOUS
<1>1. ASSUME NEW s \in Slots, CommitInsert(s)
      PROVE  RowAfter
  BY <1>1 DEF CommitInsert, IInv, InsertInv, RowAfter
<1>2. ASSUME NEW s \in Slots, Commit(s)
      PROVE  RowAfter
  BY <1>2 DEF Commit, linkVars, RowAfter
<1>3. ASSUME NEW s \in Slots, SlotStep(s), ~CommitInsert(s), ~Commit(s)
      PROVE  row' = row
  BY <1>3 DEF SlotStep, Register, Insert, Mail, AskForLink, Follow,
              ChangePassword, Load, Abandon
<1>4. QED
  BY <1>1, <1>2, <1>3 DEF Next, Delete, LinkExpires, RedisFlips, vars, RowAfter

(* What is known of a link that was used stays true.                       *)
LEMMA LinkHistory ==
    ASSUME IInv, [Next]_vars, NEW l \in mailed, took[l] # 0
    PROVE  l \in mailed' /\ purpose'[l] = purpose[l] /\ owner'[l] = owner[l]
           /\ took'[l] # 0
<1> USE NoneIsNoData
<1>0. l \in Links /\ purpose[l] # None /\ took[l] \in 0..2
  BY DEF IInv, TypeOK, LinkInv
<1>1. ASSUME NEW s \in Slots, Mail(s)
      PROVE  l \in mailed' /\ purpose'[l] = purpose[l] /\ owner'[l] = owner[l]
             /\ took'[l] # 0
  <2>1. CASE UNCHANGED linkVars
    BY <1>1, <2>1 DEF Mail, linkVars
  <2>2. CASE ~(UNCHANGED linkVars)
    <3>1. PICK k \in Links :
            /\ \A j \in Links : purpose[j] = None <=> j >= k
            /\ purpose' = [purpose EXCEPT ![k] = IF job[s] = "forgot" THEN "reset"
                                                 ELSE "verify"]
            /\ owner' = [owner EXCEPT ![k] = user[s]]
            /\ mailed' \in AfterSending(k)
      BY <1>1, <2>2 DEF Mail
    <3>2. k # l
      BY <1>0, <3>1, RegistrationAssumption DEF Links
    <3>3. took' = took
      BY <1>1 DEF Mail
    <3>4. QED
      BY <1>0, <3>1, <3>2, <3>3 DEF IInv, TypeOK, AfterSending
  <2>3. QED
    BY <2>1, <2>2
<1>2. ASSUME NEW s \in Slots, Commit(s)
      PROVE  UNCHANGED linkVars /\ took'[l] # 0
  BY <1>0, <1>2 DEF Commit, IInv, TypeOK
<1>3. ASSUME NEW s \in Slots, SlotStep(s), ~Mail(s), ~Commit(s)
      PROVE  UNCHANGED <<purpose, owner, mailed, took>>
  BY <1>3 DEF SlotStep, Register, Insert, CommitInsert, AskForLink, Follow,
              ChangePassword, Load, Abandon, linkVars
<1>4. CASE Delete \/ RedisFlips \/ UNCHANGED vars \/ \E k \in Links : LinkExpires(k)
  BY <1>4 DEF Delete, RedisFlips, LinkExpires, vars, linkVars
<1>5. QED
  BY <1>1, <1>2, <1>3, <1>4 DEF Next, linkVars

LEMMA OwnLinkStep ==
    IInv /\ VerifiedByOwnLink /\ [Next]_vars => VerifiedByOwnLink'
<1> SUFFICES ASSUME IInv, VerifiedByOwnLink, [Next]_vars,
                    row' # None, row'.verified
             PROVE  \E l \in mailed' : /\ purpose'[l] = "verify"
                                       /\ owner'[l] = row'.id /\ took'[l] # 0
  BY DEF VerifiedByOwnLink
<1> USE NoneIsNoData
<1>1. ASSUME row # None, row.verified, row'.id = row.id
      PROVE  \E l \in mailed' : /\ purpose'[l] = "verify"
                                /\ owner'[l] = row'.id /\ took'[l] # 0
  <2>1. PICK l \in mailed : /\ purpose[l] = "verify" /\ owner[l] = row.id
                            /\ took[l] # 0
    BY <1>1 DEF VerifiedByOwnLink
  <2>2. QED
    BY <1>1, <2>1, LinkHistory
<1>2. ASSUME NEW s \in Slots, pc[s] = "committing", Found(s), row' = Written(s),
             took' = IF link[s] # None /\ took[link[s]] < 2
                     THEN [took EXCEPT ![link[s]] = @ + 1] ELSE took,
             UNCHANGED <<purpose, owner, mailed>>
      PROVE  \E l \in mailed' : /\ purpose'[l] = "verify"
                                /\ owner'[l] = row'.id /\ took'[l] # 0
  <2>1. row # None /\ row \in Row /\ row.id = user[s]
    BY <1>2, RowFields DEF Found, Exists, IInv
  <2>2. row'.id = row.id
    BY <1>2, <2>1 DEF Written, Row
  <2>3. CASE job[s] = "verify"
    <3>1. /\ link[s] # None /\ link[s] \in Links /\ link[s] \in mailed
          /\ purpose[link[s]] = "verify" /\ owner[link[s]] = user[s]
          /\ took[link[s]] = 0
      BY <2>3 DEF IInv, TypeOK, CarryInv, JobInv
    <3>2. took'[link[s]] = 1
      BY <1>2, <3>1 DEF IInv, TypeOK
    <3>3. QED
      BY <1>2, <2>1, <2>2, <3>1, <3>2
  <2>4. CASE job[s] # "verify"
    <3>1. row'.verified = row.verified
      BY <1>2, <2>1, <2>4 DEF Written, Row
    <3>2. QED
      BY <1>1, <2>1, <2>2, <3>1
  <2>5. QED
    BY <2>3, <2>4
<1>3. QED
  BY <1>1, <1>2, RowSteps DEF RowAfter

(* An address is verified by its own account's link only.                  *)
THEOREM VerifiedByItself == Spec => []VerifiedByOwnLink
<1>1. Init => VerifiedByOwnLink
  BY DEF Init, VerifiedByOwnLink
<1>2. QED
  BY <1>1, InvInit, StepKeepsInv, OwnLinkStep, PTL DEF Spec

(* A link that was used is never live again.                               *)
LEMMA UsedLinksStayDead ==
    ASSUME IInv, [Next]_vars, NEW l \in mailed, took[l] # 0
    PROVE  l \notin live'
<1>1. IInv' /\ took'[l] # 0 /\ l \in Links
  BY LinkHistory, StepKeepsInv DEF IInv, TypeOK
<1>2. QED
  BY <1>1 DEF IInv, LinkInv

LEMMA OwnResetStep ==
    IInv /\ PasswordByOwnLink /\ [Next]_vars => PasswordByOwnLink'
<1> DEFINE SetBy(l) == /\ l \in mailed' /\ l \notin live'
                       /\ purpose'[l] = "reset" /\ owner'[l] = row'.id
                       /\ took'[l] # 0
<1> SUFFICES ASSUME IInv, PasswordByOwnLink, [Next]_vars,
                    row' # None, row'.pw \in Links
             PROVE  SetBy(row'.pw)
  BY DEF PasswordByOwnLink
<1> USE NoneIsNoData
<1>1. ASSUME row # None, row'.pw = row.pw, row'.id = row.id
      PROVE  SetBy(row'.pw)
  <2>1. /\ row.pw \in mailed /\ purpose[row.pw] = "reset"
        /\ owner[row.pw] = row.id /\ took[row.pw] # 0
    BY <1>1 DEF PasswordByOwnLink
  <2>2. QED
    BY <1>1, <2>1, LinkHistory, UsedLinksStayDead
<1>2. ASSUME NEW s \in Slots, pc[s] = "committing", Found(s), row' = Written(s),
             took' = IF link[s] # None /\ took[link[s]] < 2
                     THEN [took EXCEPT ![link[s]] = @ + 1] ELSE took,
             UNCHANGED <<purpose, owner, mailed>>
      PROVE  SetBy(row'.pw)
  <2>1. row # None /\ row \in Row /\ row.id = user[s]
    BY <1>2, RowFields DEF Found, Exists, IInv
  <2>2. row'.id = row.id
    BY <1>2, <2>1 DEF Written, Row
  <2>3. CASE job[s] = "verify"
    <3>1. row'.pw = row.pw
      BY <1>2, <2>1, <2>3 DEF Written, Row
    <3>2. QED
      BY <1>1, <2>1, <2>2, <3>1
  <2>4. CASE job[s] # "verify"
    <3>1. link[s] # None /\ row'.pw = link[s]
      <4>1. row'.pw = IF link[s] = None THEN 0 ELSE link[s]
        BY <1>2, <2>1, <2>4 DEF Written, Row
      <4>2. 0 \notin Links
        BY DEF Links
      <4>3. QED
        BY <4>1, <4>2
    <3>2. /\ link[s] \in Links /\ link[s] \in mailed
          /\ purpose[link[s]] = "reset" /\ owner[link[s]] = user[s]
          /\ took[link[s]] = 0
      <4>1. /\ link[s] \in mailed /\ job[s] = purpose[link[s]]
            /\ owner[link[s]] = user[s] /\ took[link[s]] = 0
        BY <3>1 DEF IInv, CarryInv
      <4>2. link[s] \in Links /\ purpose[link[s]] \in {"verify", "reset", None}
        BY <3>1 DEF IInv, TypeOK
      <4>3. purpose[link[s]] # None
        BY <4>1, <4>2 DEF IInv, LinkInv
      <4>4. QED
        BY <2>4, <4>1, <4>2, <4>3
    <3>3. took'[link[s]] = 1
      BY <1>2, <3>1, <3>2 DEF IInv, TypeOK
    <3>4. link[s] \notin live'
      <4>1. IInv'
        BY StepKeepsInv
      <4>2. QED
        BY <3>2, <3>3, <4>1 DEF IInv, LinkInv
    <3>5. QED
      BY <1>2, <2>1, <2>2, <3>1, <3>2, <3>3, <3>4
  <2>5. QED
    BY <2>3, <2>4
<1>3. QED
  BY <1>1, <1>2, RowSteps DEF RowAfter

(* A mailed reset link sets its own account's password only, and only by   *)
(* the commit that spends it.                                              *)
THEOREM ResetByItself == Spec => []PasswordByOwnLink
<1>1. Init => PasswordByOwnLink
  BY DEF Init, PasswordByOwnLink
<1>2. QED
  BY <1>1, InvInit, StepKeepsInv, OwnResetStep, PTL DEF Spec
=============================================================================
