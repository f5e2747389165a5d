------------------------- MODULE AccountRegistration -------------------------
(***************************************************************************)
(* One email address of the user-service: registration, the mailed         *)
(* verification and reset links, and the row they are about                *)
(* (app/routes/auth.py, app/routes/users.py, app/redis_client.py,          *)
(* app/email.py).                                                          *)
(*                                                                         *)
(* A link is a random token whose Redis key names a user id.  Ids and      *)
(* tokens are numbered in the order in which they are drawn.  An UPDATE    *)
(* writes the columns that its request assigned, and those only; it fails  *)
(* if the row is gone.                                                     *)
(***************************************************************************)
EXTENDS Naturals

CONSTANTS Slots,     \* requests that can be under way at once
          MaxUsers,  \* bound: user ids that can ever be drawn
          MaxLinks,  \* bound: link tokens that can ever be drawn
          None

ASSUME RegistrationAssumption ==
    /\ MaxUsers \in Nat
    /\ MaxLinks \in Nat
    /\ None \notin Nat /\ None \notin {"verify", "reset"}

Users == 1..MaxUsers
Links == 1..MaxLinks

VARIABLES row,      \* the committed row of the address, or None
          drawn,    \* user ids drawn so far
          purpose,  \* link -> "verify" or "reset", None while undrawn
          owner,    \* link -> the user id that Redis stores under it
          live,     \* links with a key in Redis
          mailed,   \* links that were sent
          redisUp,
          pc,       \* where each request is
          job,      \* "register", "verify", "reset", "resend", "forgot", "change"
          user,     \* the id that the request is about
          link,     \* the link that it consumed
          took      \* history: link -> commits it brought about, up to two

linkVars == <<purpose, owner, live, mailed>>
slotVars == <<pc, job, user, link>>
vars == <<row, drawn, linkVars, redisUp, slotVars, took>>

(* pw is the reset link that set the password, 0 for update_me.            *)
Row == [id : Users, verified : BOOLEAN, pw : {None} \cup Nat]

TypeOK ==
    /\ row \in Row \cup {None}
    /\ drawn \in 0..MaxUsers
    /\ purpose \in [Links -> {"verify", "reset", None}]
    /\ owner \in [Links -> Users \cup {None}]
    /\ live \subseteq Links
    /\ mailed \subseteq Links
    /\ redisUp \in BOOLEAN
    /\ pc \in [Slots -> {"idle", "inserting", "inserted", "mailed", "mailing",
                         "loading", "committing"}]
    /\ job \in [Slots -> {"register", "verify", "reset", "resend", "forgot",
                          "change"}]
    /\ user \in [Slots -> Users \cup {None}]
    /\ link \in [Slots -> Links \cup {None}]
    /\ took \in [Links -> 0..2]
    /\ \A l \in Links : owner[l] \in Users <=> purpose[l] # None

Init ==
    /\ row = None
    /\ drawn = 0
    /\ purpose = [l \in Links |-> None]
    /\ owner = [l \in Links |-> None]
    /\ live = {}
    /\ mailed = {}
    /\ redisUp = TRUE
    /\ pc = [s \in Slots |-> "idle"]
    /\ job = [s \in Slots |-> "register"]
    /\ user = [s \in Slots |-> None]
    /\ link = [s \in Slots |-> None]
    /\ took = [l \in Links |-> 0]

-----------------------------------------------------------------------------
Begin(s, what, at, id, l) ==
    /\ pc[s] = "idle"
    /\ pc' = [pc EXCEPT ![s] = at]
    /\ job' = [job EXCEPT ![s] = what]
    /\ user' = [user EXCEPT ![s] = id]
    /\ link' = [link EXCEPT ![s] = l]

Finish(s) ==
    /\ pc' = [pc EXCEPT ![s] = "idle"]
    /\ job' = [job EXCEPT ![s] = "register"]
    /\ user' = [user EXCEPT ![s] = None]
    /\ link' = [link EXCEPT ![s] = None]

Goto(s, at) == pc' = [pc EXCEPT ![s] = at] /\ UNCHANGED <<job, user, link>>

Exists(id) == row # None /\ row.id = id

(* Mutants of the definitions below.                                       *)
MutGetWithoutDelete(l) == live
MutMailBeforeFlush(s) ==
    /\ pc[s] = "inserting"
    /\ Goto(s, "inserted")
    /\ UNCHANGED <<row, drawn, linkVars, redisUp, took>>
MutByAddress(s) == row # None

-----------------------------------------------------------------------------
(* register, step 1: no row has the address yet, as far as it can see.     *)
Register(s) ==
    /\ row = None
    /\ Begin(s, "register", "inserting", None, None)
    /\ UNCHANGED <<row, drawn, linkVars, redisUp, took>>

(* register, step 2: the flush.  It waits for another request's            *)
(* uncommitted insert of the same address; the unique index refuses it if  *)
(* that one has committed.                                                 *)
Insert(s) ==
    /\ pc[s] = "inserting"
    /\ \A o \in Slots : pc[o] \notin {"inserted", "mailed"}
    /\ IF row = None
       THEN /\ drawn < MaxUsers
            /\ drawn' = drawn + 1
            /\ pc' = [pc EXCEPT ![s] = "inserted"]
            /\ user' = [user EXCEPT ![s] = drawn + 1]
            /\ UNCHANGED <<job, link>>
       ELSE Finish(s) /\ UNCHANGED drawn
    /\ UNCHANGED <<row, linkVars, redisUp, took>>

(* EmailSender.send swallows its failures: the mail leaves or is lost.     *)
AfterSending(l) == {mailed, mailed \cup {l}}

(* _send_verification_email and _send_password_reset_email: store the      *)
(* token, then send; without Redis neither, and a failed send is           *)
(* swallowed.  register awaits it before its commit, resend and forgot     *)
(* leave it to a background task.                                          *)
Mail(s) ==
    /\ pc[s] \in {"inserted", "mailing"}
    /\ \/ /\ redisUp
          /\ \E l \in Links :
              /\ \A k \in Links : purpose[k] = None <=> k >= l
              /\ purpose' = [purpose EXCEPT ![l] =
                               IF job[s] = "forgot" THEN "reset" ELSE "verify"]
              /\ owner' = [owner EXCEPT ![l] = user[s]]
              /\ live' = live \cup {l}
              /\ mailed' \in AfterSending(l)
       \/ ~redisUp /\ UNCHANGED linkVars
    /\ IF pc[s] = "inserted" THEN Goto(s, "mailed") ELSE Finish(s)
    /\ UNCHANGED <<row, drawn, redisUp, took>>

(* register, last step: get_db commits.                                    *)
CommitInsert(s) ==
    /\ pc[s] = "mailed"
    /\ row' = [id |-> user[s], verified |-> FALSE, pw |-> None]
    /\ Finish(s)
    /\ UNCHANGED <<drawn, linkVars, redisUp, took>>

(* resend_verification and forgot_password.  (forgot also wants an active  *)
(* account; reset does not look, and neither asks for a verified one.)     *)
AskForLink(s) ==
    /\ row # None
    /\ \/ ~row.verified /\ Begin(s, "resend", "mailing", row.id, None)
       \/ Begin(s, "forgot", "mailing", row.id, None)
    /\ UNCHANGED <<row, drawn, linkVars, redisUp, took>>

(* consume_email_verification_token, consume_password_reset_token: GETDEL. *)
Without(l) == live \ {l}

Follow(s, l) ==
    /\ l \in mailed
    /\ redisUp /\ l \in live
    /\ live' = Without(l)
    /\ Begin(s, purpose[l], "loading", owner[l], l)
    /\ UNCHANGED <<row, drawn, purpose, owner, mailed, redisUp, took>>

(* update_me with a new password.                                          *)
ChangePassword(s) ==
    /\ row # None
    /\ Begin(s, "change", "committing", row.id, None)
    /\ UNCHANGED <<row, drawn, linkVars, redisUp, took>>

(* verify_email and reset_password look the user id up; a reset then       *)
(* hashes the new password in a thread.                                    *)
Found(s) == Exists(user[s])

Load(s) ==
    /\ pc[s] = "loading"
    /\ IF Found(s) THEN Goto(s, "committing") ELSE Finish(s)
    /\ UNCHANGED <<row, drawn, linkVars, redisUp, took>>

(* The columns that the commit writes.                                     *)
Written(s) ==
    IF job[s] = "verify" THEN [row EXCEPT !.verified = TRUE]
                         ELSE [row EXCEPT !.pw = IF link[s] = None THEN 0 ELSE link[s]]

Commit(s) ==
    /\ pc[s] = "committing"
    /\ IF Found(s)
       THEN /\ row' = Written(s)
            /\ took' = IF link[s] # None /\ took[link[s]] < 2
                       THEN [took EXCEPT ![link[s]] = @ + 1] ELSE took
       ELSE UNCHANGED <<row, took>>
    /\ Finish(s)
    /\ UNCHANGED <<drawn, linkVars, redisUp>>

(* The database fails or the process dies: the transaction rolls back, a   *)
(* pending mail is never sent, a consumed link is lost.                    *)
Abandon(s) ==
    /\ pc[s] # "idle"
    /\ Finish(s)
    /\ UNCHANGED <<row, drawn, linkVars, redisUp, took>>

(* hard_delete_me, admin_delete_user.                                      *)
Delete ==
    /\ row # None
    /\ row' = None
    /\ UNCHANGED <<drawn, linkVars, redisUp, slotVars, took>>

LinkExpires(l) ==
    /\ l \in live
    /\ live' = live \ {l}
    /\ UNCHANGED <<row, drawn, purpose, owner, mailed, redisUp, slotVars, took>>

RedisFlips ==
    /\ redisUp' = ~redisUp
    /\ UNCHANGED <<row, drawn, linkVars, slotVars, took>>

SlotStep(s) ==
    \/ Register(s)
    \/ Insert(s)
    \/ Mail(s)
    \/ CommitInsert(s)
    \/ AskForLink(s)
    \/ \E l \in Links : Follow(s, l)
    \/ ChangePassword(s)
    \/ Load(s)
    \/ Commit(s)
    \/ Abandon(s)

Next ==
    \/ \E s \in Slots : SlotStep(s)
    \/ \E l \in Links : LinkExpires(l)
    \/ Delete
    \/ RedisFlips

Spec == Init /\ [][Next]_vars

-----------------------------------------------------------------------------
(* "A single token can never be used twice - important for password reset, *)
(* where an attacker who replays a reset link must NOT get a working       *)
(* session" (redis_client.py:212-214).                                     *)
LinksAreSingleUse == \A l \in Links : took[l] <= 1

(* A verified address was verified by a link mailed for this very account: *)
(* links of a registration that was rolled back, or of a deleted account   *)
(* with the same address, verify nobody else.                              *)
VerifiedByOwnLink ==
    row # None /\ row.verified =>
        \E l \in mailed : purpose[l] = "verify" /\ owner[l] = row.id /\ took[l] # 0

(* A password set through a reset link was set by a link that was mailed   *)
(* for this very account, by the one commit that the link brought about: a *)
(* link that waits for its thread to hash the password while the account   *)
(* is deleted and its address registered again takes over nobody else.     *)
PasswordByOwnLink ==
    row # None /\ row.pw \in Links =>
        /\ row.pw \in mailed /\ row.pw \notin live
        /\ purpose[row.pw] = "reset" /\ owner[row.pw] = row.id
        /\ took[row.pw] # 0
=============================================================================
