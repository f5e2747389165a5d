---------------------------- MODULE TaskCreation ----------------------------
(***************************************************************************)
(* POST /api/v1/tasks with an Idempotency-Key: create_task of the          *)
(* task-service (app/routes/tasks.py), the response cache it keeps in      *)
(* Redis (app/idempotency.py), the session that commits when the endpoint  *)
(* returns (app/database.py) and the two background tasks that run after   *)
(* the response, publish first, cache second.                              *)
(*                                                                         *)
(* A request is a coroutine; each of its awaits on Redis, PostgreSQL or    *)
(* Service Bus lets the other requests run, so each is a step.  What it    *)
(* has flushed but not committed is invisible to everyone else, so the     *)
(* insert takes effect in the step that commits.                           *)
(***************************************************************************)
EXTENDS Naturals, FiniteSets

CONSTANTS Slots,    \* requests that can be under way at once
          Users,
          Keys,     \* values of the Idempotency-Key header that clients use
          SafeKeys, \* what is left of a value in the name of a Redis key
          SafeKey,  \* value -> what is left of it
          NoKey,    \* a request without the header
          TaskIds,  \* bound: task ids that can ever be drawn (uuid4)
          None

(* idempotency_key.strip()[:128]: long keys with one beginning, or keys    *)
(* that differ in the white space around them, leave the same.             *)
ASSUME CreationAssumption ==
    /\ SafeKey \in [Keys -> SafeKeys]
    /\ NoKey \notin Keys
    /\ None \notin TaskIds
    /\ None \notin Users \X (Keys \cup {NoKey})

VARIABLES pc,        \* where each request is
          scope,     \* its <<caller_id, idempotency_key>>
          made,      \* the task it created
          row,       \* committed rows: TaskIds -> the scope that made it
          cache,     \* Redis: key -> the task whose 201 is stored
          redisUp,
          published, \* ids in task.created events that reached the topic
          answered,  \* history: <<scope, task>> of the responses received
          expired,   \* history: tasks whose stored 201 reached its 24 hours
          calm       \* environment, fixed: clients use a key again only when
                     \* the server is done with its last use, Redis answers,
                     \* no commit's reply is lost and the process lives

vars == <<pc, scope, made, row, cache, redisUp, published, answered, expired,
          calm>>

Scopes == Users \X (Keys \cup {NoKey})
Keyed(c) == c[2] # NoKey

StoreKeys == Users \X SafeKeys

TypeOK ==
    /\ pc \in [Slots -> {"idle", "lookup", "creating", "responding",
                         "publishing", "caching"}]
    /\ scope \in [Slots -> Scopes \cup {None}]
    /\ \A s \in Slots : pc[s] # "idle" => scope[s] \in Scopes
    /\ made \in [Slots -> TaskIds \cup {None}]
    /\ row \in [TaskIds -> Scopes \cup {None}]
    /\ cache \in [StoreKeys -> TaskIds \cup {None}]
    /\ redisUp \in BOOLEAN
    /\ published \subseteq TaskIds
    /\ answered \subseteq Scopes \X TaskIds
    /\ expired \subseteq TaskIds
    /\ calm \in BOOLEAN

Init ==
    /\ pc = [s \in Slots |-> "idle"]
    /\ scope = [s \in Slots |-> None]
    /\ made = [s \in Slots |-> None]
    /\ row = [t \in TaskIds |-> None]
    /\ cache = [k \in StoreKeys |-> None]
    /\ redisUp = TRUE
    /\ published = {}
    /\ answered = {}
    /\ expired = {}
    /\ calm \in BOOLEAN

-----------------------------------------------------------------------------
Goto(s, label) == pc' = [pc EXCEPT ![s] = label]

(* The request is over, and with it what its coroutine held.               *)
Finish(s) ==
    /\ Goto(s, "idle")
    /\ scope' = [scope EXCEPT ![s] = None]
    /\ made' = [made EXCEPT ![s] = None]

(* Mutants of the definitions below.                                       *)
MutUnscopedKey(c) == <<CHOOSE u \in Users : TRUE, SafeKey[c[2]]>>
MutMissAnyway(s) ==
    /\ pc[s] = "lookup"
    /\ Goto(s, "creating")
    /\ UNCHANGED <<scope, made, row, cache, redisUp, published, answered,
                   expired, calm>>
MutCommitForgetsId(s) ==
    /\ pc[s] = "creating"
    /\ \E t \in TaskIds :
        /\ row[t] = None
        /\ row' = [row EXCEPT ![t] = scope[s]]
    /\ Goto(s, "responding")
    /\ UNCHANGED <<scope, made, cache, redisUp, published, answered, expired,
                   calm>>
MutFailKeepsBackground(s) ==
    /\ pc[s] = "creating"
    /\ \E t \in TaskIds : row[t] = None /\ made' = [made EXCEPT ![s] = t]
    /\ Goto(s, "publishing")
    /\ UNCHANGED <<scope, row, cache, redisUp, published, answered, expired,
                   calm>>
MutStoreForgets(s) ==
    /\ pc[s] = "caching"
    /\ Finish(s)
    /\ UNCHANGED <<row, cache, redisUp, published, answered, expired, calm>>

-----------------------------------------------------------------------------
(* _make_key: the Redis key of a keyed scope.                              *)
MakeKey(c) == <<c[1], SafeKey[c[2]]>>

(* A request arrives.  Only a keyed one looks the cache up.  A calm        *)
(* client has seen the end of the previous use of its key, background      *)
(* tasks included (which no response tells it).                            *)
Arrive(s, c) ==
    /\ pc[s] = "idle"
    /\ calm /\ Keyed(c) =>
         \A o \in Slots : pc[o] # "idle" /\ Keyed(scope[o])
                            => MakeKey(scope[o]) # MakeKey(c)
    /\ Goto(s, IF Keyed(c) THEN "lookup" ELSE "creating")
    /\ scope' = [scope EXCEPT ![s] = c]
    /\ UNCHANGED <<made, row, cache, redisUp, published, answered, expired,
                   calm>>

(* get_cached_response found an entry: replay it.                          *)
Replay(s) ==
    /\ pc[s] = "lookup"
    /\ redisUp
    /\ cache[MakeKey(scope[s])] # None
    /\ answered' = answered \cup {<<scope[s], cache[MakeKey(scope[s])]>>}
    /\ Finish(s)
    /\ UNCHANGED <<row, cache, redisUp, published, expired, calm>>

(* No entry, or Redis does not answer: go on without protection.           *)
Miss(s) ==
    /\ pc[s] = "lookup"
    /\ ~redisUp \/ cache[MakeKey(scope[s])] = None
    /\ Goto(s, "creating")
    /\ UNCHANGED <<scope, made, row, cache, redisUp, published, answered,
                   expired, calm>>

(* The project is not the caller's (404), or the database fails before or  *)
(* at commit: the session rolls back, the background tasks are dropped.    *)
Fail(s) ==
    /\ pc[s] = "creating"
    /\ Finish(s)
    /\ UNCHANGED <<row, cache, redisUp, published, answered, expired, calm>>

(* The endpoint returns and get_db commits the new row.                    *)
Commit(s) ==
    /\ pc[s] = "creating"
    /\ \E t \in TaskIds :
        /\ row[t] = None
        /\ row' = [row EXCEPT ![t] = scope[s]]
        /\ made' = [made EXCEPT ![s] = t]
    /\ Goto(s, "responding")
    /\ UNCHANGED <<scope, cache, redisUp, published, answered, expired, calm>>

(* PostgreSQL commits but the connection breaks before it says so: commit  *)
(* raises like a failed one, with the row in the table.                    *)
CommitReplyLost(s) ==
    /\ ~calm
    /\ pc[s] = "creating"
    /\ \E t \in TaskIds :
        /\ row[t] = None
        /\ row' = [row EXCEPT ![t] = scope[s]]
    /\ Finish(s)
    /\ UNCHANGED <<cache, redisUp, published, answered, expired, calm>>

(* The 201 leaves; it may never reach the client, who then retries.        *)
Respond(s) ==
    /\ pc[s] = "responding"
    /\ \/ answered' = answered \cup {<<scope[s], made[s]>>}
       \/ UNCHANGED answered
    /\ Goto(s, "publishing")
    /\ UNCHANGED <<scope, made, row, cache, redisUp, published, expired, calm>>

(* First background task: _publish_event swallows its failures.            *)
Publish(s) ==
    /\ pc[s] = "publishing"
    /\ \/ published' = published \cup {made[s]}
       \/ UNCHANGED published
    /\ IF Keyed(scope[s])
       THEN Goto(s, "caching") /\ UNCHANGED <<scope, made>>
       ELSE Finish(s)
    /\ UNCHANGED <<row, cache, redisUp, answered, expired, calm>>

(* Second background task: cache_response, which swallows its failures.    *)
Store(s) ==
    /\ pc[s] = "caching"
    /\ cache' = IF redisUp
                THEN [cache EXCEPT ![MakeKey(scope[s])] = made[s]]
                ELSE cache
    /\ Finish(s)
    /\ UNCHANGED <<row, redisUp, published, answered, expired, calm>>

(* 24 hours after it was stored Redis forgets an entry (SETEX).            *)
Expire(k) ==
    /\ cache[k] # None
    /\ cache' = [cache EXCEPT ![k] = None]
    /\ expired' = expired \cup {cache[k]}
    /\ UNCHANGED <<pc, scope, made, row, redisUp, published, answered, calm>>

(* Faults: Redis comes and goes; the process dies and restarts, taking     *)
(* every coroutine and every pending background task with it.              *)
RedisFlips ==
    /\ ~calm
    /\ redisUp' = ~redisUp
    /\ UNCHANGED <<pc, scope, made, row, cache, published, answered, expired,
                   calm>>

Crash ==
    /\ ~calm
    /\ \E s \in Slots : pc[s] # "idle"
    /\ pc' = [s \in Slots |-> "idle"]
    /\ scope' = [s \in Slots |-> None]
    /\ made' = [s \in Slots |-> None]
    /\ UNCHANGED <<row, cache, redisUp, published, answered, expired, calm>>

RequestStep(s) ==
    \/ \E c \in Scopes : Arrive(s, c)
    \/ Replay(s)
    \/ Miss(s)
    \/ Fail(s)
    \/ Commit(s)
    \/ CommitReplyLost(s)
    \/ Respond(s)
    \/ Publish(s)
    \/ Store(s)

Next ==
    \/ \E s \in Slots : RequestStep(s)
    \/ \E k \in StoreKeys : Expire(k)
    \/ RedisFlips
    \/ Crash

Spec == Init /\ [][Next]_vars

-----------------------------------------------------------------------------
(* "Events never fire before the DB transaction is durable" (tasks.py:16): *)
(* every task.created event names a committed row, in every interleaving   *)
(* of requests, failed commits and crashes.                                *)
EventsAreDurable == \A t \in published : row[t] # None

(* Two uses of one key, as far as a key can be told from others: by the    *)
(* same user, and alike once stripped and cut to 128 characters.           *)
SameUse(c, d) ==
    Keyed(c) /\ Keyed(d) /\ c[1] = d[1] /\ SafeKey[c[2]] = SafeKey[d[2]]

(* What Redis replays to a user is a committed task that this user made    *)
(* under a key that is alike once stripped and cut ("no cross-user         *)
(* collision is possible", idempotency.py:112), and an answer that a       *)
(* client receives names its own request's task or one of those.           *)
ReplaysAreOwn ==
    /\ \A u \in Users, k \in SafeKeys :
          cache[<<u, k>>] # None =>
            \E c \in Scopes : /\ row[cache[<<u, k>>]] = c
                              /\ c[1] = u /\ Keyed(c) /\ SafeKey[c[2]] = k
    /\ \A a \in answered : row[a[2]] = a[1] \/ SameUse(row[a[2]], a[1])

(* "The server returns the original 201 response without creating a second *)
(* task.  Keys are valid for 24 hours" (tasks.py:228-229): one key of one  *)
(* user makes at most one task before a stored response of it expires.     *)
AtMostOneTaskPerKey ==
    \A t, u \in TaskIds \ expired :
        row[t] # None /\ row[t] = row[u] /\ Keyed(row[t]) => t = u

(* In a calm environment the promise holds, also between keys that are     *)
(* alike once cut: until an entry expires there is one task under it, and  *)
(* all answers that a client gets for the key name this task.  The lookup, *)
(* the commit and the store of one request are then never separated by     *)
(* another of its key.                                                     *)
CalmRetriesAreOneTask ==
    calm =>
      /\ \A t, u \in TaskIds \ expired :
            row[t] # None /\ row[u] # None /\ SameUse(row[t], row[u]) => t = u
      /\ \A a, b \in answered :
            SameUse(a[1], b[1]) /\ {a[2], b[2]} \cap expired = {}
              => a[2] = b[2]
=============================================================================
