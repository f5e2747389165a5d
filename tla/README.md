# Formal models of the task-management platform

TLA+ specifications of the platform's services, TLC configurations that check
them on small instances, and TLAPS proofs of theorems about them for every
instance. `src/` is the repository; `S` stands for
`src/services`, where each service keeps its code in `app/`.

    tlc -config Gateway.cfg MCGatewayProxy     # any <run>.cfg with its MC module
    tlapm GatewayProofs.tla                    # any *Proofs.tla

## 1. The system

A client talks to an **API gateway** (FastAPI, two to ten replicas), which
admits, authenticates and forwards its requests to a **user-service**
(accounts, sessions), a **task-service** (projects, tasks) and a
**notification-service** (server-sent events). The user- and task-service keep
rows in PostgreSQL (one transaction per request, READ COMMITTED) and short-lived
keys in Redis. The task-service publishes events to Azure Service Bus, whose
subscriptions the notification-service consumes. Beside them a **chaos
simulator** runs failure scenarios over a mock of the cluster.

Each service is one asyncio event loop per process: code between two awaits is
atomic, and everything that was read before an await may be stale after it. This
is the granularity of all models here: *a step is the code between two awaits*.
What makes the system hard is therefore not threads but (a) requests that
overlap at their awaits, (b) Redis, Service Bus and upstreams that fail and come
back, some failures being swallowed on purpose, (c) replies and messages that
are lost or delivered twice, and (d) several replicas that share a store.

### Inventory

| Component | State | Operations that change it | Interacts with | Hard behaviour | Correct when |
|---|---|---|---|---|---|
| Circuit breaker `S/api-gateway/app/circuit_breaker.py` | `_state`, `_failure_count`, `_last_failure_time` | reading `state`, `record_success`, `record_failure` | shared by all requests to one upstream; read by the readiness probe | late results of requests admitted in another state | counts are consistent, an open circuit cools off and is left again |
| Gateway proxy `app/routes/proxy.py` | attempts of each request | dispatch, retry with backoff, SSE pass-through, cancellation | breaker, upstream over httpx | retries, overlapping requests, clients that leave | only GETs are sent again, an outage is survived |
| Rate limiter `app/middleware/rate_limiter.py` | lazily chosen store; Redis sorted sets or memory buckets | check of the address's and then the user's bucket | Redis, other replicas | concurrent resolution, Redis failures, late checks, eviction | no key passes more than its limit per window |
| JWT auth and key rings `S/_shared_jwt_keyring.py`, `app/middleware/auth.py` | key ring per process, tokens at clients | sign, verify, publish settings, restart | user-service signs, gateway verifies | rotation of keys over a fleet that restarts pod by pod | no token breaks before it expires |
| Identity signing and roles `S/_shared_identity_signing.py`, `app/routes/users.py` | signed headers under way; roles in row, token and identity | sign, verify, promote, demote, deactivate, delete | gateway, all backends | roles are copied three times and never looked up again | a lost role ends within a bound; only a slow body, slow attempts or retries make an identity stale |
| Body limit, correlation, security headers | per-request data | | | none across requests | |
| Account sessions `S/user-service/app/routes/auth.py`, `users.py`, `redis_client.py` | account row, `login_fail:` counter, `refresh:` tokens, `_client` | login, refresh, logout, deactivate, delete | PostgreSQL, Redis | overlapping refreshes, stale account data, Redis outages, lost replies | a session has one token and never comes back; a lockout ends |
| Account registration (same files, `email.py`) | user row, `verify:`/`reset:` links | register, verify, resend, forgot, reset, change password, delete | PostgreSQL, Redis, SMTP | mail before commit, links of rolled-back rows, overlapping commits | a link works once, and verifies or resets its own account only |
| Task creation `S/task-service/app/routes/tasks.py`, `idempotency.py` | rows, idempotency cache | create | PostgreSQL, Redis, publisher | retries, keys cut to the same, expiry, failed commits and lost replies, crash between commit and cache | no event without a row, no foreign replay, no duplicate before the stored response expires |
| Task changes `routes/tasks.py` | task row | update, delete | PostgreSQL, publisher | two transactions on one row | every committed status change is announced |
| Event publisher `routes/tasks.py` | `_sb_sender`, `_sb_client` | get, reset, send, close at shutdown | Service Bus | concurrent failures and resets | no sender leaks, events flow again after an outage |
| Listings `app/pagination.py` | none (the client's cursor) | page | PostgreSQL | rows that appear and disappear during a walk | nothing returned twice, nothing skipped |
| Notification consumer `S/notification-service/app/consumer.py` | receivers, message locks | receive, handle, complete, abandon, restart | Service Bus, broadcaster | lock expiry, competing pods, partial failure | every message is settled |
| Broadcaster and streams `broadcaster.py`, `routes/stream.py` | queues per stream | subscribe, broadcast, take, clean up | consumer, clients | full queues, disconnects | at most once, only to whom it concerns |
| Chaos simulator `S/chaos-controller/app/cluster.py` | pods, health, metrics, lock, scenario mode | 23 actions, scenarios, ambient loop | event hub | overlapping actions | everything is mended at rest |
| Chaos event hub `app/events.py`, `app/main.py` | subscriber queues | subscribe, greet, publish, deliver, unsubscribe | simulator, browsers | full queues, browsers that leave at any point | who is in the hub misses nothing and nobody lingers |
| Projects, admin listing, audit, configuration, migrations, deployment, front end, tests | rows, files | single statements, declarations | | none of its own | |

`PROJECT.json` has the same list with the source files and a status each, and
every hazard found so far at its line.

## 2. Modules

Each component has a module with its state, one action per handler step, `Next`,
`Spec` and, where liveness is checked, `FairSpec`. `MC*` modules only give
constants their values; `*Proofs` modules only hold theorems.

    CircuitBreaker <- GatewayProxy, RateLimiter <- GatewayProofs
                                                             refines BreakerStateMachine
    TaskCreation, CursorPagination <- TaskServiceProofs
    EventPublisher <- EventPublisherProofs
    AccountSessions <- AccountSessionsProofs
    AccountRegistration <- AccountRegistrationProofs
    TaskEvents <- TaskChanges, Notifications <- EventPipeline <- EventPipelineProofs
                                                             refines BestEffortDelivery
    KeyRotation <- Authentication <- AuthenticationProofs
    ChaosScripts <- ChaosCluster, EventHub <- ChaosController <- ChaosControllerProofs

Definitions that start with `Mut` are deliberate slips in the definition that
follows them, kept so that each property can be seen to fail on one of them.

Some modules have a variable that never changes after `Init` and stands for an
assumption on the environment or a bound: `serial` (gateway: requests come one at a
time), `calm` (task creation: clients wait, Redis answers, no commit's reply is lost, nothing
crashes),
`steady` (sessions: Redis never fails), `apart` (publisher: sends do not
overlap), `manual` (chaos: no scenarios), `watched` (chaos: there are browsers,
and few kinds of runs). `Init` allows both values, so one specification has both
environments, and a property such as `calm => ...` is checked, and can be
proved, where it is meant to hold.

### CircuitBreaker, GatewayProxy (with BreakerStateMachine)
`CircuitBreaker` has the three fields of the class; `CurrentState` is the
`state` property, `ReadState` a read of it (which stores what it returns),
`RecordSuccess` and `RecordFailure` the two methods. Two unbounded quantities
saturate at what they are compared with: the failure count at
`FailureThreshold`, the age of the last failure at `RecoveryTimeout`.
`GatewayProxy` composes it with the requests of one upstream. `pc` is where the
coroutine of `_dispatch_with_retry` or of the SSE generator waits: `sending`,
`backoff`, `streaming`. `Receive` is `is_open()` and the start of the first
attempt; `TransientFailure`, `Resend`, `GiveUp`, `Answered` are the retry loop;
`EndsUnrecorded` is cancellation and the httpx errors nobody catches.
`healthy` says whether the upstream answers. `BreakerStateMachine` is the diagram
of the class's docstring; `FollowsDiagram` says that requests that come one at a
time implement it. With overlapping requests they do not: the success of a
request admitted earlier closes an OPEN circuit.

### RateLimiter
Several replicas, each with the `_store` it resolves on first need (`Arrive`,
`Resolve`: the ping and its outcome, also by several requests at once), the
Redis sorted sets, and memory buckets with their eviction by least recent use.
A check in Redis is two steps, because the time stamp is taken when the pipeline
is built (`SendToRedis`) and the pipeline runs later (`CountInRedis`); a check in
memory is one. A request is counted for its address, then for its user;
`FailOpen` is the path on which Redis raises. `ran`, `open` and `fresh` are
history for the property.

### AccountSessions
One account. A slot is a request: `Login` (lockout check), `FetchLogin` (row and
bcrypt), `Reject`/`RejectDeactivated`/`Accept`, `Issue` (new refresh token),
`Respond`; `Refresh` (GETDEL of the old token), `FetchRefresh`, `Issue`,
`Respond`; `Logout`, `Deactivate`, `Delete` as single steps; `WindowEnds` and
`TokenExpires` are Redis's expiry; `CommitFails`, `Abandon` and `RedisFlips` are the
faults. `connected` is the module's `_client`, whose absence makes the code skip
Redis while a client that fails later raises. A session is named by the token that
its login issued (`origin`), which is how "one session" can be said at all.

### AccountRegistration
The row of one address and the Redis keys of its links. `Register`, `Insert` (the
flush, which waits for another uncommitted insert), `Mail`, `CommitInsert`;
`Follow` (GETDEL of a link), `Load`, `Commit`; `ChangePassword`, `AskForLink`,
`Delete`. An UPDATE writes the columns its request assigned and no others
(`Written`), and is refused if the row it loaded is gone (`Found`): a link followed for
an account that is deleted meanwhile must not touch the next account of the address. Of
two commits that write the same column the later wins.

### TaskCreation
`Arrive`, `Replay`/`Miss` (the cache lookup), `Commit`/`Fail`, `Respond` (which the
client may not receive), `Publish` and `Store` (the two background tasks, in
order). `get_db` commits after the endpoint returns and before the response is
sent, and background tasks run after the response; uncommitted rows are invisible,
so the insert takes effect at `Commit`, or at `CommitReplyLost`, after which the
request fails all the same. `Crash` drops every coroutine. A response is stored under
the user and what is left of the key once it is stripped and cut to 128 characters
(`MakeKey`; the constant `SafeKey` says which keys are alike), and `Expire` forgets it
after 24 hours. `expired` is history: the tasks of which a stored response has expired.

### CursorPagination
A table that changes at will between the pages (`Appear`, `Disappear`), with rows
ordered by `(created_at, id)`, and one client's walk. `Fetch` is the query with
`limit + 1` rows and `make_cursor_page`, including that the cursor encodes the
first item it does *not* return.

### EventPublisher
The shared sender. `Publish` is `_get_sender` and the start of a send,
`FailAndReset` the exception handler with `_reset_sender` up to the await of
`close()`, `CloseEnds` the rest; `Shutdown` is `close_sender`, which the server
calls when no background task is left, and which has two ends: sender and client are
closed, or the sender's `close()` raises, nothing catches it, and the client is never
told. `Start` is the next process, whose globals are its own. The
behaviour of a sender on a failed bus or while being closed is external and
taken from how the code handles it.

### TaskChanges, Notifications, EventPipeline (with TaskEvents, BestEffortDelivery)
`TaskChanges` is `update_task` and `delete_task` on one task: `Load`, `Flush` (the
UPDATE, with the row lock, and the decision what to publish), `CommitUpdate`,
`CommitDelete`, `Fail`. `Notifications` is the pods' receivers on the subscription
(`Receive`, handling, completing, broadcasting, abandoning, the end of a receiver, the
restart of all of them), Service Bus's locks and dead-lettering (external), and the
streams with their bounded queues. `EventPipeline` joins them by `_publish_event`
and is shown to implement `BestEffortDelivery`: a client is told only of
committed changes that concern its user, of each at most once, of any subset, in
any order.

### KeyRotation, Authentication
`KeyRotation` has the settings that are published (`day`, the four steps of the
choreography in `jwt_keyring.py`) and those that each pod read when it last
started (`boot`): `Publish`, `Restart`, and `ParseKeyring`,
`SelectVerificationKey` as in the code. A pod may restart at any time, planned or
not. `MayPublish` is what the operators have to wait for: that every pod knows
the new key before anybody signs with it, and one token life before the old key
goes. `Authentication` adds the account's role on its way: the row (`standing`),
a login that has read it (`ReadUser`, `Issue`), the token a client holds, a
request that the gateway has admitted (`Admit`), signed (`SignIdentity`) before it
awaits the body, and sends (`Send`), perhaps more than once (`Retry`), and the identity on its way to a backend, also when
the gateway has given up (`GatewayEnds`, `Vanish`). `VerifyIdentity` is the
backend's check and `MayAdminister` what it lets through; `PromoteSelf`,
`LeaveService`, `Promote`, `Demote`, `DeleteUser` are the commits it leads to.
`ago` is history: how long ago the row last had the role. `Tick` lets time pass,
unless a login or a request has waited for `Delay` before its signature. Nothing
bounds the wait for the body, nor an attempt: httpx's timeouts are those of single
reads, and a stream has none. `overrun` is history: how long the body took, and
attempts beyond `AttemptTime`.

### ChaosScripts, ChaosCluster, EventHub, ChaosController
Each of the 23 actions as a script: a sequence of steps between sleeps, a step
being a set of effects on pods, health and metrics; and the ten scenarios as
sequences of actions. `ChaosCluster` runs scripts
(`Trigger`, `Begin`, `Acquire`, `Step`, `Wake`, `Finish`, the conditional lock
included), scenarios (`StartScenario`, `EndScenario`), and the ambient loop. A
metric is the set of runs whose change is still in it, so that "mended" means empty.
`EventHub` is the hub and the `/stream` endpoint with the states that its generator
passes through; an event is a snapshot or anything else (`Other`).
`ChaosController` joins them: what a step narrates goes to every queue (`Narrated`,
`Narrate`), and each round of the ambient loop ends with a snapshot (`Poll`).

## 3. What the runs show

Passing runs:

| Run | Shows | Instance |
|---|---|---|
| `gateway` | `BreakerInv`: the circuit is closed exactly below the threshold, an open one has a timer, a half-open one is rested. `CooldownRespected`. `FollowsDiagram` for serial requests. `RetrySafety`: only GETs are sent again, within the budget. Live: `CircuitRecovers`: an open circuit is left, and a healthy upstream closes it | 3 requests, threshold 3, recovery 2 ticks, 3 attempts |
| `limiter` | `NeverOverLimit`, up to what memory buckets and failures let through | 3 requests, 2 replicas, 2 failures, window 3 |
| `authentication` | `TokensSurviveRotation` whatever restarts when; `StaleAuthorityIsBounded`: a role that the row has lost is exercised for at most token life + identity age + the two delays before signing; `StaleOnlyIfSlow`: an attempt is refused as stale only if the body, slow attempts and retries have used up the identity's age | 2 gateway pods, 2 signers, 1 request, token life 3, identity age 1, 2 attempts, delays 1 |
| `sessions` | `OneTokenPerSession`, `DeadStaysDead`, `OneLateResponse`, `BoundedOvershoot`; live: `LockEnds` | 2 requests, 3 tokens, threshold 2 |
| `registration` | `LinksAreSingleUse`; `VerifiedByOwnLink` and `PasswordByOwnLink`: no link of another account of the address has an effect on this one | 2 requests, 2 user ids, 3 links |
| `creation` | `EventsAreDurable`, `ReplaysAreOwn`; in a calm environment `CalmRetriesAreOneTask`, until an entry expires | 2 requests, 2 users, 3 keys of which 2 are cut to the same, 2 tasks |
| `cursor` | `PagesDescend`, `OnlyBoundaryRowsLost` | 6 possible rows with ties, pages of 2 |
| `publisher` | `NoConnectionLeaks`, shutdown included, but for a close that raises there; live: `EventsFlowAgain`: a broken sender is replaced, and sends work again after an outage if they do not overlap | 3 publishers, 4 senders |
| `pipeline` | `EveryChangeIsAnnounced`, `DeliveryIsBestEffort` (refinement); live: `EventuallySettled` | 2 requests on one task, 2 pods with 3 receivers, 1 stream with a queue of 1, 2 deliveries, 1 crash |
| `chaos` | `MendedAtRest`, `PodsOutnumberSwaps`, `StreamsMissNothing`; live: `EveryRunEnds`, `SubscribersServedOrDropped` | without browsers: any 2 of the 23 actions on one service by hand; each of the ten scenarios, those of two steps also overlapping, those of up to three beside a `kill_pod`. With one browser and a queue of 2: two `kill_pod` by hand |

Runs that find a disagreement between the code and what it says of itself:

| Run | The code says | What happens |
|---|---|---|
| `creation_retry` | "retry with the SAME key. The server returns the original 201 response without creating a second task" (`tasks.py:227-229`) | the key is stored by the second background task, after the response and after the publish: an earlier retry makes a second task |
| `cursor_skip` | "Cursor pagination is immune to both defects" (`tasks.py:322-323`), "The cursor encodes the last item returned" (`pagination.py:18-19`) | the cursor encodes the first item *not* returned, and the next page starts strictly below it: one row is lost per page boundary |

### Bounds, and why they are enough
* *Requests.* Two overlapping requests show every pairwise race; the gateway has
  three, so that one can be admitted in CLOSED, one as a probe and one in between,
  and the publisher three, so that one sends while two reset. Slots are reused, so
  the number of requests over time is unbounded (except in `RateLimiter` and
  `EventPipeline`, where a request is its own history).
* *Threshold 3 / recovery 2 / attempts 3*: several failures below the threshold,
  a rested and an unrested open circuit, a first, a middle and a last retry.
* *Tokens 3*: two generations of one session and a second session at once.
  *Users 2, links 3*: an account, its successor with the same address, and a
  link of each kind for one of them.
* *Tasks 2*: two are what it takes to duplicate one or to answer with another's;
  `creation_retry` has 3. Two users and three keys, two of them alike once cut, are what
  it takes to mix up scopes and keys.
* *Rows*: three times and two ids give ties in `created_at`; pages of two give
  boundaries at a tie and between ties. `cursor_skip` has pages of one, for the
  shortest counterexample.
* *Senders 4*: one per publisher and the current one. A sender that nobody refers
  to is reused, so the number of reconnections is unbounded.
* *Authentication*: two pods of each kind are what it takes for old and new settings to be
  at work side by side; tokens and requests do not meet each other, so the client
  holds any one token of those it was given and has one request, while the row changes by
  its own hand and by others'. Token life 3, identity age 1, two attempts meant to
  take one tick: an identity is refused in the last attempt, or in the first after a slow
  body, and a token outlives the demotion, a step of the rotation and a restart.
* *Deliveries 2, crashes 1, queue 1*: one redelivery before the dead-letter queue;
  one message fills the queue and the next overflows it.
* *Rate limiter*: limits 2 (address) and 1 (user) are exceeded by three requests;
  window 3 with checks up to 1 tick late lets a hit slide out; one tracked key makes
  every second key evict; two failures are one for each replica's ping or check.
  The run stops when its requests and ticks are used up, and so does `pipeline` when
  its messages are settled and `chaos` when its runs are: these three do not check
  for deadlock.
* *Chaos*: two by hand meet in every pair of actions; four runs in all hold the longest
  scenarios. Browsers only watch one kind of run: what the hub does depends on when
  events and snapshots come, not on what they are about. A queue of 2 holds an event
  and a snapshot, and overflows with the next.

### Fairness
* Gateway: time passes; httpx bounds every buffered attempt by a timeout, so an
  attempt ends (streams need not); sleeping coroutines wake; clients keep sending. The
  one strong fairness says that of the requests the upstream answers, not every one
  is abandoned by its client just before; without it no breaker can ever learn of a
  recovery.
* Publisher: requests keep coming, and the SDK bounds `send` and `close` by timeouts. Sessions: Redis removes keys that
  carry an expiry. Nothing is assumed of clients there.
* Pipeline: receivers and the supervisor that restarts them run, and Service Bus
  releases expired locks. Nothing is assumed of commits, publishes or streams.
* Chaos: asyncio runs ready tasks and wakes sleeping ones (`RunsGoOn`, one condition
  on all runs together, since they are finitely many and each ends), and the ambient
  loop goes round (`WF_stream(Poll)`). Nothing is assumed of browsers: those that do not
  read must be dropped.
* Faults are never fair: Redis, the bus and upstreams need not fail nor recover.

## 4. What is proved

TLAPS proves the following for every value of the constants that satisfies the
named assumptions (`BreakerAssumption`, `ProxyAssumption`, `CreationAssumption`,
`SessionAssumption`, `RegistrationAssumption`, `RotationAssumption`,
`AuthenticationAssumption`, `PublisherAssumption`, `EventsAssumption`,
`ChangesAssumption`, `NotificationsAssumption`, `PaginationAssumption`, `LimiterAssumption`,
`ClusterAssumption`, `HubAssumption`), all of which say
only that thresholds and limits are naturals of the right sign, that finitely many requests
are under way at once, that `None` and the like are not data, that functions among the constants have the sets they speak of as their
domains and ranges, and that no pod is both a gateway and a signer.

* **GatewayProofs**, gateway: `TypeCorrect`, `BreakerConsistent`, `RetriesAreSafe`,
  `CooldownIsRespected`, `SerialFollowsDiagram`. `BreakerInv` is inductive together
  with the type invariant: each conjunct needs the others, since a success must reset
  count, timer and state together. `CooldownIsRespected` uses it in the
  half-open case, where the stored state alone says nothing of the timer.
  `SerialFollowsDiagram` adds that a serial request is alone, so that a result
  is recorded in the state in which its request was admitted or one that the diagram
  allows.
* **GatewayProofs**, rate limiter: `LimitIsKept`. `LimiterInv` says that a hit in a store is
  there under its own key at the time its request ran (`Carries`), and `CountInv` numbers the
  places a key was counted in, Redis 0 and its memory buckets from 1: every request that
  passed is a hit of the place with its number, still in it or slid out of every window it
  could share with a later one (`KeptInRedis`, `KeptInMemory`), and of the hits of one
  place in one window at most the limit were let through (`Limited`). Requests that passed
  in one stretch can then be mapped one to one into places x 1..limit, which is the bound
  (`ManyBuckets`).
* **TaskServiceProofs**, creation: `NoEventBeforeCommit` and `NoForeignReplay` from an invariant
  (`DurableInv`) that follows the id from the commit to the background tasks: a
  request past its commit holds a row that its own scope made, so that what it stores is
  a task of its user under a key cut to the same (`EntriesOwn`, `AnswersOwn`).
  `CalmClientsNeverDuplicate` needs a second one (`CalmInv`), per entry of the cache: at
  most one request that it serves is under way; a row of it that has not expired and that
  nobody is working on is stored; and a request past its lookup has not yet made a row.
  Both hold for any `SafeKey`, that is, for any way of cutting keys. That the row of a
  request which has not stored its response cannot have expired is a lemma of its own
  (`NotStoredYet`).
* **TaskServiceProofs**, listing: `WalkDescends` and `LossIsBounded`, from an invariant
  (`WalkInv`): during a walk every row seen is newer than the cursor, and a row that was
  there all along and is not yet seen is older than the cursor or was a boundary. Its
  algebraic part is that `Before` is a strict total order.
* **AccountSessionsProofs**: `SessionsNeverBranch`, `EndedSessionsStayEnded`,
  `LateResponsesAreBounded`, from `TokenInv`: a token's origin is drawn, a refresh under
  way carries a drawn session, and a session has one carrier, in Redis *or* in a
  request. The GETDEL is what moves it atomically from one to the other.
  `OvershootIsBounded` from `OvershootInv`: the failures counted and the logins past the
  check that may still count one add up to less than the threshold and the slots, since
  the check admits a login only below the threshold.
* **AuthenticationProofs**: `RotationIsSafe` from `RotationInv`: what is published bounds
  what pods have read; before the new key signs every ring has it; and once no signer
  uses the old key, the remaining life of an old token and the time waited add up to one
  token life at most, so that the old key goes when they are dead. `AuthorityEnds`
  from `AuthorityInv`: whatever still says "admin" (a login, the token, an admitted
  request, an identity) bounds, by its own age, how long ago the row did; the bounds
  add up to `StaleBound`. `StaleOnlyIfSlowOrRetried` from `AgeInv`: an
  identity's age, up to the point where it saturates, is at most the overrun and
  `AttemptTime` for each attempt made.
* **AccountRegistrationProofs**: `LinksWorkOnce` and `VerifiedByItself` from an invariant
  in which a link is undrawn, live in Redis, carried by one request only, or used up
  (`CarryInv`, `LinkInv`), and in which one insert is under way at most, and only while
  there is no row (`InsertInv`): that is what keeps the links of a rolled-back
  registration from the next account's. `ResetByItself` says the same of reset
  links, from the same invariant, and that the link is spent: the commit that writes a
  password knows the owner of its link, and what was used is never live again
  (`UsedLinksStayDead`).
* **EventPublisherProofs**: `ConnectionsAreClosed` from `CloserInv`: a sender that
  somebody closes is open, is not the shared one and has no second closer, and every open
  sender that is not shared is being closed. It holds because `_reset_sender` takes the
  sender out of the globals in the step in which it begins to close it. The one exception
  is in the theorem: a shutdown on which the sender's `close()` raises.
* **EventPipelineProofs**: `ChangesAreAnnounced` from `FlushInv`: an UPDATE that is
  flushed is alone with the row, and its event names the status it is going to write.
  `DeliveryRefines`, that the pipeline implements `BestEffortDelivery`, from `BusInv`:
  what is on the bus was committed (`OnBus`); a receiver that pushes a message has
  completed it, is the only one that does, and nobody has heard of it yet (`AtWork`); what
  was pushed is completed (`WasTold`). It is the completion *before* the push that makes
  delivery at most once when locks expire and pods die; nobody is twice among the
  targets of an event (`OneCopy`).

* **ChaosControllerProofs**, hub: `SubscribersMissNothing` and `QueuesAreBounded` from
  `HubInv`. Its part `Waits` says that the last snapshot in a queue is the latest one
  published, and that only an open stream may have read it; a full queue leaves the
  hub rather than lose an event, which is what the conjunct rests on.
* **ChaosControllerProofs**, cluster: `EverythingIsMended` (that is `MendedAtRest`) for any
  actions, scenarios and number of runs. It has three parts.
  * *The scripts.* What all 23 have in common (`WellBehaved`, `ScriptsBehave`): what they
    make sick they make well later, what they raise they clear later, they divide a metric
    only right after raising it, and they save a metric before they change it. To the pods
    of a service they do one of four things (`PodPlan`, `EveryScriptHasPlan`): nothing, swap
    one for a new one, add two, or cut every other one and refill.
  * *Any environment.* `RunsInv`: a service that is not healthy has a run at work that is
    still to make it well (`SickHaveHealers`). Overlapping runs of scenarios keep it, since a
    step that makes a service well never harms the others' claims on it.
  * *Runs by hand.* `ManualInv`: one run is at work at most, the holder of the lock; a change
    in a metric is its own and is still to be cleared, and what it has saved is the
    baseline (`CellKept`). `PodsInv`: how far the holder has come in its plan fixes what is
    down (`SwapStage`, `GrowStage`, `CutStage`): the pod it has picked, the ones it has
    added, or what the cut took. This is where the lock is
    needed: with two runs at work, what one has saved may hold the other's change.

  `TypesAreKept` says, in any environment, that every variable keeps its type and that no
  two pods of a service share a name: the pods a run has made belong to steps it has done
  (`PodsNamed`), and no script refills a service twice or after adding to it.

  `PodsOutlastOutages` says, also in any environment, that a service never runs out of pods. By
  itself that is not inductive; `PodsOutnumberSwaps` is: a service has more pods than
  there are runs between the two halves of a swap, the one that adds the new pod and the one that
  takes the old away. A swap adds one to both sides and takes one from both, or, where an
  outage has taken its pod, from the count of swaps only; two pods that the HPA adds and the
  cut leave the count of swaps alone (`Balanced`, `EveryStepIsBalanced`). Only the refill at the end
  of an outage can take away pods while swaps stay under way, and leaves `Desired` of them.
  Hence the condition `FewSwaps`: it meets fewer swaps of the service than that.
  All states of the run `chaos` satisfy it. By hand it always holds, as one run is at work at most
  (`PodsKeptByHand`). Without it the property fails: a run that swaps pod x for y
  loses y when an outage cuts both, another run brings x back as its own new pod, the refill
  drops y, and `replace` then removes x all the same. With one pod desired, five
  such swaps and four outages suffice to leave a service with none.

*Only proved:* the types of a walk (`WalkTypeOK`) and of breaker and dispatcher (`TypeOK` of
`GatewayProxy`), which the runs `cursor` and `gateway` do not repeat.

*Only model-checked:* all liveness (`CircuitRecovers`, `EventsFlowAgain`, `LockEnds`,
`EventuallySettled`, `EveryRunEnds`, `SubscribersServedOrDropped`), which is
out of the prover's reach under fairness.

## 5. Known deviations

Besides the two findings above, these differences between code and text came up while modelling.
They are listed, each at its line, under `hazards` when a behaviour depends on them.

* *Breaker.* "One probe" (`circuit_breaker.py:19,50`): every request that arrives in
  HALF_OPEN is admitted. A late success closes an OPEN circuit.
* *Publisher.* "Future events flow again as soon as Service Bus recovers"
  (`tasks.py:199-200`) needs `apart`: a publisher whose send fails takes out whatever
  sender is current by then (`tasks.py:148`). When sends overlap, one that fails on a
  sender shut under it resets the healthy one that others are sending on, who fail in
  turn, and under an unlucky schedule this goes on without end.
  At shutdown `close_sender` is meant to "drain and close the shared sender"
  (`tasks.py:165`); if the sender's `close()` raises, the client is not closed, both handles
  stay, and the rest of `lifespan` (`main.py:39-40`) is skipped.
* *Task creation.* Keys are cut to 128 characters (`idempotency.py:116`): two long keys of one
  user with the same beginning are one key, and the second request is answered with the
  first one's task. A commit whose reply is lost fails the request with the row in place,
  so that its retry makes a second task.
* *Lockout.* The docstring (`auth.py:190-195`) does not mention that a success that was
  already under way resets the counter of a locked account. A Redis that fails after
  connecting turns logins into 500s, against `redis_client.py:49-50`.
* *Registration.* The verification mail leaves (`auth.py:174`) before the commit, against
  `auth.py:163-165`. `reset_password` says that it revokes all refresh tokens
  (`auth.py:448-450`), and so does `hard_delete_me` (`users.py:103`); neither does
  (`auth.py:471-477`, `users.py:127`). A profile update with a new
  password (`users.py:57-73`) that was loaded before a reset may commit after it, and the
  password of the reset is gone.
* *Rate limiter.* No per-request fallback: it fails open, against its docstring
  (`27-31`); a replica that starts while Redis is down keeps its memory store for good.
* *Task changes.* A PATCH decides on the row it loaded: it may announce a status again,
  and a status equal to the stale value is silently not written (`tasks.py:380-388`). Two
  DELETEs of one task both return 204 and both publish.
* *Consumer.* A receiver that ends waits for all the others before they restart. A lost
  reply to `complete` means that the message is never broadcast; a failing `complete` after the
  notifier ran means that it runs again. A stream only hears what its own pod consumes.
* *Authority.* An access token stays good after a demotion, deactivation or deletion until
  it expires (`auth.py:280` says so of logout); event streams, which check it once, may
  outlive it. A demoted admin's token still lets them promote themselves
  (`users.py:185`); two admins can demote each other at once, since only one's own
  demotion is refused.
* *Chaos.* `EventHub` unsubscribes a slow subscriber for good (`events.py:67-71`) where it
  says that it drops events (`events.py:59-60`); its stream stays open and carries
  keep-alives only. The greeting of `/stream` is newer than what is already queued, so
  that the screen may step back until it has caught up, and `/stream` subscribes
  before its generator runs (`main.py:101`): a browser that is gone by then stays in the
  hub until its queue is full. The first of two overlapping scenarios to finish clears
  `_scenario_mode`. `cpu_pressure` never scales down again and never restores the request
  rate, and its `pods[-2:]` may name pods of another action. "Recovery complete N/N" can be
  false when actions overlap. `max_events_per_minute` is never enforced.
* *Gateway.* The comment on the order of the middleware (`main.py:100-101`) is wrong: the
  requests pass metrics, body size, JWT, correlation, rate limiter, CORS, headers. The
  body limit calls the endpoint with a truncated body before its 413
  (`body_size.py:120-128`). An identity signature is made once, before the body is
  read (`proxy.py:271-272`), and reused by the retries: after two timeouts of 30 s the third
  attempt is older than the 60 s that backends accept, and so is the first one of a
  client that took that long to send its body. The promise of a rolling rotation (`identity_signing.py:43-45`) does not
  hold, because each side has one secret: until the last pod is replaced, those of
  different sides answer each other with 401.

## 6. Not modelled

* *Body limit, correlation, security headers*: middleware whose state is one request's; no
  module has request bodies. That the body limit calls the endpoint before it answers 413
  is a hazard without a property.
* *Authentication*: malformed tokens, public paths, wrong algorithms and the encoding of
  keys and signatures: a signature is good when it was made with the same secret. Clocks
  are one. The replacement of the identity secret: see the known deviations.
* *Headers, bodies, formatting, logging, metrics, tracing, settings, validation*: no
  property here depends on them.
* *Projects, admin listing, audit*: one statement on one row each. Task creation does not
  look at a project's `is_active` (`_get_owned_project`), so tasks can still be added to a
  project after its soft delete.
* *LiveCluster* of the chaos simulator: calls to Kubernetes that fall back to the mock.
* *Migrations, Helm, Terraform, Kubernetes, monitoring, front end, tests*: declarative, or
  no state of the system; read for replica counts, `max_delivery_count` and expected
  behaviour.
* *A service without pods* in the simulator: the runs that would pick one return early or skip it
  (`cluster.py:251`, `:712`, `:866`), which the scripts leave out. No run of section 3 gets there
  (`PodsOutnumberSwaps`), and section 4 says what it would take.
* *A new pod's phases*: in `kill_pod` the replacement goes from Pending to ContainerCreating
  to Running (`cluster.py:297-321`); the scripts leave the middle phase out, as it is a pod
  that is not ready like the first.
* *Time* is a tick counter where ages are compared and nondeterminism elsewhere; clocks of
  replicas do not drift.

## 7. Plan

Done, in the order of importance: gateway and breaker; task creation; cursor; publisher;
sessions; registration; the event pipeline with its abstract specification; chaos; rate
limiter; key rotation, authentication and identity; the event hub and its composition with
the simulator; and the proofs of section 4, which now reach every module.

Next, the model:
1. Sessions and registration joined: a reset or deletion against open sessions.
2. The pipeline with two tasks and the publisher's faults in place of its one-step publish.

Next, the proofs: with the first of these, that a deleted account has no open session where
the code closes them.
