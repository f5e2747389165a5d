----------------------------- MODULE ChaosCluster -----------------------------
(***************************************************************************)
(* The chaos controller's MockCluster (app/cluster.py): the runs of its    *)
(* actions, triggered by hand or as the steps of a scenario, over the      *)
(* simulated services.  A run that starts while the scenario flag is down  *)
(* waits for a lock; one that starts while it is up does not.              *)
(***************************************************************************)
EXTENDS ChaosScripts, Naturals, FiniteSets, SequencesExt

CONSTANTS Desired,    \* desired_replicas
          Actions,    \* what the endpoints are asked for: [name, service]
          Beside,     \* bound: what the one run beside a scenario may be
          Scenarios,  \* SCENARIOS: sequences of actions
          MaxHand,    \* bound: runs triggered by hand
          MaxRuns     \* bound: runs in all, the others are steps of scenarios

Runs == 1..MaxRuns

(* The dispatch of _scenario_step and of the /chaos endpoints.             *)
Names == {"kill_pod", "cpu_pressure", "network_partition", "expire_jwt",
          "region_outage", "bad_deploy", "redis_failure", "db_failure", "slow_network",
          "memory_leak", "cert_expiry", "dns_failure", "cascading_failure", "disk_full",
          "gc_pause", "thundering_herd", "noisy_neighbor", "spot_reclaim",
          "autoscaler_stuck", "api_throttle", "secret_leak", "service_mesh_crash",
          "third_party_outage"}
Asked == [name : Names, service : Services]

ASSUME ClusterAssumption ==
    /\ Desired \in Nat \ {0}
    /\ MaxHand \in Nat /\ MaxRuns \in Nat
    /\ Actions \subseteq Asked /\ Beside \subseteq Asked
    /\ \A steps \in Scenarios : steps \in Seq(Asked)

Script(name, s) ==
    CASE name = "kill_pod" -> KillPod(s)
      [] name = "cpu_pressure" -> CpuPressure(s)
      [] name = "network_partition" -> NetworkPartition(s)
      [] name = "expire_jwt" -> ExpireJwt
      [] name = "region_outage" -> RegionOutage
      [] name = "bad_deploy" -> BadDeploy(s)
      [] name = "redis_failure" -> RedisFailure
      [] name = "db_failure" -> DbFailure
      [] name = "slow_network" -> SlowNetwork
      [] name = "memory_leak" -> MemoryLeak(s)
      [] name = "cert_expiry" -> CertExpiry
      [] name = "dns_failure" -> DnsFailure
      [] name = "cascading_failure" -> CascadingFailure
      [] name = "disk_full" -> DiskFull(s)
      [] name = "gc_pause" -> GcPause(s)
      [] name = "thundering_herd" -> ThunderingHerd
      [] name = "noisy_neighbor" -> NoisyNeighbor
      [] name = "spot_reclaim" -> SpotReclaim
      [] name = "autoscaler_stuck" -> AutoscalerStuck
      [] name = "api_throttle" -> ApiThrottle
      [] name = "secret_leak" -> SecretLeak
      [] name = "service_mesh_crash" -> ServiceMeshCrash(s)
      [] name = "third_party_outage" -> ThirdPartyOutage

VARIABLES pods,     \* service -> its pods: [id, phase, ready]
          healthy,  \* service -> BOOLEAN
          metric,   \* service, metric -> the runs whose change it carries
          pc,       \* run -> where it is
          what,     \* run -> its action
          done,     \* run -> steps of its script done
          memo,     \* run -> its local variables: [saved, target, mine]
          lock,     \* the run that holds _action_lock, or 0
          mode,     \* _scenario_mode
          live,     \* the scenarios under way, as sets of runs
          manual    \* environment, fixed: are there no scenarios?

cluster == <<pods, healthy, metric>>
vars == <<cluster, pc, what, done, memo, lock, mode, live, manual>>

Phases == {"pending", "running", "terminating"}
Places == {"unused", "asleep", "created", "queued", "acting", "done"}

Used == {r \in Runs : pc[r] # "unused"}

(* Pod names are random; here a pod is known by the run that made it.      *)
Pod(r, n, phase) ==
    [id |-> <<r, n>>, phase |-> phase, ready |-> phase = "running"]
FirstPods == [i \in 1..Desired |-> Pod(0, i, "running")]
Untouched == [s \in Services |-> [m \in Metrics |-> {}]]
NoMemo == [saved |-> Untouched, target |-> <<0, 0>>, mine |-> <<0, 0>>]

(* Types; pod names are unique.                                            *)
TypeOK ==
    /\ \A s \in Services :
         /\ \A i \in DOMAIN pods[s] :
              pods[s][i].phase \in Phases /\ pods[s][i].ready \in BOOLEAN
         /\ \A i, j \in DOMAIN pods[s] : pods[s][i].id = pods[s][j].id => i = j
    /\ healthy \in [Services -> BOOLEAN]
    /\ metric \in [Services -> [Metrics -> SUBSET Runs]]
    /\ pc \in [Runs -> Places]
    /\ lock \in Runs \cup {0}
    /\ mode \in BOOLEAN /\ manual \in BOOLEAN
    /\ live \subseteq SUBSET Used

Init ==
    /\ pods = [s \in Services |-> FirstPods]
    /\ healthy = [s \in Services |-> TRUE]
    /\ metric = Untouched
    /\ pc = [r \in Runs |-> "unused"]
    /\ what = [r \in Runs |-> CHOOSE a \in Actions : TRUE]
    /\ done = [r \in Runs |-> 0]
    /\ memo = [r \in Runs |-> NoMemo]
    /\ lock = 0
    /\ mode = FALSE
    /\ live = {}
    /\ manual \in BOOLEAN

-----------------------------------------------------------------------------
(* What step n of run r does to the pods of a service it has effect e on, *)
SetPhase(seq, chosen, phase) ==
    [i \in DOMAIN seq |-> IF i \in chosen THEN [seq[i] EXCEPT !.phase = phase] ELSE seq[i]]
SetReady(seq, chosen, ready) ==
    [i \in DOMAIN seq |-> IF i \in chosen THEN [seq[i] EXCEPT !.ready = ready] ELSE seq[i]]
Running(seq, chosen) == SetReady(SetPhase(seq, chosen, "running"), chosen, TRUE)
Stopped(seq, chosen) == SetReady(SetPhase(seq, chosen, "terminating"), chosen, FALSE)
Named(seq, id) == {i \in DOMAIN seq : seq[i].id = id}
LastTwo(seq) == {i \in DOMAIN seq : i > Len(seq) - 2}
EveryOther(seq) == {i \in DOMAIN seq : i % 2 = 1}

(* [p for p in svc.pods if ...]: some of the pods, in their order.         *)
Nth(places, n) == CHOOSE i \in places : Cardinality({j \in places : j <= i}) = n
Only(seq, places) == [n \in 1..Cardinality(places) |-> seq[Nth(places, n)]]

Staying(seq) == {i \in DOMAIN seq : seq[i].phase # "terminating"}
MutNoRefill(seq, r) == Only(seq, Staying(seq))
MutNumbered(seq, r) ==
    LET rest == Only(seq, Staying(seq)) IN
    rest \o [i \in 1..(Desired - Len(rest)) |-> Pod(0, i, "running")]
Refilled(seq, r) ==
    LET rest == Only(seq, Staying(seq)) IN
    rest \o [i \in 1..(Desired - Len(rest)) |-> Pod(r, i, "running")]

PodsAfter(e, seq, memory, r, n) ==
    CASE e.op = "terminate" -> SetPhase(seq, Named(seq, memory.target), "terminating")
      [] e.op = "unready" -> SetReady(seq, Named(seq, memory.target), FALSE)
      [] e.op = "stop" -> Stopped(seq, Named(seq, memory.target))
      [] e.op = "add" -> Append(seq, Pod(r, n, "pending"))
      [] e.op = "replace" -> Only(Running(seq, Named(seq, memory.mine)),
                                  DOMAIN seq \ Named(seq, memory.target))
      [] e.op = "start_last_two" -> Running(seq, LastTwo(seq))
      [] e.op = "cut" -> Stopped(seq, EveryOther(seq))
      [] e.op = "refill" -> Refilled(seq, r)
      [] OTHER -> seq

(* to one of its metrics, given what the run has saved of it,              *)
MetricAfter(e, old, saved, r) ==
    CASE e.op = "raise" -> old \cup {r}
      [] e.op = "assign" -> {r}
      [] e.op = "lower" -> old \ {r}
      [] e.op = "divide" -> IF r \in old THEN old \ {r} ELSE old \cup {r}
      [] e.op = "raise_anew" -> saved \cup {r}
      [] e.op = "restore" -> saved
      [] e.op = "reset" -> {}
      [] OTHER -> old

(* and to the run's own variables, read before the change they precede.    *)
MemoAfter(effects, memory, r, n) ==
    LET picks == {e \in effects : e.op = "pick"}
        saves(s, m) == {e \in effects : e.op = "save" /\ s \in e.on /\ e.metric = m}
    IN
    [saved |-> [s \in Services |-> [m \in Metrics |->
        IF saves(s, m) # {} THEN metric[s][m] ELSE memory.saved[s][m]]],
     target |-> IF picks = {} THEN memory.target
                ELSE Head(pods[CHOOSE s \in Services : \E e \in picks : s \in e.on]).id,
     mine |-> IF \E e \in effects : e.op = "add" THEN <<r, n>> ELSE memory.mine]

(* At most one effect of a step is on the pods, the health or a metric of  *)
(* a service.                                                              *)
PodOps == {"terminate", "unready", "stop", "add", "replace", "start_last_two", "cut",
           "refill"}
HealthOps == {"sick", "well"}
MetricOps == {"raise", "assign", "lower", "divide", "raise_anew", "restore", "reset"}
Effects(step, ops, s, m) == {e \in step : e.op \in ops /\ s \in e.on /\ e.metric = m}
The(effects) == CHOOSE e \in effects : TRUE

-----------------------------------------------------------------------------
ScriptOf(r) == Script(what[r].name, what[r].service)

(* A /chaos endpoint starts the action as a task of its own.               *)
Trigger(r, a) ==
    /\ r = Cardinality(Used) + 1
    /\ \/ manual /\ r <= MaxHand
       \/ ~manual /\ r = 1 /\ a \in Beside
    /\ pc' = [pc EXCEPT ![r] = "created"]
    /\ what' = [what EXCEPT ![r] = a]
    /\ UNCHANGED <<cluster, done, memo, lock, mode, live, manual>>

(* run_scenario: one task per step, each asleep until its time.            *)
StartScenario(steps) ==
    LET used == Cardinality(Used)
        S == (used + 1)..(used + Len(steps)) IN
    /\ ~manual
    /\ S \subseteq Runs
    /\ mode' = TRUE
    /\ live' = live \cup {S}
    /\ pc' = [r \in Runs |-> IF r \in S THEN "asleep" ELSE pc[r]]
    /\ what' = [r \in Runs |-> IF r \in S THEN steps[r - used] ELSE what[r]]
    /\ UNCHANGED <<cluster, done, memo, lock, manual>>

Wake(r) ==
    /\ pc[r] = "asleep"
    /\ \A S \in live : r \in S => \A q \in S : q < r => pc[q] # "asleep"
    /\ pc' = [pc EXCEPT ![r] = "created"]
    /\ UNCHANGED <<cluster, what, done, memo, lock, mode, live, manual>>

(* _lock looks at the flag once, when the run begins.                      *)
Begin(r) ==
    /\ pc[r] = "created"
    /\ pc' = [pc EXCEPT ![r] = IF mode THEN "acting" ELSE "queued"]
    /\ UNCHANGED <<cluster, what, done, memo, lock, mode, live, manual>>

(* asyncio.Lock: one run at a time.                                        *)
MutNoLock(r) ==
    /\ pc[r] = "queued"
    /\ lock' = r
    /\ pc' = [pc EXCEPT ![r] = "acting"]
    /\ UNCHANGED <<cluster, what, done, memo, mode, live, manual>>

Acquire(r) ==
    /\ pc[r] = "queued"
    /\ lock = 0
    /\ lock' = r
    /\ pc' = [pc EXCEPT ![r] = "acting"]
    /\ UNCHANGED <<cluster, what, done, memo, mode, live, manual>>

(* The effects of a step happen between two awaits.                        *)
Advance(r) ==
    /\ pc[r] = "acting"
    /\ done[r] < Len(ScriptOf(r))
    /\ done' = [done EXCEPT ![r] = @ + 1]
    /\ UNCHANGED <<pc, what, lock, mode, live, manual>>

PodsAfterStep(step, s, memory, r, n) ==
    LET onPods == Effects(step, PodOps, s, "none") IN
    IF onPods = {} THEN pods[s] ELSE PodsAfter(The(onPods), pods[s], memory, r, n)
HealthAfterStep(step, s) ==
    LET onHealth == Effects(step, HealthOps, s, "none") IN
    IF onHealth = {} THEN healthy[s] ELSE The(onHealth).op = "well"
MetricAfterStep(step, s, m, memory, r) ==
    LET onMetric == Effects(step, MetricOps, s, m) IN
    IF onMetric = {} THEN metric[s][m]
    ELSE MetricAfter(The(onMetric), metric[s][m], memory.saved[s][m], r)

Step(r) ==
    /\ Advance(r)
    /\ \E n \in {done[r] + 1} : \E step \in {ScriptOf(r)[n]} :
       \E memory \in {MemoAfter(step, memo[r], r, n)} :
        /\ memo' = [memo EXCEPT ![r] = memory]
        /\ pods' = [s \in Services |-> PodsAfterStep(step, s, memory, r, n)]
        /\ healthy' = [s \in Services |-> HealthAfterStep(step, s)]
        /\ metric' = [s \in Services |-> [m \in Metrics |->
                        MetricAfterStep(step, s, m, memory, r)]]

MutKeepsLock(r) ==
    /\ pc[r] = "acting"
    /\ done[r] = Len(ScriptOf(r))
    /\ pc' = [pc EXCEPT ![r] = "done"]
    /\ UNCHANGED <<cluster, what, done, memo, lock, mode, live, manual>>
Finish(r) ==
    /\ pc[r] = "acting"
    /\ done[r] = Len(ScriptOf(r))
    /\ pc' = [pc EXCEPT ![r] = "done"]
    /\ lock' = IF lock = r THEN 0 ELSE lock
    /\ UNCHANGED <<cluster, what, done, memo, mode, live, manual>>

(* The flag goes down with the first scenario to end.                      *)
EndScenario(S) ==
    /\ S \in live
    /\ \A r \in S : pc[r] = "done"
    /\ live' = live \ {S}
    /\ mode' = FALSE
    /\ UNCHANGED <<cluster, pc, what, done, memo, lock, manual>>

(* The ambient loop caps the error rate of every healthy service at 1%.    *)
Ambient ==
    /\ metric' = [s \in Services |->
                    IF healthy[s] THEN [metric[s] EXCEPT !["errors"] = {}] ELSE metric[s]]
    /\ UNCHANGED <<pods, healthy, pc, what, done, memo, lock, mode, live, manual>>

Progress(r) == Wake(r) \/ Begin(r) \/ Acquire(r) \/ Step(r) \/ Finish(r)

Next ==
    \/ \E r \in Runs : Progress(r) \/ \E a \in Actions : Trigger(r, a)
    \/ \E steps \in Scenarios : StartScenario(steps)
    \/ \E S \in live : EndScenario(S)
    \/ Ambient

Spec == Init /\ [][Next]_vars

(* asyncio runs every task that is ready; the lock is handed on in turn.   *)
(* (What a step does to the services never stands in its way.)             *)
Work(r) == Wake(r) \/ Begin(r) \/ Acquire(r) \/ Advance(r) \/ Finish(r)
RunsGoOn == WF_<<pc, done>>(\E r \in Runs : Work(r))
FairSpec == Spec /\ RunsGoOn

-----------------------------------------------------------------------------
AtRest == \A r \in Used : pc[r] = "done"

(* When no run is under way, every service is healthy; and as long as all  *)
(* runs were triggered by hand, the lock has kept each one's saved values  *)
(* and pods its own: all pods are up, none is missing, and every metric is *)
(* back at its baseline ("back to desired_replicas ready").                *)
MendedAtRest ==
    AtRest =>
        /\ \A s \in Services : healthy[s]
        /\ manual => /\ metric = Untouched
                     /\ \A s \in Services :
                          /\ Len(pods[s]) >= Desired
                          /\ \A i \in DOMAIN pods[s] :
                               pods[s][i].phase = "running" /\ pods[s][i].ready

(* The runs that have added a pod to a service and are still to take away  *)
(* the one it replaces.                                                    *)
Does(step, op, s) == \E e \in step : e.op = op /\ s \in e.on
SwapsUnderWay(s) ==
    {r \in Runs :
        /\ pc[r] = "acting"
        /\ \E n \in 1..done[r] : Does(ScriptOf(r)[n], "add", s)
        /\ \E n \in (done[r] + 1)..Len(ScriptOf(r)) : Does(ScriptOf(r)[n], "replace", s)}

(* A service never runs out of pods, and each of the runs that are about   *)
(* to take one away leaves one: an outage may have taken the new pod of a  *)
(* swap, which will then take away a pod all the same.                     *)
PodsOutnumberSwaps ==
    \A s \in Services : Cardinality(SwapsUnderWay(s)) < Len(pods[s])

(* What that needs of the environment: an outage that ends, and so tops up *)
(* the pods of a service to `Desired`, meets fewer swaps of it than that.  *)
FewSwaps ==
    \A s \in Services, r \in Runs :
        pc[r] = "acting" /\ done[r] < Len(ScriptOf(r))
          /\ Does(ScriptOf(r)[done[r] + 1], "refill", s)
        => Cardinality(SwapsUnderWay(s)) < Desired

(* Every action that is triggered runs to its end, nobody keeps the lock:  *)
(* with the runs that the bounds allow, the cluster comes to rest.         *)
EveryRunEnds == []<>AtRest
=============================================================================
