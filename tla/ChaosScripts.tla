----------------------------- MODULE ChaosScripts -----------------------------
(***************************************************************************)
(* The 23 actions of the chaos controller's MockCluster (app/cluster.py)   *)
(* as scripts: an action is the sequence of its steps, a step the set      *)
(* of the effects that it has between two awaits.  Steps that only wait    *)
(* and publish are left out, and so are the request rate, which no action  *)
(* reads, and the sizes of the changes to latency and error rate: raise    *)
(* adds an increase, assign replaces the value, lower takes an increase    *)
(* away down to the baseline at most, divide takes it away even from a     *)
(* value that no longer has it, restore puts back what save has read,      *)
(* reset is the baseline.  An error rate below 1% counts as the baseline.  *)
(***************************************************************************)
EXTENDS Sequences

Services == {"api-gateway", "user-service", "task-service", "notification-service"}
Metrics == {"latency", "errors"}

Effect(op, on, metric) == [op |-> op, on |-> on, metric |-> metric]
OnMetric(op, S, m) == Effect(op, S, m)
OnService(op, S) == Effect(op, S, "none")

Save(S, m) == OnMetric("save", S, m)
Raise(S, m) == OnMetric("raise", S, m)
Assign(S, m) == OnMetric("assign", S, m)
Lower(S, m) == OnMetric("lower", S, m)
Divide(S, m) == OnMetric("divide", S, m)
RaiseAnew(S, m) == OnMetric("raise_anew", S, m)
Restore(S, m) == OnMetric("restore", S, m)
Reset(S, m) == OnMetric("reset", S, m)
Sick(S) == OnService("sick", S)
Well(S) == OnService("well", S)
Pick(s) == OnService("pick", {s})            \* target = pods[0]
Terminate(s) == OnService("terminate", {s})  \* target.phase = "Terminating"
Unready(s) == OnService("unready", {s})      \* target.ready = False
Stop(s) == OnService("stop", {s})            \* both
Add(s) == OnService("add", {s})              \* a new Pending pod
Replace(s) == OnService("replace", {s})      \* new_pod is up, target is gone
StartLastTwo(s) == OnService("start_last_two", {s})
Cut(S) == OnService("cut", S)                \* every other pod goes down
Refill(S) == OnService("refill", S)          \* up to desired_replicas

-----------------------------------------------------------------------------
KillPod(s) ==
    << {Pick(s)}, {Terminate(s)},
       {Unready(s), Sick({s}), Save({s}, "latency"), Save({s}, "errors"),
         Raise({s}, "latency"), Assign({s}, "errors")},
       {Add(s)}, {Replace(s)},
       {Restore({s}, "latency"), Restore({s}, "errors"), Well({s})} >>

(* The HPA scales up by two and never down again.  Latency climbs and falls*)
(* by degrees: twice, for the six and the eight times of the code.         *)
CpuPressure(s) ==
    << {Raise({s}, "latency")}, {Raise({s}, "latency")}, {Add(s)}, {Add(s)},
       {StartLastTwo(s)}, {Lower({s}, "latency")}, {Lower({s}, "latency")} >>

NetworkPartition(s) ==
    << {Save({s}, "errors"), Save({s}, "latency"), Sick({s}),
         Assign({s}, "errors"), Assign({s}, "latency")},
       {Restore({s}, "errors"), Restore({s}, "latency"), Well({s})} >>

ApiErrors(S) ==
    << {Sick(S), Save(S, "errors"), Assign(S, "errors")},
       {Restore(S, "errors"), Well(S)} >>

ExpireJwt == ApiErrors({"api-gateway"})
CertExpiry == ApiErrors({"api-gateway"})

RegionOutage ==
    << {Cut(Services), Sick(Services), Raise(Services, "latency")},
       {Refill(Services), Well(Services), Divide(Services, "latency")} >>

BadDeploy(s) == << >>
ApiThrottle == << >>

RedisFailure ==
    << {Save(Services, "latency"), Raise(Services, "latency")},
       {Restore(Services, "latency")} >>

DbFailure ==
    LET S == {"user-service", "task-service"} IN
    << {Save(S, "latency"), Save(S, "errors"), Sick(S), Assign(S, "errors"),
         Raise(S, "latency")},
       {Well(S), Restore(S, "latency"), Restore(S, "errors")} >>

SlowNetwork ==
    << {Save(Services, "latency"), Raise(Services, "latency")},
       {Raise(Services, "errors")},
       {Restore(Services, "latency"), Lower(Services, "errors")} >>

MemoryLeak(s) ==
    << {Pick(s)}, {Save({s}, "latency"), Raise({s}, "latency")},
       {Stop(s), Sick({s})}, {Add(s)},
       {Replace(s), Restore({s}, "latency"), Well({s})} >>

DnsFailure == << {Raise(Services, "errors")}, {Lower(Services, "errors")} >>

CascadingFailure ==
    LET user == {"user-service"}  task == {"task-service"}  api == {"api-gateway"} IN
    << {Sick(user), Assign(user, "errors"), Raise(user, "latency")},
       {Assign(task, "errors"), Raise(task, "latency")}, {Assign(api, "errors")},
       {Well(user), Divide(user \cup task, "latency"),
         Reset(user \cup task \cup api, "errors")} >>

DiskFull(s) ==
    << {Pick(s)}, {Save({s}, "errors"), Assign({s}, "errors")},
       {Stop(s), Sick({s})}, {Add(s)},
       {Replace(s), Restore({s}, "errors"), Well({s})} >>

(* Halfway the pause is only partly over: still an increase on what it was.*)
GcPause(s) ==
    << {Save({s}, "latency"), Raise({s}, "latency")},
       {RaiseAnew({s}, "latency")}, {Restore({s}, "latency")} >>

ThunderingHerd ==
    LET user == {"user-service"}  both == {"user-service", "api-gateway"} IN
    << {Save(user, "errors"), Assign(user, "errors")}, {Restore(user, "errors")},
       {Assign(user, "errors"), Raise(both, "latency")},
       {Restore(user, "errors"), Divide(both, "latency")} >>

NoisyNeighbor ==
    LET S == {"task-service", "notification-service"} IN
    << {Save(S, "latency"), Raise(S, "latency")}, {Restore(S, "latency")} >>

SpotReclaim ==
    LET s == "api-gateway" IN
    << {Pick(s), Stop(s)}, {Add(s)}, {Replace(s)} >>

AutoscalerStuck ==
    LET api == {"api-gateway"} IN
    << {Raise(api, "latency"), Assign(api, "errors")},
       {Divide(api, "latency"), Reset(api, "errors")} >>

SecretLeak == << {Sick({"user-service"})}, {Well({"user-service"})} >>

ServiceMeshCrash(s) ==
    << {Save({s}, "errors"), Assign({s}, "errors")}, {Restore({s}, "errors")} >>

ThirdPartyOutage ==
    << {Assign({"task-service"}, "errors")}, {Reset({"task-service"}, "errors")} >>
-----------------------------------------------------------------------------
(* The scenarios of app/explainers.py: their steps in the order of their   *)
(* times ("at").  An action that has no service ignores the one it is      *)
(* given.                                                                  *)
Ask(name, service) == [name |-> name, service |-> service]
AskAll(name) == Ask(name, "api-gateway")

BlackFriday ==
    << Ask("cpu_pressure", "api-gateway"), Ask("cpu_pressure", "task-service"),
       Ask("cpu_pressure", "user-service"), Ask("kill_pod", "api-gateway") >>
RegionDisaster == << AskAll("region_outage"), Ask("cpu_pressure", "api-gateway") >>
BadDeployDay ==
    << Ask("bad_deploy", "task-service"), Ask("bad_deploy", "user-service"),
       Ask("kill_pod", "notification-service") >>
SecurityIncident == << AskAll("expire_jwt"), Ask("network_partition", "task-service") >>
CacheCascade ==
    << AskAll("redis_failure"), AskAll("db_failure"), Ask("cpu_pressure", "api-gateway") >>
FridayEvening ==
    << Ask("bad_deploy", "task-service"), Ask("cpu_pressure", "user-service"),
       AskAll("thundering_herd") >>
ChristmasEve ==
    << Ask("cpu_pressure", "api-gateway"), AskAll("redis_failure"),
       Ask("kill_pod", "task-service"), AskAll("third_party_outage") >>
TheAudit ==
    << AskAll("expire_jwt"), AskAll("secret_leak"), AskAll("cert_expiry"),
       Ask("kill_pod", "user-service") >>
ActiveBreach ==
    << AskAll("secret_leak"), Ask("network_partition", "task-service"),
       AskAll("expire_jwt"), AskAll("cascading_failure") >>
UpgradeGoneWrong ==
    << AskAll("api_throttle"), AskAll("autoscaler_stuck"), AskAll("noisy_neighbor"),
       Ask("kill_pod", "api-gateway") >>

SCENARIOS == {BlackFriday, RegionDisaster, BadDeployDay, SecurityIncident,
              CacheCascade, FridayEvening, ChristmasEve, TheAudit, ActiveBreach,
              UpgradeGoneWrong}
=============================================================================
